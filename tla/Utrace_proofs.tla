---------------------------- MODULE Utrace_proofs ----------------------------
(***************************************************************************)
(* What the task finder and its utrace layer promise for any number of     *)
(* structs, engines, failures and execs: the module goes only when none of *)
(* its callbacks is left in the task.                                      *)
(***************************************************************************)
EXTENDS Utrace, FiniteSetTheorems, WellFoundedInduction, TLAPS

-----------------------------------------------------------------------------
(* Without(), by induction over the length of the sequence.  The library's
   induction theorems take the property as an operator; here it is a set.   *)

(* A set of numbers that is not empty has a least element.                  *)
LEMMA Least ==
    ASSUME NEW T \in SUBSET Nat, T # {}
    PROVE  \E x \in T : \A y \in T : x <= y
<1> DEFINE R == OpToRel(<, Nat)
<1>1. IsWellFoundedOn(R, Nat)
  BY NatLessThanWellFounded
<1>2. \A x, y \in Nat : y < x => <<y, x>> \in R
  BY DEF OpToRel
<1> HIDE DEF R
<1>3. PICK x \in T : \A y \in T : ~(<<y, x>> \in R)
  BY <1>1, WFMin
<1>4. ASSUME NEW y \in T PROVE ~(y < x)
  <2>1. x \in Nat /\ y \in Nat
    OBVIOUS
  <2>2. <<y, x>> \notin R
    BY <1>3
  <2> QED
    BY <1>2, <2>1, <2>2, Zenon
<1>5. \A y \in T : x <= y
  BY <1>4
<1> QED
  BY <1>5

(* Hence a set of numbers that has 0 and, with n, n + 1, has them all.      *)
LEMMA SetInduction ==
    ASSUME NEW T \in SUBSET Nat, 0 \in T, \A n \in T : n + 1 \in T
    PROVE  T = Nat
<1> SUFFICES ASSUME Nat \ T # {} PROVE FALSE
  OBVIOUS
<1>1. PICK x \in Nat \ T : \A y \in Nat \ T : x <= y
  BY Least
<1>2. x # 0 /\ x - 1 \in Nat /\ x - 1 \in T
  BY <1>1
<1> QED
  BY <1>1, <1>2

(* One step of Without(), and the functions that take n of them.            *)
Kept(v, x, S) == IF x \in S THEN v ELSE Append(v, x)
Filters(g, n, q, S) ==
    /\ g[0] = <<>>
    /\ \A i \in 1..n : g[i] = Kept(g[i - 1], q[i], S)

(* They agree as far as they go ...                                         *)
LEMMA FilterUnique ==
    ASSUME NEW n \in Nat, NEW m \in Nat, NEW g, NEW h, NEW q, NEW S,
           Filters(g, n, q, S), Filters(h, m, q, S), n <= m
    PROVE  g[n] = h[n]
<1> DEFINE T == {i \in Nat : i <= n => g[i] = h[i]}
<1>1. 0 \in T
  BY DEF Filters
<1>2. ASSUME NEW i \in T PROVE i + 1 \in T
  <2> SUFFICES ASSUME i + 1 <= n PROVE g[i + 1] = h[i + 1]
    OBVIOUS
  <2>1. i + 1 \in 1..n /\ i + 1 \in 1..m /\ (i + 1) - 1 = i
    OBVIOUS
  <2>2. g[i] = h[i]
    OBVIOUS
  <2> QED
    BY <2>1, <2>2 DEF Filters
<1>3. T = Nat
  <2>1. T \in SUBSET Nat
    OBVIOUS
  <2> HIDE DEF T
  <2> QED
    BY <2>1, <1>1, <1>2, SetInduction
<1> QED
  BY <1>3

(* ... and there is one for every length.                                   *)
LEMMA FilterExists ==
    ASSUME NEW q, NEW S, NEW n \in Nat
    PROVE  \E g : Filters(g, n, q, S)
<1> DEFINE T == {i \in Nat : \E g : Filters(g, i, q, S)}
<1>1. 0 \in T
  <2> DEFINE g == [i \in {0} |-> <<>>]
  <2>1. Filters(g, 0, q, S)
    BY DEF Filters
  <2> QED
    BY <2>1
<1>2. ASSUME NEW k \in T PROVE k + 1 \in T
  <2>1. PICK g : Filters(g, k, q, S)
    OBVIOUS
  <2> DEFINE h == [i \in 0..(k + 1) |->
                     IF i = k + 1 THEN Kept(g[k], q[k + 1], S) ELSE g[i]]
  <2>2. h[0] = <<>>
    BY <2>1 DEF Filters
  <2>3. ASSUME NEW i \in 1..(k + 1) PROVE h[i] = Kept(h[i - 1], q[i], S)
    <3>1. CASE i = k + 1
      <4>1. i - 1 = k /\ h[i - 1] = g[k]
        BY <3>1
      <4>2. h[i] = Kept(g[k], q[k + 1], S)
        BY <3>1
      <4> QED
        BY <3>1, <4>1, <4>2
    <3>2. CASE i # k + 1
      <4>1. i \in 1..k /\ h[i] = g[i] /\ h[i - 1] = g[i - 1]
        BY <3>2
      <4> QED
        BY <4>1, <2>1 DEF Filters
    <3> QED
      BY <3>1, <3>2
  <2>4. Filters(h, k + 1, q, S)
    BY <2>2, <2>3 DEF Filters
  <2> HIDE DEF h
  <2> QED
    BY <2>4
<1>3. T = Nat
  <2>1. T \in SUBSET Nat
    OBVIOUS
  <2> HIDE DEF T
  <2> QED
    BY <2>1, <1>1, <1>2, SetInduction
<1> QED
  BY <1>3

(* So the recursive function in Without() is what its equations say.        *)
LEMMA WithoutFilters ==
    ASSUME NEW q, NEW S
    PROVE  \E f : Without(q, S) = f[Len(q)] /\ \A n \in Nat : Filters(f, n, q, S)
<1> DEFINE P(f) == f = [n \in Nat |->
                          IF n = 0 THEN <<>>
                          ELSE IF q[n] \in S THEN f[n - 1] ELSE Append(f[n - 1], q[n])]
<1>1. \E f : P(f)
  <2> DEFINE f == [n \in Nat |-> (CHOOSE g : Filters(g, n, q, S))[n]]
  <2>1. ASSUME NEW n \in Nat PROVE Filters(CHOOSE g : Filters(g, n, q, S), n, q, S)
    BY FilterExists, Zenon
  <2>2. f[0] = <<>>
    BY <2>1 DEF Filters
  <2>3. ASSUME NEW n \in Nat, n # 0 PROVE f[n] = Kept(f[n - 1], q[n], S)
    <3> DEFINE g == CHOOSE e : Filters(e, n, q, S)
               h == CHOOSE e : Filters(e, n - 1, q, S)
    <3>1. n - 1 \in Nat /\ n - 1 <= n /\ n \in 1..n
      BY <2>3
    <3>2. Filters(g, n, q, S) /\ Filters(h, n - 1, q, S)
      BY <2>1, <3>1
    <3>3. f[n] = g[n] /\ f[n - 1] = h[n - 1]
      BY <3>1
    <3> HIDE DEF g, h, f
    <3>4. Filters(g, n - 1, q, S)
      BY <3>1, <3>2 DEF Filters
    <3>5. h[n - 1] = g[n - 1]
      BY <3>1, <3>2, <3>4, FilterUnique
    <3> QED
      BY <3>1, <3>2, <3>3, <3>5 DEF Filters
  <2>4. P(f)
    <3>1. DOMAIN f = Nat /\ f = [n \in Nat |-> f[n]]
      OBVIOUS
    <3> HIDE DEF f
    <3>2. \A n \in Nat : f[n] = IF n = 0 THEN <<>>
                                ELSE IF q[n] \in S THEN f[n - 1]
                                ELSE Append(f[n - 1], q[n])
      BY <2>2, <2>3 DEF Kept
    <3> QED
      BY <3>1, <3>2
  <2> HIDE DEF f
  <2> QED
    BY <2>4
<1>2. Without(q, S) = (CHOOSE f : P(f))[Len(q)]
  BY Zenon DEF Without
<1> DEFINE F == CHOOSE f : P(f)
<1>3. P(F)
  <2> HIDE DEF P
  <2> QED
    BY <1>1, Zenon
<1> HIDE DEF F
<1>4. \A n \in Nat : Filters(F, n, q, S)
  <2>1. ASSUME NEW n \in Nat
        PROVE  F[n] = IF n = 0 THEN <<>>
                      ELSE IF q[n] \in S THEN F[n - 1] ELSE Append(F[n - 1], q[n])
    BY <1>3, Zenon
  <2>2. F[0] = <<>>
    BY <2>1
  <2>3. ASSUME NEW n \in Nat, NEW i \in 1..n PROVE F[i] = Kept(F[i - 1], q[i], S)
    BY <2>1 DEF Kept
  <2> QED
    BY <2>2, <2>3 DEF Filters
<1> QED
  BY <1>2, <1>4, Zenon DEF F

(* What ToSet() says of a sequence, and of the ones built from it.           *)
LEMMA ToSetIs ==
    ASSUME NEW A, NEW q \in Seq(A)
    PROVE  \A x : x \in ToSet(q) <=> \E i \in 1..Len(q) : x = q[i]
<1>1. DOMAIN q = 1..Len(q)
  OBVIOUS
<1> QED
  BY <1>1, Zenon DEF ToSet

LEMMA ToSetParts ==
    /\ ToSet(<<>>) = {}
    /\ \A A : \A q \in Seq(A) : ToSet(q) \in SUBSET A
    /\ \A A : \A q \in Seq(A), x \in A : ToSet(Append(q, x)) = ToSet(q) \cup {x}
    /\ \A A : \A q, r \in Seq(A) : ToSet(q \o r) = ToSet(q) \cup ToSet(r)
<1>1. ToSet(<<>>) = {}
  <2> DEFINE e == <<>>
  <2>1. e \in Seq({}) /\ Len(e) = 0
    OBVIOUS
  <2> HIDE DEF e
  <2>2. \A x : x \in ToSet(e) <=> \E i \in 1..Len(e) : x = e[i]
    BY <2>1, ToSetIs
  <2>3. ToSet(e) = {}
    BY <2>1, <2>2
  <2> QED
    BY <2>3 DEF e
<1>2. ASSUME NEW A, NEW q \in Seq(A) PROVE ToSet(q) \in SUBSET A
  <2>1. ASSUME NEW x \in ToSet(q) PROVE x \in A
    <3>1. PICK i \in 1..Len(q) : x = q[i]
      BY ToSetIs
    <3> QED
      BY <3>1
  <2> QED
    BY <2>1
<1>3. ASSUME NEW A, NEW q \in Seq(A), NEW x \in A
      PROVE  ToSet(Append(q, x)) = ToSet(q) \cup {x}
  <2> DEFINE r == Append(q, x)
  <2>1. /\ r \in Seq(A) /\ Len(r) = Len(q) + 1 /\ r[Len(q) + 1] = x
        /\ \A i \in 1..Len(q) : r[i] = q[i]
        /\ Len(q) \in Nat
    OBVIOUS
  <2> HIDE DEF r
  <2>2. \A y : y \in ToSet(r) <=> \E i \in 1..Len(r) : y = r[i]
    BY <2>1, ToSetIs
  <2>3. \A y : y \in ToSet(q) <=> \E i \in 1..Len(q) : y = q[i]
    BY ToSetIs
  <2>4. ASSUME NEW y PROVE y \in ToSet(r) <=> y \in ToSet(q) \/ y = x
    BY <2>1, <2>2, <2>3
  <2>5. ToSet(r) = ToSet(q) \cup {x}
    BY <2>4
  <2> QED
    BY <2>5 DEF r
<1>4. ASSUME NEW A, NEW q \in Seq(A), NEW r \in Seq(A)
      PROVE  ToSet(q \o r) = ToSet(q) \cup ToSet(r)
  <2> DEFINE t == q \o r
  <2>1. /\ t \in Seq(A) /\ Len(t) = Len(q) + Len(r)
        /\ \A i \in 1..Len(q) : t[i] = q[i]
        /\ \A i \in 1..Len(r) : t[Len(q) + i] = r[i]
        /\ Len(q) \in Nat /\ Len(r) \in Nat
    OBVIOUS
  <2> HIDE DEF t
  <2>2. \A y : y \in ToSet(t) <=> \E i \in 1..Len(t) : y = t[i]
    BY <2>1, ToSetIs
  <2>3. \A y : y \in ToSet(q) <=> \E i \in 1..Len(q) : y = q[i]
    BY ToSetIs
  <2>4. \A y : y \in ToSet(r) <=> \E i \in 1..Len(r) : y = r[i]
    BY ToSetIs
  <2>5. ASSUME NEW y \in ToSet(t) PROVE y \in ToSet(q) \cup ToSet(r)
    <3>1. PICK i \in 1..Len(t) : y = t[i]
      BY <2>2
    <3>2. CASE i <= Len(q)
      BY <2>1, <2>3, <3>1, <3>2
    <3>3. CASE ~(i <= Len(q))
      <4>1. i - Len(q) \in 1..Len(r) /\ i = Len(q) + (i - Len(q))
        BY <2>1, <3>3
      <4> QED
        BY <2>1, <2>4, <3>1, <4>1
    <3> QED
      BY <3>2, <3>3
  <2>6. ASSUME NEW y \in ToSet(q) PROVE y \in ToSet(t)
    BY <2>1, <2>2, <2>3
  <2>7. ASSUME NEW y \in ToSet(r) PROVE y \in ToSet(t)
    <3>1. PICK i \in 1..Len(r) : y = r[i]
      BY <2>4
    <3>2. Len(q) + i \in 1..Len(t) /\ t[Len(q) + i] = y
      BY <2>1, <3>1
    <3> QED
      BY <2>2, <3>2
  <2>8. ToSet(t) = ToSet(q) \cup ToSet(r)
    BY <2>5, <2>6, <2>7
  <2> QED
    BY <2>8 DEF t
<1> QED
  BY <1>1, <1>2, <1>3, <1>4

(* Without(q, S) is a sequence of what is in q and not in S, and it has no
   element twice if q has none.                                             *)
Distinct(q) == \A i, j \in 1..Len(q) : q[i] = q[j] => i = j

LEMMA WithoutFacts ==
    ASSUME NEW A, NEW q \in Seq(A), NEW S
    PROVE  /\ Without(q, S) \in Seq(A)
           /\ ToSet(Without(q, S)) = ToSet(q) \ S
           /\ Distinct(q) => Distinct(Without(q, S))
<1>1. PICK f : Without(q, S) = f[Len(q)] /\ \A n \in Nat : Filters(f, n, q, S)
  BY WithoutFilters
<1> DEFINE Seen(n) == {y \in A : \E i \in 1..n : y = q[i]}
           Good(n) == /\ f[n] \in Seq(A)
                      /\ ToSet(f[n]) = Seen(n) \ S
                      /\ Distinct(q) => Distinct(f[n])
           T == {n \in Nat : n <= Len(q) => Good(n)}
<1>2. 0 \in T
  <2>1. f[0] = <<>> /\ ToSet(f[0]) = {}
    BY <1>1, ToSetParts DEF Filters
  <2>2. Seen(0) = {}
    OBVIOUS
  <2>3. Good(0)
    BY <2>1, <2>2 DEF Distinct
  <2> HIDE DEF Good
  <2> QED
    BY <2>3
<1>3. ASSUME NEW n \in T PROVE n + 1 \in T
  <2> SUFFICES ASSUME n + 1 <= Len(q) PROVE Good(n + 1)
    OBVIOUS
  <2> DEFINE x == q[n + 1]
             v == f[n]
             w == f[n + 1]
  <2>1. n \in Nat /\ n + 1 \in 1..(n + 1) /\ (n + 1) - 1 = n /\ n + 1 \in 1..Len(q)
    OBVIOUS
  <2>2. w = Kept(v, x, S)
    <3>1. Filters(f, n + 1, q, S)
      BY <1>1, <2>1
    <3> QED
      BY <2>1, <3>1 DEF Filters
  <2>3. Good(n)
    BY <2>1
  <2>4. x \in A
    BY <2>1
  <2>5. Seen(n + 1) = Seen(n) \cup {x}
    BY <2>1, <2>4
  <2>6. Distinct(q) => x \notin Seen(n)
    BY <2>1 DEF Distinct
  <2> HIDE DEF Seen
  <2>7. CASE x \in S
    <3>1. w = v
      BY <2>2, <2>7 DEF Kept
    <3> HIDE DEF x
    <3> QED
      BY <2>3, <2>5, <2>7, <3>1
  <2>8. CASE x \notin S
    <3>1. w = Append(v, x)
      BY <2>2, <2>8 DEF Kept
    <3>2. v \in Seq(A) /\ ToSet(v) = Seen(n) \ S
      BY <2>3
    <3>3. Distinct(q) => Distinct(v)
      BY <2>3
    <3> HIDE DEF x, v, w
    <3>4. /\ w \in Seq(A) /\ Len(w) = Len(v) + 1 /\ Len(v) \in Nat
          /\ w[Len(v) + 1] = x
          /\ \A i \in 1..Len(v) : w[i] = v[i]
      BY <2>4, <3>1, <3>2
    <3>5. ToSet(w) = ToSet(v) \cup {x}
      BY <2>4, <3>1, <3>2, ToSetParts
    <3>6. ToSet(w) = Seen(n + 1) \ S
      BY <2>5, <2>8, <3>2, <3>5
    <3>7. x \notin Seen(n) => \A i \in 1..Len(v) : v[i] # x
      BY <3>2, ToSetIs
    <3>8. Distinct(q) => Distinct(w)
      BY <2>6, <3>3, <3>4, <3>7 DEF Distinct
    <3> QED
      BY <3>4, <3>6, <3>8 DEF w
  <2> QED
    BY <2>7, <2>8
<1>4. Len(q) \in T
  <2>1. T \in SUBSET Nat /\ Len(q) \in Nat
    OBVIOUS
  <2> HIDE DEF T
  <2> QED
    BY <2>1, <1>2, <1>3, SetInduction
<1>5. Good(Len(q))
  <2> HIDE DEF Good
  <2> QED
    BY <1>4
<1>6. Seen(Len(q)) = ToSet(q)
  BY ToSetIs, ToSetParts
<1> QED
  BY <1>1, <1>5, <1>6

-----------------------------------------------------------------------------
(* Where the two processes are.                                             *)

(* p is inside __stp_utrace_attach() or a call like it.                     *)
CallPuts == {"att_fail", "ev_get", "ctl_get", "eng_put", "q_add"}
Calling(p) == pc[p] \in CallLabels \/ (pc[p] \in PutLabels /\ at[p].k \in CallPuts)

TaskPlace ==
    /\ \/ pc["task"] \in CallLabels \/ pc["task"] \in PutLabels \/ pc["task"] \in ProbeLabels
       \/ pc["task"] \in PassLabels \/ pc["task"] \in TfLabels \/ pc["task"] \in Uncounted
    /\ pc["task"] \in PutLabels => at["task"].k \in CallPuts \cup {"tp_out", "w_done", "put2"}
    /\ pc["task"] = "ctl_count" => at["task"].k = "eng_put"
    /\ pc["task"] \in {"notify", "fin_count"} => at["task"].k = "w_done"
    /\ Calling("task") =>
         /\ at["task"].ret \in {"q_add", "x_out", "cl_match", "cl_end"}
         /\ at["task"].act = "NONE" <=> at["task"].ret = "q_add"

StapPlace ==
    /\ \/ pc["stap"] \in CallLabels \/ pc["stap"] \in PutLabels
       \/ pc["stap"] \in StartLabels \/ pc["stap"] \in StopLabels
    /\ pc["stap"] \in PutLabels => at["stap"].k \in (CallPuts \ {"q_add"}) \cup {"running"}
    /\ pc["stap"] = "ctl_count" => at["stap"].k = "eng_put"
    /\ Calling("stap") =>
         /\ at["stap"].ret \in {"s_finder", "s_target", "running"}
         /\ at["stap"].act # "NONE"

(* The locals are records with the fields of NoCall and NoReport.           *)
Locals ==
    /\ DOMAIN pc = Procs /\ DOMAIN at = Procs
    /\ \A p \in Procs : DOMAIN at[p] = {"ops", "s", "found", "e", "rc", "act", "ev", "k", "ret"}
    /\ DOMAIN rep = {"s", "ev", "i", "det", "spur", "tp"}
    /\ rep.tp \in BOOLEAN

(* A tracepoint probe hands an exec to a reporting pass and a death to a task
   work; apart from that the task is in a tracepoint probe (rep.tp) exactly
   while it reports an exec.                                                *)
InProbe == pc["task"] \in ProbeLabels \/ (pc["task"] \in PutLabels /\ at["task"].k = "tp_out")

ProbeSide ==
    /\ InProbe => rep.tp
    /\ ~InProbe => (rep.tp <=> rep.ev = "EXEC")
    /\ pc["task"] \in Uncounted \cup TfLabels => rep.ev = "NONE"
    /\ Calling("task") /\ at["task"].ret \in {"cl_match", "cl_end"} => rep.ev = "NONE"
    /\ pc["task"] \in {"w_done", "put2", "notify", "fin_count", "reap", "rw_lock"} => ~rep.tp
    /\ pc["task"] \in PutLabels /\ at["task"].k \in {"w_done", "put2"} => ~rep.tp

(* The stop takes the probes off the tracepoints before it cancels anything. *)
Cancelling == {"st_cancel", "st_inuse", "st_tfc", "st_wait", "st_sleep", "st_free", "unloaded"}
StopOrder ==
    /\ pc["stap"] \in {"st_sync"} \cup Cancelling => ~reg
    /\ pc["stap"] \in Cancelling => ~rep.tp

(* __stp_inuse_count is one exactly while a handler that saw the task finder
   running is between its atomic_inc and its atomic_dec.                    *)
Handling ==
    \/ Calling("task")
    \/ pc["task"] \in {"q_add", "q_count", "x_out", "end_cb", "tf_begin", "cl_match", "cl_end"}
InuseCounts == inuse = IF Handling THEN 1 ELSE 0

PlaceInv == Locals /\ TaskPlace /\ StapPlace /\ ProbeSide /\ StopOrder /\ InuseCounts

-----------------------------------------------------------------------------
(* The count of task works.                                                 *)

(* The task runs a callback that has not been counted down; it has added a
   work and not counted it yet.                                             *)
InWork == pc["task"] \notin Uncounted /\ ~rep.tp
Counting == {"ctl_count", "death_count", "q_count", "fin_count"}

WorksCounted ==
    /\ IsFiniteSet(works) /\ IsFiniteSet(taken) /\ cnt \in Int
    /\ cnt >= Cardinality(works) + Cardinality(taken) + (IF InWork THEN 1 ELSE 0)
              - (IF pc["stap"] = "ctl_count" THEN 1 ELSE 0)
              - (IF pc["task"] \in Counting THEN 1 ELSE 0)

(* A work the task has added and not counted is still queued, for what could
   cancel it waits for the task first.                                      *)
WorkAdded ==
    /\ pc["task"] = "ctl_count" => \/ Resume(at["task"].s) \in works
                                   \/ pc["stap"] \in {"st_cancel", "st_inuse"}
    /\ pc["task"] = "q_count" => \E w \in works : w.kind = "tf"
    /\ pc["task"] = "fin_count" => Resume(rep.s) \in works \/ early

CountInv == WorksCounted /\ WorkAdded /\ (early \/ CallbacksFinished)

-----------------------------------------------------------------------------
(* What the larger actions do to the control state and to the set of works. *)

(* What find_matching_engine() does to the control state: it leaves for ctl_get with
   an engine, or for the end of stap_task_finder_post_init(). *)
LEMMA FindControl ==
    ASSUME find_matching_engine
    PROVE  /\ pc["stap"] = "post_find" /\ Goto("stap", "put")
           /\ \/ at' = [at EXCEPT !["stap"].k = "running"]
              \/ \E s, e : at' = [at EXCEPT !["stap"] = [NoCall EXCEPT !.s = s, !.e = e,
                                !.act = "INTERRUPT", !.k = "ctl_get", !.ret = "running"]]
           /\ UNCHANGED <<finder, cnt, kernel, rep, hist>>
BY Zenon DEF find_matching_engine

(* utrace_add_engine() goes on to utrace_set_events(), through the put of a struct
   it had looked up, or fails. *)
LEMMA AddControl ==
    ASSUME NEW p \in Procs, utrace_add_engine(p)
    PROVE  /\ pc[p] = "att_eng"
           /\ \/ \E e : /\ at' = [at EXCEPT ![p].e = e, ![p].found = FALSE, ![p].k = "ev_get"]
                        /\ Goto(p, IF at[p].found THEN "put" ELSE "ev_get")
              \/ \E rc : /\ at' = [at EXCEPT ![p].rc = rc, ![p].k = "att_fail"]
                         /\ Goto(p, "put")
           /\ UNCHANGED <<finder, cnt, kernel, rep, hist>>
BY Zenon DEF utrace_add_engine

(* utrace_task_alloc() goes on with a struct or returns ENOMEM to the caller. *)
LEMMA AllocControl ==
    ASSUME NEW p \in Procs, utrace_task_alloc(p)
    PROVE  /\ pc[p] = "att_alloc"
           /\ \/ \E s : at' = [at EXCEPT ![p].s = s] /\ Goto(p, "att_eng")
              \/ Returned(p, "ENOMEM") /\ Goto(p, at[p].ret)
           /\ UNCHANGED <<finder, cnt, kernel, rep, hist>>
BY Zenon DEF utrace_task_alloc

(* A call of __stp_utrace_attach() starts, or returns at once for a task without mm. *)
LEMMA CallControl ==
    ASSUME NEW p, NEW o, NEW ev, NEW a, NEW r, Call(p, o, ev, a, r)
    PROVE  \E c : /\ at' = [at EXCEPT ![p] = c]
                  /\ DOMAIN c = {"ops", "s", "found", "e", "rc", "act", "ev", "k", "ret"}
                  /\ tk.mm => c.act = a /\ c.ret = r
                  /\ Goto(p, IF tk.mm THEN "att_get" ELSE r)
<1>1. CASE tk.mm
  <2> DEFINE c == [NoCall EXCEPT !.ops = o, !.ev = ev, !.act = a, !.ret = r]
  <2>1. /\ DOMAIN c = {"ops", "s", "found", "e", "rc", "act", "ev", "k", "ret"}
        /\ c.act = a /\ c.ret = r
    BY DEF NoCall
  <2>2. at' = [at EXCEPT ![p] = c] /\ Goto(p, "att_get")
    BY <1>1 DEF Call
  <2> HIDE DEF c
  <2> QED
    BY <1>1, <2>1, <2>2
<1>2. CASE ~tk.mm
  <2> DEFINE c == [NoCall EXCEPT !.rc = "EPERM"]
  <2>1. DOMAIN c = {"ops", "s", "found", "e", "rc", "act", "ev", "k", "ret"}
    BY DEF NoCall
  <2>2. at' = [at EXCEPT ![p] = c] /\ Goto(p, r)
    BY <1>2 DEF Call
  <2> HIDE DEF c
  <2> QED
    BY <1>2, <2>1, <2>2
<1> QED
  BY <1>1, <1>2

(* A tracepoint probe returns, puts the struct, makes a reporting pass for an exec
   or queues the report work for a death. *)
LEMMA TracepointControl ==
    ASSUME TracepointGet
    PROVE  /\ pc["task"] = "tp_get"
           /\ \/ Goto("task", "tp_out") /\ UNCHANGED <<works, at, rep>>
              \/ \E s : /\ rep' = [rep EXCEPT !.s = s]
                        /\ at' = [at EXCEPT !["task"] = [NoCall EXCEPT !.s = s, !.k = "tp_out"]]
                        /\ \/ Goto("task", "put") /\ UNCHANGED works
                           \/ rep.ev = "EXEC" /\ Goto("task", "rep_start") /\ UNCHANGED works
                           \/ /\ rep.ev # "EXEC" /\ Goto("task", "death_count")
                              /\ works' = works \cup {Report(s)}
           /\ UNCHANGED <<finder, cnt, taken, tk, hist>>
BY Zenon DEF TracepointGet

(* The report goes on, for the same struct and event, in the same probe.     *)
SameReport == /\ DOMAIN rep' = DOMAIN rep
         /\ rep'.s = rep.s /\ rep'.ev = rep.ev /\ rep'.tp = rep.tp

(* finish_callback_report() goes on with the same report. *)
LEMMA DetachControl ==
    ASSUME DetachCurrent, Locals
    PROVE  Goto("task", "cb") /\ SameReport
<1>1. PICK i : rep' = [rep EXCEPT !.det = TRUE, !.i = i]
  BY Zenon DEF DetachCurrent
<1>2. Goto("task", "cb")
  BY DEF DetachCurrent
<1> QED
  BY <1>1, <1>2 DEF Locals, SameReport

(* So does the rest of start_callback(). *)
LEMMA QuiesceControl ==
    ASSUME AfterQuiesce, Locals
    PROVE  /\ pc["task"] = "cb_after" /\ (Goto("task", "cb_ev") \/ Goto("task", "cb"))
           /\ SameReport
           /\ UNCHANGED <<finder, cnt, kernel, at, hist>>
<1>1. CASE rep' = [rep EXCEPT !.spur = FALSE] /\ Goto("task", "cb_ev")
  BY <1>1 DEF Locals, SameReport, AfterQuiesce
<1>2. CASE \E i, b : rep' = [rep EXCEPT !.i = i, !.spur = b] /\ Goto("task", "cb")
  BY <1>2 DEF Locals, SameReport, AfterQuiesce
<1> QED
  BY <1>1, <1>2, Zenon DEF AfterQuiesce

(* The report a tracepoint probe starts with. *)
LEMMA FreshReport ==
    \A e : LET r == [NoReport EXCEPT !.ev = e, !.tp = TRUE]
          IN  /\ DOMAIN r = {"s", "ev", "i", "det", "spur", "tp"}
              /\ r.ev = e /\ r.tp = TRUE
BY DEF NoReport

(* Adding a work makes the set at most one larger ... *)
LEMMA OneMore ==
    ASSUME NEW S, NEW x, IsFiniteSet(S)
    PROVE  /\ IsFiniteSet(S \cup {x})
           /\ Cardinality(S) \in Nat /\ Cardinality(S \cup {x}) \in Nat
           /\ Cardinality(S \cup {x}) <= Cardinality(S) + 1
BY FS_AddElement, FS_CardinalityType

(* ... and taking one off it makes it one smaller. *)
LEMMA OneLess ==
    ASSUME NEW S, NEW x \in S, IsFiniteSet(S)
    PROVE  /\ IsFiniteSet(S \ {x})
           /\ Cardinality(S) \in Nat /\ Cardinality(S \ {x}) \in Nat
           /\ Cardinality(S \ {x}) = Cardinality(S) - 1
BY FS_RemoveElement, FS_CardinalityType

(* utrace_cancel_all_task_work() takes one queued work back, or is done; a work that
   was about to be counted sets early. *)
LEMMA CancelControl ==
    ASSUME CancelUtraceWork
    PROVE  /\ pc["stap"] = "st_cancel" /\ UNCHANGED <<taken, tk, at, rep>>
           /\ \/ \E w \in works :
                   /\ w.kind \in {"resume", "report"} /\ works' = works \ {w}
                   /\ early \/ (pc["task"] = "fin_count" /\ w = Resume(rep.s)) => early'
                   /\ cnt' = cnt - 1 /\ UNCHANGED pc
              \/ Goto("stap", "st_inuse") /\ UNCHANGED <<works, cnt, early>>
BY Zenon DEF CancelUtraceWork

-----------------------------------------------------------------------------
(* The steps, by where they are taken.                                      *)

StapStep ==
    \/ StartFinder \/ StartTarget \/ StartDone \/ PostGet
    \/ find_matching_engine \/ Stop \/ CloseFinder \/ utrace_shutdown
    \/ Synchronize \/ CancelUtraceWork \/ WaitInuse \/ CancelTfWork
    \/ stp_task_work_exit \/ utrace_exit

ProbeStep ==
    \/ Exec \/ Exit \/ TracepointGet \/ DeathCount \/ TracepointReturn

PassStep ==
    \/ start_report \/ StartDeathReport \/ start_callback \/ QuiesceCheck
    \/ QuiesceEnter \/ QuiesceAdd \/ QuiesceCount \/ AfterQuiesce \/ EventCheck
    \/ EventEnter \/ ExecMatched \/ TargetEnd \/ finish_report
    \/ InterruptAgain \/ NotifyAgain \/ NotifyCount \/ utrace_maybe_reap
    \/ SecondPut

WorkStep ==
    \/ TakeWorks \/ (\E w \in taken : RunWork(w)) \/ WorksDone \/ Die
    \/ TfDequeue \/ TfCheck \/ TfEnter \/ TfBegin \/ CloneMatch \/ CloneDone
    \/ stp_task_work_func_done \/ Wake

(* Next is a step of one of these groups, or changes nothing.               *)
LEMMA NextSteps ==
    ASSUME Next
    PROVE  \/ \E p \in Procs : AttachStep(p)
           \/ StapStep \/ ProbeStep \/ PassStep \/ WorkStep \/ UNCHANGED vars
<1>1. ASSUME Stap PROVE AttachStep("stap") \/ StapStep
  BY <1>1, Zenon DEF Stap, StapStep
<1>2. ASSUME TaskKernel PROVE AttachStep("task") \/ ProbeStep \/ PassStep \/ WorkStep
  BY <1>2, Zenon DEF TaskKernel, ProbeStep, PassStep, WorkStep
<1>3. "stap" \in Procs /\ "task" \in Procs
  BY DEF Procs
<1> QED
  BY <1>1, <1>2, <1>3, Zenon DEF Next, Over, StapStep, ProbeStep

(* A step inside __stp_utrace_attach() or of put_utrace_struct() keeps the
   places of the processes consistent. *)
LEMMA AttachKeepsPlace ==
    ASSUME PlaceInv, NEW p \in Procs, AttachStep(p)
    PROVE  PlaceInv'
<1> USE DEF finder, kernel, others, hist, Goto, PlaceInv, CallLabels, PutLabels,
   ProbeLabels, PassLabels, TfLabels, Uncounted, StartLabels, StopLabels, CallPuts,
   Calling, TaskPlace, StapPlace, Locals, Procs, ProbeSide, InProbe, StopOrder,
   Cancelling, InuseCounts, Handling
<1>1. ASSUME PutStruct(p) PROVE PlaceInv'
  BY <1>1 DEF PutStruct
<1>2. ASSUME utrace_cleanup(p) PROVE PlaceInv'
  BY <1>2 DEF utrace_cleanup
<1>3. ASSUME AttachGet(p) PROVE PlaceInv'
  BY <1>3 DEF AttachGet, GetStruct
<1>4. ASSUME utrace_task_alloc(p) PROVE PlaceInv'
  BY <1>4, AllocControl DEF Returned, NoCall
<1>5. ASSUME utrace_add_engine(p) PROVE PlaceInv'
  <2>1. pc[p] = "att_eng" /\ UNCHANGED <<finder, cnt, kernel, rep, hist>>
    BY <1>5, AddControl
  <2>2. ASSUME NEW e, at' = [at EXCEPT ![p].e = e, ![p].found = FALSE, ![p].k = "ev_get"],
               Goto(p, IF at[p].found THEN "put" ELSE "ev_get")
        PROVE  PlaceInv'
    BY <2>1, <2>2
  <2>3. ASSUME NEW rc, at' = [at EXCEPT ![p].rc = rc, ![p].k = "att_fail"], Goto(p, "put")
        PROVE  PlaceInv'
    BY <2>1, <2>3
  <2> HIDE DEF PlaceInv, finder, hist, Goto
  <2> QED
    BY <1>5, <2>2, <2>3, AddControl, Zenon
<1>6. ASSUME AttachFailed(p) PROVE PlaceInv'
  BY <1>6 DEF AttachFailed, Returned, NoCall
<1>7. ASSUME SetEventsGet(p) PROVE PlaceInv'
  BY <1>7 DEF SetEventsGet, GetStruct
<1>8. ASSUME utrace_set_events(p) PROVE PlaceInv'
  BY <1>8 DEF utrace_set_events
<1>9. ASSUME ControlGet(p) PROVE PlaceInv'
  BY <1>9 DEF ControlGet, GetStruct
<1>10. ASSUME utrace_control(p) PROVE PlaceInv'
  BY <1>10 DEF utrace_control
<1>11. ASSUME stp_task_work_get(p) PROVE PlaceInv'
  BY <1>11 DEF stp_task_work_get
<1>12. ASSUME EnginePut(p) PROVE PlaceInv'
  BY <1>12 DEF EnginePut, Returned, NoCall
<1> HIDE DEF finder, kernel, others, hist, Goto, PlaceInv, CallLabels, PutLabels,
   ProbeLabels, PassLabels, TfLabels, Uncounted, StartLabels, StopLabels, CallPuts,
   Calling, TaskPlace, StapPlace, Locals, Procs, ProbeSide, InProbe, StopOrder,
   Cancelling, InuseCounts, Handling
<1> QED
  BY <1>1, <1>2, <1>3, <1>4, <1>5, <1>6, <1>7, <1>8, <1>9, <1>10, <1>11, <1>12, Zenon
     DEF AttachStep

(* A step of the stap thread keeps the places of the processes consistent. *)
LEMMA StapKeepsPlace ==
    ASSUME PlaceInv, StapStep
    PROVE  PlaceInv'
<1> USE DEF finder, kernel, others, hist, Goto, PlaceInv, CallLabels, PutLabels,
   ProbeLabels, PassLabels, TfLabels, Uncounted, StartLabels, StopLabels, CallPuts,
   Calling, TaskPlace, StapPlace, Locals, Procs, ProbeSide, InProbe, StopOrder,
   Cancelling, InuseCounts, Handling
<1>1. ASSUME StartFinder PROVE PlaceInv'
  BY <1>1, CallControl DEF StartFinder
<1>2. ASSUME StartTarget PROVE PlaceInv'
  BY <1>2, CallControl DEF StartTarget
<1>3. ASSUME StartDone PROVE PlaceInv'
  BY <1>3 DEF StartDone
<1>4. ASSUME PostGet PROVE PlaceInv'
  BY <1>4 DEF PostGet, GetStruct
<1>5. ASSUME find_matching_engine PROVE PlaceInv'
  <2>1. /\ pc["stap"] = "post_find" /\ Goto("stap", "put")
        /\ UNCHANGED <<finder, cnt, kernel, rep, hist>>
    BY <1>5, FindControl
  <2>2. CASE at' = [at EXCEPT !["stap"].k = "running"]
    BY <2>1, <2>2
  <2>3. ASSUME NEW s, NEW e,
               at' = [at EXCEPT !["stap"] = [NoCall EXCEPT !.s = s, !.e = e,
                                !.act = "INTERRUPT", !.k = "ctl_get", !.ret = "running"]]
        PROVE  PlaceInv'
    BY <2>1, <2>3 DEF NoCall
  <2> HIDE DEF PlaceInv, finder, hist, Goto
  <2> QED
    BY <1>5, <2>2, <2>3, FindControl, Zenon
<1>6. ASSUME Stop PROVE PlaceInv'
  BY <1>6 DEF Stop
<1>7. ASSUME CloseFinder PROVE PlaceInv'
  BY <1>7 DEF CloseFinder
<1>8. ASSUME utrace_shutdown PROVE PlaceInv'
  BY <1>8 DEF utrace_shutdown
<1>9. ASSUME Synchronize PROVE PlaceInv'
  BY <1>9 DEF Synchronize
<1>10. ASSUME CancelUtraceWork PROVE PlaceInv'
  BY <1>10 DEF CancelUtraceWork
<1>11. ASSUME WaitInuse PROVE PlaceInv'
  BY <1>11 DEF WaitInuse
<1>12. ASSUME CancelTfWork PROVE PlaceInv'
  BY <1>12 DEF CancelTfWork
<1>13. ASSUME stp_task_work_exit PROVE PlaceInv'
  BY <1>13 DEF stp_task_work_exit
<1>14. ASSUME utrace_exit PROVE PlaceInv'
  BY <1>14 DEF utrace_exit
<1> HIDE DEF finder, kernel, others, hist, Goto, PlaceInv, CallLabels, PutLabels,
   ProbeLabels, PassLabels, TfLabels, Uncounted, StartLabels, StopLabels, CallPuts,
   Calling, TaskPlace, StapPlace, Locals, Procs, ProbeSide, InProbe, StopOrder,
   Cancelling, InuseCounts, Handling
<1> QED
  BY <1>1, <1>2, <1>3, <1>4, <1>5, <1>6, <1>7, <1>8, <1>9, <1>10, <1>11, <1>12, <1>13,
     <1>14, Zenon DEF StapStep

(* A step of the task up to the end of a tracepoint probe keeps the places
   of the processes consistent. *)
LEMMA ProbeKeepsPlace ==
    ASSUME PlaceInv, ProbeStep
    PROVE  PlaceInv'
<1> USE DEF finder, kernel, others, hist, Goto, PlaceInv, CallLabels, PutLabels,
   ProbeLabels, PassLabels, TfLabels, Uncounted, StartLabels, StopLabels, CallPuts,
   Calling, TaskPlace, StapPlace, Locals, Procs, ProbeSide, InProbe, StopOrder,
   Cancelling, InuseCounts, Handling
<1>1. ASSUME Exec PROVE PlaceInv'
  BY <1>1 DEF Exec, NoReport
<1>2. ASSUME Exit PROVE PlaceInv'
  <2>1. CASE reg
    <3>1. /\ pc["task"] = "user" /\ reg /\ pc' = [pc EXCEPT !["task"] = "tp_get"]
          /\ rep' = [NoReport EXCEPT !.ev = "DEATH", !.tp = TRUE]
          /\ UNCHANGED <<finder, cnt, works, taken, at>>
      BY <1>2, <2>1 DEF Exit
    <3> QED
      BY <3>1 DEF NoReport
  <2>2. CASE ~reg
    <3>1. /\ pc["task"] = "user" /\ ~reg /\ pc' = [pc EXCEPT !["task"] = "tw"]
          /\ UNCHANGED <<finder, cnt, works, taken, at, rep>>
      BY <1>2, <2>2 DEF Exit
    <3> QED
      BY <3>1
  <2> QED
    BY <2>1, <2>2
<1>3. ASSUME TracepointGet PROVE PlaceInv'
  <2>1. /\ pc["task"] = "tp_get"
        /\ UNCHANGED <<finder, cnt, taken, tk, hist>>
    BY <1>3, TracepointControl
  <2>2. CASE Goto("task", "tp_out") /\ UNCHANGED <<works, at, rep>>
    BY <2>1, <2>2
  <2>3. ASSUME NEW s, rep' = [rep EXCEPT !.s = s],
               at' = [at EXCEPT !["task"] = [NoCall EXCEPT !.s = s, !.k = "tp_out"]],
               \/ Goto("task", "put") 
               \/ rep.ev = "EXEC" /\ Goto("task", "rep_start")
               \/ rep.ev # "EXEC" /\ Goto("task", "death_count")
        PROVE  PlaceInv'
    BY <2>1, <2>3 DEF NoCall
  <2> HIDE DEF PlaceInv, finder, hist
  <2> QED
    BY <1>3, <2>2, <2>3, TracepointControl
<1>4. ASSUME DeathCount PROVE PlaceInv'
  BY <1>4 DEF DeathCount
<1>5. ASSUME TracepointReturn PROVE PlaceInv'
  BY <1>5 DEF TracepointReturn, NoCall, NoReport
<1> HIDE DEF finder, kernel, others, hist, Goto, PlaceInv, CallLabels, PutLabels,
   ProbeLabels, PassLabels, TfLabels, Uncounted, StartLabels, StopLabels, CallPuts,
   Calling, TaskPlace, StapPlace, Locals, Procs, ProbeSide, InProbe, StopOrder,
   Cancelling, InuseCounts, Handling
<1> QED
  BY <1>1, <1>2, <1>3, <1>4, <1>5, Zenon DEF ProbeStep

(* A step of a reporting pass keeps the places of the processes consistent. *)
LEMMA PassKeepsPlace ==
    ASSUME PlaceInv, PassStep
    PROVE  PlaceInv'
<1> USE DEF finder, kernel, others, hist, Goto, PlaceInv, CallLabels, PutLabels,
   ProbeLabels, PassLabels, TfLabels, Uncounted, StartLabels, StopLabels, CallPuts,
   Calling, TaskPlace, StapPlace, Locals, Procs, ProbeSide, InProbe, StopOrder,
   Cancelling, InuseCounts, Handling
<1>1. ASSUME start_report PROVE PlaceInv'
  BY <1>1 DEF start_report
<1>2. ASSUME StartDeathReport PROVE PlaceInv'
  BY <1>2 DEF StartDeathReport
<1>3. ASSUME start_callback PROVE PlaceInv'
  BY <1>3 DEF start_callback
<1>4. ASSUME QuiesceCheck PROVE PlaceInv'
  BY <1>4, DetachControl DEF QuiesceCheck, SameReport
<1>5. ASSUME QuiesceEnter PROVE PlaceInv'
  BY <1>5 DEF QuiesceEnter, NoCall
<1>6. ASSUME QuiesceAdd PROVE PlaceInv'
  BY <1>6 DEF QuiesceAdd
<1>7. ASSUME QuiesceCount PROVE PlaceInv'
  BY <1>7 DEF QuiesceCount
<1>8. ASSUME AfterQuiesce PROVE PlaceInv'
  BY <1>8, QuiesceControl DEF SameReport
<1>9. ASSUME EventCheck PROVE PlaceInv'
  BY <1>9, DetachControl DEF EventCheck, SameReport
<1>10. ASSUME EventEnter PROVE PlaceInv'
  BY <1>10, CallControl DEF EventEnter
<1>11. ASSUME ExecMatched PROVE PlaceInv'
  BY <1>11 DEF ExecMatched
<1>12. ASSUME TargetEnd PROVE PlaceInv'
  BY <1>12, DetachControl DEF TargetEnd, SameReport
<1>13. ASSUME finish_report PROVE PlaceInv'
  BY <1>13 DEF finish_report
<1>14. ASSUME InterruptAgain PROVE PlaceInv'
  BY <1>14 DEF InterruptAgain
<1>15. ASSUME NotifyAgain PROVE PlaceInv'
  BY <1>15 DEF NotifyAgain
<1>16. ASSUME NotifyCount PROVE PlaceInv'
  BY <1>16 DEF NotifyCount
<1>17. ASSUME utrace_maybe_reap PROVE PlaceInv'
  BY <1>17 DEF utrace_maybe_reap
<1>18. ASSUME SecondPut PROVE PlaceInv'
  BY <1>18 DEF SecondPut
<1> HIDE DEF finder, kernel, others, hist, Goto, PlaceInv, CallLabels, PutLabels,
   ProbeLabels, PassLabels, TfLabels, Uncounted, StartLabels, StopLabels, CallPuts,
   Calling, TaskPlace, StapPlace, Locals, Procs, ProbeSide, InProbe, StopOrder,
   Cancelling, InuseCounts, Handling
<1> QED
  BY <1>1, <1>2, <1>3, <1>4, <1>5, <1>6, <1>7, <1>8, <1>9, <1>10, <1>11, <1>12, <1>13,
     <1>14, <1>15, <1>16, <1>17, <1>18, Zenon DEF PassStep

(* A step of the task around its task works keeps the places of the
   processes consistent. *)
LEMMA WorkKeepsPlace ==
    ASSUME PlaceInv, WorkStep
    PROVE  PlaceInv'
<1> USE DEF finder, kernel, others, hist, Goto, PlaceInv, CallLabels, PutLabels,
   ProbeLabels, PassLabels, TfLabels, Uncounted, StartLabels, StopLabels, CallPuts,
   Calling, TaskPlace, StapPlace, Locals, Procs, ProbeSide, InProbe, StopOrder,
   Cancelling, InuseCounts, Handling
<1>1. ASSUME TakeWorks PROVE PlaceInv'
  BY <1>1 DEF TakeWorks
<1>2. ASSUME NEW w \in taken, RunWork(w) PROVE PlaceInv'
  BY <1>2 DEF RunWork, NoCall, NoReport
<1>3. ASSUME WorksDone PROVE PlaceInv'
  BY <1>3 DEF WorksDone
<1>4. ASSUME Die PROVE PlaceInv'
  BY <1>4 DEF Die
<1>5. ASSUME TfDequeue PROVE PlaceInv'
  BY <1>5 DEF TfDequeue
<1>6. ASSUME TfCheck PROVE PlaceInv'
  BY <1>6 DEF TfCheck
<1>7. ASSUME TfEnter PROVE PlaceInv'
  BY <1>7, CallControl DEF TfEnter
<1>8. ASSUME TfBegin PROVE PlaceInv'
  BY <1>8 DEF TfBegin
<1>9. ASSUME CloneMatch PROVE PlaceInv'
  BY <1>9, CallControl DEF CloneMatch
<1>10. ASSUME CloneDone PROVE PlaceInv'
  BY <1>10 DEF CloneDone
<1>11. ASSUME stp_task_work_func_done PROVE PlaceInv'
  BY <1>11 DEF stp_task_work_func_done, NoCall, NoReport
<1>12. ASSUME Wake PROVE PlaceInv'
  BY <1>12 DEF Wake
<1> HIDE DEF finder, kernel, others, hist, Goto, PlaceInv, CallLabels, PutLabels,
   ProbeLabels, PassLabels, TfLabels, Uncounted, StartLabels, StopLabels, CallPuts,
   Calling, TaskPlace, StapPlace, Locals, Procs, ProbeSide, InProbe, StopOrder,
   Cancelling, InuseCounts, Handling
<1> QED
  BY <1>1, <1>2, <1>3, <1>4, <1>5, <1>6, <1>7, <1>8, <1>9, <1>10, <1>11, <1>12, Zenon
     DEF WorkStep

(* A step inside __stp_utrace_attach() or of put_utrace_struct() keeps every
   work counted. *)
LEMMA AttachKeepsCounted ==
    ASSUME PlaceInv, CountInv, NEW p \in Procs, AttachStep(p)
    PROVE  WorksCounted'
<1> USE DEF finder, kernel, others, hist, Goto, PlaceInv, CountInv, WorksCounted,
   InWork, Counting, ProbeSide, InProbe, CallLabels, PutLabels, ProbeLabels, PassLabels,
   TfLabels, Uncounted, StartLabels, StopLabels, CallPuts, Calling, TaskPlace, StapPlace,
   Locals, Procs
<1>0. Cardinality(works) \in Nat /\ Cardinality(taken) \in Nat
  BY FS_CardinalityType
<1>1. ASSUME PutStruct(p) PROVE WorksCounted'
  BY <1>1 DEF PutStruct
<1>2. ASSUME utrace_cleanup(p) PROVE WorksCounted'
  BY <1>2 DEF utrace_cleanup
<1>3. ASSUME AttachGet(p) PROVE WorksCounted'
  BY <1>3 DEF AttachGet, GetStruct
<1>4. ASSUME utrace_task_alloc(p) PROVE WorksCounted'
  BY <1>4, AllocControl DEF Returned, NoCall
<1>5. ASSUME utrace_add_engine(p) PROVE WorksCounted'
  <2>1. pc[p] = "att_eng" /\ UNCHANGED <<finder, cnt, kernel, rep, hist>>
    BY <1>5, AddControl
  <2>2. ASSUME NEW e, at' = [at EXCEPT ![p].e = e, ![p].found = FALSE, ![p].k = "ev_get"],
               Goto(p, IF at[p].found THEN "put" ELSE "ev_get")
        PROVE  WorksCounted'
    BY <2>1, <2>2
  <2>3. ASSUME NEW rc, at' = [at EXCEPT ![p].rc = rc, ![p].k = "att_fail"], Goto(p, "put")
        PROVE  WorksCounted'
    BY <2>1, <2>3
  <2> HIDE DEF WorksCounted, finder, hist, Goto
  <2> QED
    BY <1>5, <2>2, <2>3, AddControl, Zenon
<1>6. ASSUME AttachFailed(p) PROVE WorksCounted'
  BY <1>6 DEF AttachFailed, Returned, NoCall
<1>7. ASSUME SetEventsGet(p) PROVE WorksCounted'
  BY <1>7 DEF SetEventsGet, GetStruct
<1>8. ASSUME utrace_set_events(p) PROVE WorksCounted'
  BY <1>8 DEF utrace_set_events
<1>9. ASSUME ControlGet(p) PROVE WorksCounted'
  BY <1>9 DEF ControlGet, GetStruct
<1>10. ASSUME utrace_control(p) PROVE WorksCounted'
  <2>1. pc[p] = "ctl_lock" /\ UNCHANGED <<taken, cnt, rep>>
    BY <1>10, Zenon DEF utrace_control
  <2>2. CASE UNCHANGED works /\ (Goto(p, "put") \/ Goto(p, "oops"))
    BY <1>0, <2>1, <2>2
  <2>3. CASE Goto(p, "ctl_count") /\ works' = works \cup {Resume(at[p].s)}
    <3>1. /\ IsFiniteSet(works') /\ Cardinality(works') \in Nat
          /\ Cardinality(works') <= Cardinality(works) + 1
      BY <2>3, OneMore
    <3> QED
      BY <1>0, <2>1, <2>3, <3>1
  <2> HIDE DEF WorksCounted, Goto
  <2> QED
    BY <1>10, <2>2, <2>3, Zenon DEF utrace_control
<1>11. ASSUME stp_task_work_get(p) PROVE WorksCounted'
  BY <1>0, <1>11 DEF stp_task_work_get
<1>12. ASSUME EnginePut(p) PROVE WorksCounted'
  BY <1>12 DEF EnginePut, Returned, NoCall
<1> HIDE DEF finder, kernel, others, hist, Goto, PlaceInv, CountInv, WorksCounted,
   InWork, Counting, ProbeSide, InProbe, CallLabels, PutLabels, ProbeLabels, PassLabels,
   TfLabels, Uncounted, StartLabels, StopLabels, CallPuts, Calling, TaskPlace, StapPlace,
   Locals, Procs
<1> QED
  BY <1>1, <1>2, <1>3, <1>4, <1>5, <1>6, <1>7, <1>8, <1>9, <1>10, <1>11, <1>12, Zenon
     DEF AttachStep

(* A step of the stap thread keeps every work counted. *)
LEMMA StapKeepsCounted ==
    ASSUME PlaceInv, CountInv, StapStep
    PROVE  WorksCounted'
<1> USE DEF finder, kernel, others, hist, Goto, PlaceInv, CountInv, WorksCounted,
   InWork, Counting, ProbeSide, InProbe, CallLabels, PutLabels, ProbeLabels, PassLabels,
   TfLabels, Uncounted, StartLabels, StopLabels, CallPuts, Calling, TaskPlace, StapPlace,
   Locals, Procs
<1>0. Cardinality(works) \in Nat /\ Cardinality(taken) \in Nat
  BY FS_CardinalityType
<1>1. ASSUME StartFinder PROVE WorksCounted'
  BY <1>1, CallControl DEF StartFinder
<1>2. ASSUME StartTarget PROVE WorksCounted'
  BY <1>2, CallControl DEF StartTarget
<1>3. ASSUME StartDone PROVE WorksCounted'
  BY <1>3 DEF StartDone
<1>4. ASSUME PostGet PROVE WorksCounted'
  BY <1>4 DEF PostGet, GetStruct
<1>5. ASSUME find_matching_engine PROVE WorksCounted'
  <2>1. /\ pc["stap"] = "post_find" /\ Goto("stap", "put")
        /\ UNCHANGED <<cnt, works, taken, rep, early>>
    BY <1>5, FindControl
  <2>2. at'["task"] = at["task"]
    BY <1>5, FindControl
  <2> QED
    BY <2>1, <2>2
<1>6. ASSUME Stop PROVE WorksCounted'
  BY <1>6 DEF Stop
<1>7. ASSUME CloseFinder PROVE WorksCounted'
  BY <1>7 DEF CloseFinder
<1>8. ASSUME utrace_shutdown PROVE WorksCounted'
  BY <1>8 DEF utrace_shutdown
<1>9. ASSUME Synchronize PROVE WorksCounted'
  BY <1>9 DEF Synchronize
<1>10. ASSUME CancelUtraceWork PROVE WorksCounted'
  <2>1. CASE \E w \in works : works' = works \ {w} /\ cnt' = cnt - 1 /\ UNCHANGED pc
    <3>1. PICK w \in works : works' = works \ {w}
      BY <2>1
    <3>2. IsFiniteSet(works') /\ Cardinality(works') = Cardinality(works) - 1
      BY <3>1, OneLess
    <3>3. UNCHANGED <<taken, rep>>
      BY <1>10, Zenon DEF CancelUtraceWork
    <3> QED
      BY <1>0, <2>1, <3>2, <3>3
  <2>2. CASE UNCHANGED <<works, cnt>> /\ Goto("stap", "st_inuse")
    BY <1>0, <1>10, <2>2 DEF CancelUtraceWork
  <2> QED
    BY <1>10, <2>1, <2>2, Zenon DEF CancelUtraceWork
<1>11. ASSUME WaitInuse PROVE WorksCounted'
  BY <1>11 DEF WaitInuse
<1>12. ASSUME CancelTfWork PROVE WorksCounted'
  <2>1. CASE \E w \in works : works' = works \ {w} /\ cnt' = cnt - 1 /\ UNCHANGED pc
    <3>1. PICK w \in works : works' = works \ {w}
      BY <2>1
    <3>2. IsFiniteSet(works') /\ Cardinality(works') = Cardinality(works) - 1
      BY <3>1, OneLess
    <3>3. UNCHANGED <<taken, rep>>
      BY <1>12, Zenon DEF CancelTfWork
    <3> QED
      BY <1>0, <2>1, <3>2, <3>3
  <2>2. CASE UNCHANGED <<works, cnt>> /\ Goto("stap", "st_wait")
    BY <1>0, <1>12, <2>2 DEF CancelTfWork
  <2> QED
    BY <1>12, <2>1, <2>2, Zenon DEF CancelTfWork
<1>13. ASSUME stp_task_work_exit PROVE WorksCounted'
  BY <1>13 DEF stp_task_work_exit
<1>14. ASSUME utrace_exit PROVE WorksCounted'
  BY <1>14 DEF utrace_exit
<1> HIDE DEF finder, kernel, others, hist, Goto, PlaceInv, CountInv, WorksCounted,
   InWork, Counting, ProbeSide, InProbe, CallLabels, PutLabels, ProbeLabels, PassLabels,
   TfLabels, Uncounted, StartLabels, StopLabels, CallPuts, Calling, TaskPlace, StapPlace,
   Locals, Procs
<1> QED
  BY <1>1, <1>2, <1>3, <1>4, <1>5, <1>6, <1>7, <1>8, <1>9, <1>10, <1>11, <1>12, <1>13,
     <1>14, Zenon DEF StapStep

(* A step of the task up to the end of a tracepoint probe keeps every work
   counted. *)
LEMMA ProbeKeepsCounted ==
    ASSUME PlaceInv, CountInv, ProbeStep
    PROVE  WorksCounted'
<1> USE DEF finder, kernel, others, hist, Goto, PlaceInv, CountInv, WorksCounted,
   InWork, Counting, ProbeSide, InProbe, CallLabels, PutLabels, ProbeLabels, PassLabels,
   TfLabels, Uncounted, StartLabels, StopLabels, CallPuts, Calling, TaskPlace, StapPlace,
   Locals, Procs
<1>0. Cardinality(works) \in Nat /\ Cardinality(taken) \in Nat
  BY FS_CardinalityType
<1>1. ASSUME Exec PROVE WorksCounted'
  BY <1>1 DEF Exec, NoReport
<1>2. ASSUME Exit PROVE WorksCounted'
  <2>1. CASE reg
    <3>1. /\ pc["task"] = "user" /\ reg /\ pc' = [pc EXCEPT !["task"] = "tp_get"]
          /\ rep' = [NoReport EXCEPT !.ev = "DEATH", !.tp = TRUE]
          /\ UNCHANGED <<finder, cnt, works, taken, at, hist>>
      BY <1>2, <2>1 DEF Exit
    <3> QED
      BY <3>1 DEF NoReport
  <2>2. CASE ~reg
    <3>1. /\ pc["task"] = "user" /\ ~reg /\ pc' = [pc EXCEPT !["task"] = "tw"]
          /\ UNCHANGED <<finder, cnt, works, taken, at, rep, hist>>
      BY <1>2, <2>2 DEF Exit
    <3> QED
      BY <3>1
  <2> QED
    BY <2>1, <2>2
<1>3. ASSUME TracepointGet PROVE WorksCounted'
  <2>1. /\ pc["task"] = "tp_get"
        /\ UNCHANGED <<finder, cnt, taken, tk, hist>>
    BY <1>3, TracepointControl
  <2>2. CASE UNCHANGED <<works, rep>> /\ Goto("task", "tp_out")
    BY <1>0, <2>1, <2>2
  <2>3. ASSUME NEW s, rep' = [rep EXCEPT !.s = s],
               \/ Goto("task", "put") /\ UNCHANGED works
               \/ Goto("task", "rep_start") /\ UNCHANGED works
               \/ Goto("task", "death_count") /\ works' = works \cup {Report(s)}
        PROVE  WorksCounted'
    <3>1. rep'.tp = rep.tp
      BY <2>3
    <3>2. CASE (Goto("task", "put") \/ Goto("task", "rep_start")) /\ UNCHANGED works
      BY <1>0, <2>1, <3>1, <3>2
    <3>3. CASE Goto("task", "death_count") /\ works' = works \cup {Report(s)}
      <4>1. /\ IsFiniteSet(works') /\ Cardinality(works') \in Nat
            /\ Cardinality(works') <= Cardinality(works) + 1
        BY <3>3, OneMore
      <4> QED
        BY <1>0, <2>1, <3>1, <3>3, <4>1
    <3> QED
      BY <2>3, <3>2, <3>3
  <2> HIDE DEF WorksCounted, finder, hist, Goto
  <2> QED
    BY <1>3, <2>2, <2>3, TracepointControl, Zenon
<1>4. ASSUME DeathCount PROVE WorksCounted'
  BY <1>0, <1>4 DEF DeathCount
<1>5. ASSUME TracepointReturn PROVE WorksCounted'
  BY <1>5 DEF TracepointReturn, NoCall, NoReport
<1> HIDE DEF finder, kernel, others, hist, Goto, PlaceInv, CountInv, WorksCounted,
   InWork, Counting, ProbeSide, InProbe, CallLabels, PutLabels, ProbeLabels, PassLabels,
   TfLabels, Uncounted, StartLabels, StopLabels, CallPuts, Calling, TaskPlace, StapPlace,
   Locals, Procs
<1> QED
  BY <1>1, <1>2, <1>3, <1>4, <1>5, Zenon DEF ProbeStep

(* A step of a reporting pass keeps every work counted. *)
LEMMA PassKeepsCounted ==
    ASSUME PlaceInv, CountInv, PassStep
    PROVE  WorksCounted'
<1> USE DEF finder, kernel, others, hist, Goto, PlaceInv, CountInv, WorksCounted,
   InWork, Counting, ProbeSide, InProbe, CallLabels, PutLabels, ProbeLabels, PassLabels,
   TfLabels, Uncounted, StartLabels, StopLabels, CallPuts, Calling, TaskPlace, StapPlace,
   Locals, Procs
<1>0. Cardinality(works) \in Nat /\ Cardinality(taken) \in Nat
  BY FS_CardinalityType
<1>1. ASSUME start_report PROVE WorksCounted'
  BY <1>1 DEF start_report
<1>2. ASSUME StartDeathReport PROVE WorksCounted'
  BY <1>2 DEF StartDeathReport
<1>3. ASSUME start_callback PROVE WorksCounted'
  <2>1. /\ pc["task"] = "cb" /\ UNCHANGED <<works, taken, cnt>>
        /\ \/ Goto("task", "reap") \/ Goto("task", "fin") \/ Goto("task", "cb_q")
           \/ Goto("task", "cb_ev") \/ Goto("task", "cb")
    BY <1>3 DEF start_callback
  <2>2. \/ rep' = rep \/ rep' = [rep EXCEPT !.spur = FALSE]
        \/ \E i : rep' = [rep EXCEPT !.i = i]
    BY <1>3, Zenon DEF start_callback
  <2>3. rep'.tp = rep.tp
    BY <2>2
  <2> QED
    BY <1>0, <2>1, <2>3
<1>4. ASSUME QuiesceCheck PROVE WorksCounted'
  BY <1>4, DetachControl DEF QuiesceCheck, SameReport
<1>5. ASSUME QuiesceEnter PROVE WorksCounted'
  BY <1>5 DEF QuiesceEnter, NoCall
<1>6. ASSUME QuiesceAdd PROVE WorksCounted'
  <2>1. CASE Goto("task", "q_count") /\ works' = works \cup {TfWork(Current)}
    <3>1. pc["task"] = "q_add" /\ UNCHANGED <<taken, cnt, rep>>
      BY <1>6 DEF QuiesceAdd
    <3>2. /\ IsFiniteSet(works') /\ Cardinality(works') \in Nat
          /\ Cardinality(works') <= Cardinality(works) + 1
      BY <2>1, OneMore
    <3> QED
      BY <1>0, <3>1, <2>1, <3>2
  <2>2. CASE Goto("task", "cb_after") /\ UNCHANGED works
    <3>1. pc["task"] = "q_add" /\ UNCHANGED <<taken, cnt, rep>>
      BY <1>6 DEF QuiesceAdd
    <3> QED
      BY <1>0, <3>1, <2>2
  <2> QED
    BY <1>6, <2>1, <2>2, Zenon DEF QuiesceAdd
<1>7. ASSUME QuiesceCount PROVE WorksCounted'
  BY <1>0, <1>7 DEF QuiesceCount
<1>8. ASSUME AfterQuiesce PROVE WorksCounted'
  BY <1>8, QuiesceControl DEF SameReport
<1>9. ASSUME EventCheck PROVE WorksCounted'
  BY <1>9, DetachControl DEF EventCheck, SameReport
<1>10. ASSUME EventEnter PROVE WorksCounted'
  BY <1>10, CallControl DEF EventEnter
<1>11. ASSUME ExecMatched PROVE WorksCounted'
  BY <1>11 DEF ExecMatched
<1>12. ASSUME TargetEnd PROVE WorksCounted'
  BY <1>12, DetachControl DEF TargetEnd, SameReport
<1>13. ASSUME finish_report PROVE WorksCounted'
  BY <1>13 DEF finish_report
<1>14. ASSUME InterruptAgain PROVE WorksCounted'
  BY <1>14 DEF InterruptAgain
<1>15. ASSUME NotifyAgain PROVE WorksCounted'
  <2>1. CASE Goto("task", "put") /\ UNCHANGED works
    BY <1>0, <1>15, <2>1 DEF NotifyAgain
  <2>2. CASE Goto("task", "fin_count") /\ works' = works \cup {Resume(rep.s)}
    <3>1. pc["task"] = "notify" /\ UNCHANGED <<taken, cnt, rep>>
      BY <1>15 DEF NotifyAgain
    <3>2. /\ IsFiniteSet(works') /\ Cardinality(works') \in Nat
          /\ Cardinality(works') <= Cardinality(works) + 1
      BY <2>2, OneMore
    <3> QED
      BY <1>0, <3>1, <2>2, <3>2
  <2> QED
    BY <1>15, <2>1, <2>2 DEF NotifyAgain
<1>16. ASSUME NotifyCount PROVE WorksCounted'
  BY <1>0, <1>16 DEF NotifyCount
<1>17. ASSUME utrace_maybe_reap PROVE WorksCounted'
  BY <1>17 DEF utrace_maybe_reap
<1>18. ASSUME SecondPut PROVE WorksCounted'
  BY <1>18 DEF SecondPut
<1> HIDE DEF finder, kernel, others, hist, Goto, PlaceInv, CountInv, WorksCounted,
   InWork, Counting, ProbeSide, InProbe, CallLabels, PutLabels, ProbeLabels, PassLabels,
   TfLabels, Uncounted, StartLabels, StopLabels, CallPuts, Calling, TaskPlace, StapPlace,
   Locals, Procs
<1> QED
  BY <1>1, <1>2, <1>3, <1>4, <1>5, <1>6, <1>7, <1>8, <1>9, <1>10, <1>11, <1>12, <1>13,
     <1>14, <1>15, <1>16, <1>17, <1>18, Zenon DEF PassStep

(* A step of the task around its task works keeps every work counted. *)
LEMMA WorkKeepsCounted ==
    ASSUME PlaceInv, CountInv, WorkStep
    PROVE  WorksCounted'
<1> USE DEF finder, kernel, others, hist, Goto, PlaceInv, CountInv, WorksCounted,
   InWork, Counting, ProbeSide, InProbe, CallLabels, PutLabels, ProbeLabels, PassLabels,
   TfLabels, Uncounted, StartLabels, StopLabels, CallPuts, Calling, TaskPlace, StapPlace,
   Locals, Procs
<1>0. Cardinality(works) \in Nat /\ Cardinality(taken) \in Nat
  BY FS_CardinalityType
<1>1. ASSUME TakeWorks PROVE WorksCounted'
  <2>1. Cardinality({}) = 0 /\ IsFiniteSet({})
    BY FS_EmptySet
  <2> QED
    BY <1>0, <1>1, <2>1 DEF TakeWorks
<1>2. ASSUME NEW w \in taken, RunWork(w) PROVE WorksCounted'
  <2>1. /\ pc["task"] = "tw" /\ taken' = taken \ {w} /\ UNCHANGED <<works, cnt>>
        /\ \/ Goto("task", "put") \/ Goto("task", "rep_start")
           \/ Goto("task", "rw_lock") \/ Goto("task", "tf")
    BY <1>2 DEF RunWork
  <2>2. /\ IsFiniteSet(taken \ {w}) /\ Cardinality(taken \ {w}) \in Nat
        /\ Cardinality(taken \ {w}) = Cardinality(taken) - 1
    BY <1>2, OneLess
  <2>3. /\ ~InWork /\ pc["task"] \notin Counting /\ pc'["task"] \notin Counting
        /\ pc'["stap"] = pc["stap"]
    BY <2>1
  <2> HIDE DEF PlaceInv, InWork, Counting, Goto
  <2> QED
    BY <1>0, <2>1, <2>2, <2>3
<1>3. ASSUME WorksDone PROVE WorksCounted'
  BY <1>3 DEF WorksDone
<1>4. ASSUME Die PROVE WorksCounted'
  BY <1>4 DEF Die
<1>5. ASSUME TfDequeue PROVE WorksCounted'
  BY <1>5 DEF TfDequeue
<1>6. ASSUME TfCheck PROVE WorksCounted'
  BY <1>6 DEF TfCheck
<1>7. ASSUME TfEnter PROVE WorksCounted'
  BY <1>7, CallControl DEF TfEnter
<1>8. ASSUME TfBegin PROVE WorksCounted'
  BY <1>8 DEF TfBegin
<1>9. ASSUME CloneMatch PROVE WorksCounted'
  BY <1>9, CallControl DEF CloneMatch
<1>10. ASSUME CloneDone PROVE WorksCounted'
  BY <1>10 DEF CloneDone
<1>11. ASSUME stp_task_work_func_done PROVE WorksCounted'
  <2>1. /\ pc["task"] = "w_done" /\ UNCHANGED <<works, taken>> /\ cnt' = cnt - 1
        /\ \/ Goto("task", "w_wake") \/ Goto("task", "tw")
    BY <1>11 DEF stp_task_work_func_done
  <2> QED
    BY <1>0, <2>1
<1>12. ASSUME Wake PROVE WorksCounted'
  BY <1>12 DEF Wake
<1> HIDE DEF finder, kernel, others, hist, Goto, PlaceInv, CountInv, WorksCounted,
   InWork, Counting, ProbeSide, InProbe, CallLabels, PutLabels, ProbeLabels, PassLabels,
   TfLabels, Uncounted, StartLabels, StopLabels, CallPuts, Calling, TaskPlace, StapPlace,
   Locals, Procs
<1> QED
  BY <1>1, <1>2, <1>3, <1>4, <1>5, <1>6, <1>7, <1>8, <1>9, <1>10, <1>11, <1>12, Zenon
     DEF WorkStep

(* A step inside __stp_utrace_attach() or of put_utrace_struct() keeps a
   work that is added and not counted queued. *)
LEMMA AttachKeepsAdded ==
    ASSUME PlaceInv, CountInv, NEW p \in Procs, AttachStep(p)
    PROVE  WorkAdded'
<1> USE DEF finder, kernel, others, hist, Goto, PlaceInv, CountInv, WorkAdded,
   InuseCounts, Handling, Resume, Report, TfWork, CallLabels, PutLabels, ProbeLabels,
   PassLabels, TfLabels, Uncounted, StartLabels, StopLabels, CallPuts, Calling, TaskPlace,
   StapPlace, Locals, Procs
<1>1. ASSUME PutStruct(p) PROVE WorkAdded'
  BY <1>1 DEF PutStruct
<1>2. ASSUME utrace_cleanup(p) PROVE WorkAdded'
  BY <1>2 DEF utrace_cleanup
<1>3. ASSUME AttachGet(p) PROVE WorkAdded'
  BY <1>3 DEF AttachGet, GetStruct
<1>4. ASSUME utrace_task_alloc(p) PROVE WorkAdded'
  BY <1>4, AllocControl DEF Returned, NoCall
<1>5. ASSUME utrace_add_engine(p) PROVE WorkAdded'
  <2>1. pc[p] = "att_eng" /\ UNCHANGED <<finder, cnt, kernel, rep, hist>>
    BY <1>5, AddControl
  <2>2. ASSUME NEW e, at' = [at EXCEPT ![p].e = e, ![p].found = FALSE, ![p].k = "ev_get"],
               Goto(p, IF at[p].found THEN "put" ELSE "ev_get")
        PROVE  WorkAdded'
    BY <2>1, <2>2
  <2>3. ASSUME NEW rc, at' = [at EXCEPT ![p].rc = rc, ![p].k = "att_fail"], Goto(p, "put")
        PROVE  WorkAdded'
    BY <2>1, <2>3
  <2> HIDE DEF WorkAdded, finder, hist, Goto
  <2> QED
    BY <1>5, <2>2, <2>3, AddControl, Zenon
<1>6. ASSUME AttachFailed(p) PROVE WorkAdded'
  BY <1>6 DEF AttachFailed, Returned, NoCall
<1>7. ASSUME SetEventsGet(p) PROVE WorkAdded'
  BY <1>7 DEF SetEventsGet, GetStruct
<1>8. ASSUME utrace_set_events(p) PROVE WorkAdded'
  BY <1>8 DEF utrace_set_events
<1>9. ASSUME ControlGet(p) PROVE WorkAdded'
  BY <1>9 DEF ControlGet, GetStruct
<1>10. ASSUME utrace_control(p) PROVE WorkAdded'
  BY <1>10 DEF utrace_control
<1>11. ASSUME stp_task_work_get(p) PROVE WorkAdded'
  BY <1>11 DEF stp_task_work_get
<1>12. ASSUME EnginePut(p) PROVE WorkAdded'
  BY <1>12 DEF EnginePut, Returned, NoCall
<1> HIDE DEF finder, kernel, others, hist, Goto, PlaceInv, CountInv, WorkAdded,
   InuseCounts, Handling, Resume, Report, TfWork, CallLabels, PutLabels, ProbeLabels,
   PassLabels, TfLabels, Uncounted, StartLabels, StopLabels, CallPuts, Calling, TaskPlace,
   StapPlace, Locals, Procs
<1> QED
  BY <1>1, <1>2, <1>3, <1>4, <1>5, <1>6, <1>7, <1>8, <1>9, <1>10, <1>11, <1>12, Zenon
     DEF AttachStep

(* A step of the stap thread keeps a work that is added and not counted
   queued. *)
LEMMA StapKeepsAdded ==
    ASSUME PlaceInv, CountInv, StapStep
    PROVE  WorkAdded'
<1> USE DEF finder, kernel, others, hist, Goto, PlaceInv, CountInv, WorkAdded,
   InuseCounts, Handling, Resume, Report, TfWork, CallLabels, PutLabels, ProbeLabels,
   PassLabels, TfLabels, Uncounted, StartLabels, StopLabels, CallPuts, Calling, TaskPlace,
   StapPlace, Locals, Procs
<1>1. ASSUME StartFinder PROVE WorkAdded'
  BY <1>1, CallControl DEF StartFinder
<1>2. ASSUME StartTarget PROVE WorkAdded'
  BY <1>2, CallControl DEF StartTarget
<1>3. ASSUME StartDone PROVE WorkAdded'
  BY <1>3 DEF StartDone
<1>4. ASSUME PostGet PROVE WorkAdded'
  BY <1>4 DEF PostGet, GetStruct
<1>5. ASSUME find_matching_engine PROVE WorkAdded'
  <2>1. /\ pc["stap"] = "post_find" /\ Goto("stap", "put")
        /\ UNCHANGED <<cnt, works, taken, rep, early>>
    BY <1>5, FindControl
  <2>2. at'["task"] = at["task"]
    BY <1>5, FindControl
  <2> QED
    BY <2>1, <2>2
<1>6. ASSUME Stop PROVE WorkAdded'
  BY <1>6 DEF Stop
<1>7. ASSUME CloseFinder PROVE WorkAdded'
  BY <1>7 DEF CloseFinder
<1>8. ASSUME utrace_shutdown PROVE WorkAdded'
  BY <1>8 DEF utrace_shutdown
<1>9. ASSUME Synchronize PROVE WorkAdded'
  BY <1>9 DEF Synchronize
<1>10. ASSUME CancelUtraceWork PROVE WorkAdded'
  <2>1. pc["stap"] = "st_cancel" /\ UNCHANGED <<at, rep>>
    BY <1>10, Zenon DEF CancelUtraceWork
  <2>2. ASSUME NEW w \in works, w.kind \in {"resume", "report"}, works' = works \ {w}, UNCHANGED pc,
               early \/ (pc["task"] = "fin_count" /\ w = Resume(rep.s)) => early'
        PROVE  WorkAdded'
    BY <2>1, <2>2
  <2>3. CASE Goto("stap", "st_inuse") /\ UNCHANGED <<works, early>>
    BY <2>1, <2>3
  <2> HIDE DEF WorkAdded, Goto, Resume, Procs, Locals, TaskPlace, StapPlace, ProbeSide, InuseCounts
  <2> QED
    BY <1>10, <2>2, <2>3, CancelControl, Zenon
<1>11. ASSUME WaitInuse PROVE WorkAdded'
  BY <1>11 DEF WaitInuse
<1>12. ASSUME CancelTfWork PROVE WorkAdded'
  <2>1. pc["stap"] = "st_tfc" /\ pc["task"] # "q_count" /\ UNCHANGED <<at, rep, early>>
    BY <1>12, Zenon DEF CancelTfWork, hist
  <2>2. ASSUME NEW w \in works, w.kind = "tf", works' = works \ {w}, UNCHANGED pc
        PROVE  WorkAdded'
    BY <2>1, <2>2
  <2>3. CASE Goto("stap", "st_wait") /\ UNCHANGED works
    BY <2>1, <2>3
  <2> HIDE DEF WorkAdded, Goto
  <2> QED
    BY <1>12, <2>2, <2>3, Zenon DEF CancelTfWork
<1>13. ASSUME stp_task_work_exit PROVE WorkAdded'
  BY <1>13 DEF stp_task_work_exit
<1>14. ASSUME utrace_exit PROVE WorkAdded'
  BY <1>14 DEF utrace_exit
<1> HIDE DEF finder, kernel, others, hist, Goto, PlaceInv, CountInv, WorkAdded,
   InuseCounts, Handling, Resume, Report, TfWork, CallLabels, PutLabels, ProbeLabels,
   PassLabels, TfLabels, Uncounted, StartLabels, StopLabels, CallPuts, Calling, TaskPlace,
   StapPlace, Locals, Procs
<1> QED
  BY <1>1, <1>2, <1>3, <1>4, <1>5, <1>6, <1>7, <1>8, <1>9, <1>10, <1>11, <1>12, <1>13,
     <1>14, Zenon DEF StapStep

(* A step of the task up to the end of a tracepoint probe keeps a work that
   is added and not counted queued. *)
LEMMA ProbeKeepsAdded ==
    ASSUME PlaceInv, CountInv, ProbeStep
    PROVE  WorkAdded'
<1> USE DEF finder, kernel, others, hist, Goto, PlaceInv, CountInv, WorkAdded,
   InuseCounts, Handling, Resume, Report, TfWork, CallLabels, PutLabels, ProbeLabels,
   PassLabels, TfLabels, Uncounted, StartLabels, StopLabels, CallPuts, Calling, TaskPlace,
   StapPlace, Locals, Procs
<1>1. ASSUME Exec PROVE WorkAdded'
  BY <1>1 DEF Exec, NoReport
<1>2. ASSUME Exit PROVE WorkAdded'
  <2>1. CASE reg
    <3>1. /\ pc["task"] = "user" /\ reg /\ pc' = [pc EXCEPT !["task"] = "tp_get"]
          /\ rep' = [NoReport EXCEPT !.ev = "DEATH", !.tp = TRUE]
          /\ UNCHANGED <<finder, cnt, works, taken, at, hist>>
      BY <1>2, <2>1 DEF Exit
    <3> QED
      BY <3>1 DEF NoReport
  <2>2. CASE ~reg
    <3>1. /\ pc["task"] = "user" /\ ~reg /\ pc' = [pc EXCEPT !["task"] = "tw"]
          /\ UNCHANGED <<finder, cnt, works, taken, at, rep, hist>>
      BY <1>2, <2>2 DEF Exit
    <3> QED
      BY <3>1
  <2> QED
    BY <2>1, <2>2
<1>3. ASSUME TracepointGet PROVE WorkAdded'
  <2>1. /\ pc["task"] = "tp_get"
        /\ UNCHANGED <<finder, cnt, taken, tk, hist>>
    BY <1>3, TracepointControl
  <2>2. CASE Goto("task", "tp_out") /\ UNCHANGED <<works, at, rep>>
    BY <2>1, <2>2
  <2>3. ASSUME NEW s, rep' = [rep EXCEPT !.s = s],
               at' = [at EXCEPT !["task"] = [NoCall EXCEPT !.s = s, !.k = "tp_out"]],
               \/ Goto("task", "put") 
               \/ rep.ev = "EXEC" /\ Goto("task", "rep_start")
               \/ rep.ev # "EXEC" /\ Goto("task", "death_count")
        PROVE  WorkAdded'
    BY <2>1, <2>3 DEF NoCall
  <2> HIDE DEF WorkAdded, finder, hist
  <2> QED
    BY <1>3, <2>2, <2>3, TracepointControl
<1>4. ASSUME DeathCount PROVE WorkAdded'
  BY <1>4 DEF DeathCount
<1>5. ASSUME TracepointReturn PROVE WorkAdded'
  BY <1>5 DEF TracepointReturn, NoCall, NoReport
<1> HIDE DEF finder, kernel, others, hist, Goto, PlaceInv, CountInv, WorkAdded,
   InuseCounts, Handling, Resume, Report, TfWork, CallLabels, PutLabels, ProbeLabels,
   PassLabels, TfLabels, Uncounted, StartLabels, StopLabels, CallPuts, Calling, TaskPlace,
   StapPlace, Locals, Procs
<1> QED
  BY <1>1, <1>2, <1>3, <1>4, <1>5, Zenon DEF ProbeStep

(* A step of a reporting pass keeps a work that is added and not counted
   queued. *)
LEMMA PassKeepsAdded ==
    ASSUME PlaceInv, CountInv, PassStep
    PROVE  WorkAdded'
<1> USE DEF finder, kernel, others, hist, Goto, PlaceInv, CountInv, WorkAdded,
   InuseCounts, Handling, Resume, Report, TfWork, CallLabels, PutLabels, ProbeLabels,
   PassLabels, TfLabels, Uncounted, StartLabels, StopLabels, CallPuts, Calling, TaskPlace,
   StapPlace, Locals, Procs
<1>1. ASSUME start_report PROVE WorkAdded'
  BY <1>1 DEF start_report
<1>2. ASSUME StartDeathReport PROVE WorkAdded'
  BY <1>2 DEF StartDeathReport
<1>3. ASSUME start_callback PROVE WorkAdded'
  BY <1>3 DEF start_callback
<1>4. ASSUME QuiesceCheck PROVE WorkAdded'
  BY <1>4, DetachControl DEF QuiesceCheck, SameReport
<1>5. ASSUME QuiesceEnter PROVE WorkAdded'
  BY <1>5 DEF QuiesceEnter, NoCall
<1>6. ASSUME QuiesceAdd PROVE WorkAdded'
  <2>1. pc["task"] = "q_add" /\ UNCHANGED <<at, rep, early>>
    BY <1>6, Zenon DEF QuiesceAdd, hist
  <2>2. CASE works' = works \cup {TfWork(Current)} /\ Goto("task", "q_count")
    <3>1. PICK w : w = TfWork(Current)
      OBVIOUS
    <3>2. w.kind = "tf" /\ works' = works \cup {w}
      BY <2>2, <3>1
    <3> QED
      BY <2>1, <2>2, <3>2
  <2>3. CASE UNCHANGED works /\ Goto("task", "cb_after")
    BY <2>1, <2>3
  <2> HIDE DEF WorkAdded, Goto
  <2> QED
    BY <1>6, <2>2, <2>3, Zenon DEF QuiesceAdd
<1>7. ASSUME QuiesceCount PROVE WorkAdded'
  BY <1>7 DEF QuiesceCount
<1>8. ASSUME AfterQuiesce PROVE WorkAdded'
  BY <1>8, QuiesceControl DEF SameReport
<1>9. ASSUME EventCheck PROVE WorkAdded'
  BY <1>9, DetachControl DEF EventCheck, SameReport
<1>10. ASSUME EventEnter PROVE WorkAdded'
  BY <1>10, CallControl DEF EventEnter
<1>11. ASSUME ExecMatched PROVE WorkAdded'
  BY <1>11 DEF ExecMatched
<1>12. ASSUME TargetEnd PROVE WorkAdded'
  BY <1>12, DetachControl DEF TargetEnd, SameReport
<1>13. ASSUME finish_report PROVE WorkAdded'
  BY <1>13 DEF finish_report
<1>14. ASSUME InterruptAgain PROVE WorkAdded'
  BY <1>14 DEF InterruptAgain
<1>15. ASSUME NotifyAgain PROVE WorkAdded'
  BY <1>15 DEF NotifyAgain
<1>16. ASSUME NotifyCount PROVE WorkAdded'
  BY <1>16 DEF NotifyCount
<1>17. ASSUME utrace_maybe_reap PROVE WorkAdded'
  BY <1>17 DEF utrace_maybe_reap
<1>18. ASSUME SecondPut PROVE WorkAdded'
  BY <1>18 DEF SecondPut
<1> HIDE DEF finder, kernel, others, hist, Goto, PlaceInv, CountInv, WorkAdded,
   InuseCounts, Handling, Resume, Report, TfWork, CallLabels, PutLabels, ProbeLabels,
   PassLabels, TfLabels, Uncounted, StartLabels, StopLabels, CallPuts, Calling, TaskPlace,
   StapPlace, Locals, Procs
<1> QED
  BY <1>1, <1>2, <1>3, <1>4, <1>5, <1>6, <1>7, <1>8, <1>9, <1>10, <1>11, <1>12, <1>13,
     <1>14, <1>15, <1>16, <1>17, <1>18, Zenon DEF PassStep

(* A step of the task around its task works keeps a work that is added and
   not counted queued. *)
LEMMA WorkKeepsAdded ==
    ASSUME PlaceInv, CountInv, WorkStep
    PROVE  WorkAdded'
<1> USE DEF finder, kernel, others, hist, Goto, PlaceInv, CountInv, WorkAdded,
   InuseCounts, Handling, Resume, Report, TfWork, CallLabels, PutLabels, ProbeLabels,
   PassLabels, TfLabels, Uncounted, StartLabels, StopLabels, CallPuts, Calling, TaskPlace,
   StapPlace, Locals, Procs
<1>1. ASSUME TakeWorks PROVE WorkAdded'
  BY <1>1 DEF TakeWorks
<1>2. ASSUME NEW w \in taken, RunWork(w) PROVE WorkAdded'
  BY <1>2 DEF RunWork, NoCall, NoReport
<1>3. ASSUME WorksDone PROVE WorkAdded'
  BY <1>3 DEF WorksDone
<1>4. ASSUME Die PROVE WorkAdded'
  BY <1>4 DEF Die
<1>5. ASSUME TfDequeue PROVE WorkAdded'
  BY <1>5 DEF TfDequeue
<1>6. ASSUME TfCheck PROVE WorkAdded'
  BY <1>6 DEF TfCheck
<1>7. ASSUME TfEnter PROVE WorkAdded'
  BY <1>7, CallControl DEF TfEnter
<1>8. ASSUME TfBegin PROVE WorkAdded'
  BY <1>8 DEF TfBegin
<1>9. ASSUME CloneMatch PROVE WorkAdded'
  BY <1>9, CallControl DEF CloneMatch
<1>10. ASSUME CloneDone PROVE WorkAdded'
  BY <1>10 DEF CloneDone
<1>11. ASSUME stp_task_work_func_done PROVE WorkAdded'
  BY <1>11 DEF stp_task_work_func_done, NoCall, NoReport
<1>12. ASSUME Wake PROVE WorkAdded'
  BY <1>12 DEF Wake
<1> HIDE DEF finder, kernel, others, hist, Goto, PlaceInv, CountInv, WorkAdded,
   InuseCounts, Handling, Resume, Report, TfWork, CallLabels, PutLabels, ProbeLabels,
   PassLabels, TfLabels, Uncounted, StartLabels, StopLabels, CallPuts, Calling, TaskPlace,
   StapPlace, Locals, Procs
<1> QED
  BY <1>1, <1>2, <1>3, <1>4, <1>5, <1>6, <1>7, <1>8, <1>9, <1>10, <1>11, <1>12, Zenon
     DEF WorkStep

(* A step inside __stp_utrace_attach() or of put_utrace_struct() leaves no
   callback behind once the wait is over. *)
LEMMA AttachKeepsFinished ==
    ASSUME PlaceInv, CountInv, NEW p \in Procs, AttachStep(p)
    PROVE  (early \/ CallbacksFinished)'
<1> USE DEF finder, kernel, others, hist, Goto, PlaceInv, CountInv, WorksCounted,
   WorkAdded, InWork, Counting, CallbacksFinished, ProbeSide, InProbe, StopOrder,
   Cancelling, CallLabels, PutLabels, ProbeLabels, PassLabels, TfLabels, Uncounted,
   StartLabels, StopLabels, CallPuts, Calling, TaskPlace, StapPlace, Locals, Procs
<1>0. Cardinality(works) \in Nat /\ Cardinality(taken) \in Nat
  BY FS_CardinalityType
<1>1. ASSUME PutStruct(p) PROVE (early \/ CallbacksFinished)'
  BY <1>1 DEF PutStruct
<1>2. ASSUME utrace_cleanup(p) PROVE (early \/ CallbacksFinished)'
  BY <1>2 DEF utrace_cleanup
<1>3. ASSUME AttachGet(p) PROVE (early \/ CallbacksFinished)'
  BY <1>3 DEF AttachGet, GetStruct
<1>4. ASSUME utrace_task_alloc(p) PROVE (early \/ CallbacksFinished)'
  BY <1>4, AllocControl DEF Returned, NoCall
<1>5. ASSUME utrace_add_engine(p) PROVE (early \/ CallbacksFinished)'
  <2>1. pc[p] = "att_eng" /\ UNCHANGED <<finder, cnt, kernel, rep, hist>>
    BY <1>5, AddControl
  <2>2. ASSUME NEW e, at' = [at EXCEPT ![p].e = e, ![p].found = FALSE, ![p].k = "ev_get"],
               Goto(p, IF at[p].found THEN "put" ELSE "ev_get")
        PROVE  (early \/ CallbacksFinished)'
    BY <2>1, <2>2
  <2>3. ASSUME NEW rc, at' = [at EXCEPT ![p].rc = rc, ![p].k = "att_fail"], Goto(p, "put")
        PROVE  (early \/ CallbacksFinished)'
    BY <2>1, <2>3
  <2> HIDE DEF CallbacksFinished, finder, hist, Goto
  <2> QED
    BY <1>5, <2>2, <2>3, AddControl, Zenon
<1>6. ASSUME AttachFailed(p) PROVE (early \/ CallbacksFinished)'
  BY <1>6 DEF AttachFailed, Returned, NoCall
<1>7. ASSUME SetEventsGet(p) PROVE (early \/ CallbacksFinished)'
  BY <1>7 DEF SetEventsGet, GetStruct
<1>8. ASSUME utrace_set_events(p) PROVE (early \/ CallbacksFinished)'
  BY <1>8 DEF utrace_set_events
<1>9. ASSUME ControlGet(p) PROVE (early \/ CallbacksFinished)'
  BY <1>9 DEF ControlGet, GetStruct
<1>10. ASSUME utrace_control(p) PROVE (early \/ CallbacksFinished)'
  BY <1>10 DEF utrace_control
<1>11. ASSUME stp_task_work_get(p) PROVE (early \/ CallbacksFinished)'
  BY <1>11 DEF stp_task_work_get
<1>12. ASSUME EnginePut(p) PROVE (early \/ CallbacksFinished)'
  BY <1>12 DEF EnginePut, Returned, NoCall
<1> HIDE DEF finder, kernel, others, hist, Goto, PlaceInv, CountInv, WorksCounted,
   WorkAdded, InWork, Counting, CallbacksFinished, ProbeSide, InProbe, StopOrder,
   Cancelling, CallLabels, PutLabels, ProbeLabels, PassLabels, TfLabels, Uncounted,
   StartLabels, StopLabels, CallPuts, Calling, TaskPlace, StapPlace, Locals, Procs
<1> QED
  BY <1>1, <1>2, <1>3, <1>4, <1>5, <1>6, <1>7, <1>8, <1>9, <1>10, <1>11, <1>12, Zenon
     DEF AttachStep

(* A step of the stap thread leaves no callback behind once the wait is
   over. *)
LEMMA StapKeepsFinished ==
    ASSUME PlaceInv, CountInv, StapStep
    PROVE  (early \/ CallbacksFinished)'
<1> USE DEF finder, kernel, others, hist, Goto, PlaceInv, CountInv, WorksCounted,
   WorkAdded, InWork, Counting, CallbacksFinished, ProbeSide, InProbe, StopOrder,
   Cancelling, CallLabels, PutLabels, ProbeLabels, PassLabels, TfLabels, Uncounted,
   StartLabels, StopLabels, CallPuts, Calling, TaskPlace, StapPlace, Locals, Procs
<1>0. Cardinality(works) \in Nat /\ Cardinality(taken) \in Nat
  BY FS_CardinalityType
<1>1. ASSUME StartFinder PROVE (early \/ CallbacksFinished)'
  BY <1>1, CallControl DEF StartFinder
<1>2. ASSUME StartTarget PROVE (early \/ CallbacksFinished)'
  BY <1>2, CallControl DEF StartTarget
<1>3. ASSUME StartDone PROVE (early \/ CallbacksFinished)'
  BY <1>3 DEF StartDone
<1>4. ASSUME PostGet PROVE (early \/ CallbacksFinished)'
  BY <1>4 DEF PostGet, GetStruct
<1>5. ASSUME find_matching_engine PROVE (early \/ CallbacksFinished)'
  <2>1. /\ pc["stap"] = "post_find" /\ Goto("stap", "put")
        /\ UNCHANGED <<cnt, works, taken, rep, early>>
    BY <1>5, FindControl
  <2>2. at'["task"] = at["task"]
    BY <1>5, FindControl
  <2> QED
    BY <2>1, <2>2
<1>6. ASSUME Stop PROVE (early \/ CallbacksFinished)'
  BY <1>6 DEF Stop
<1>7. ASSUME CloseFinder PROVE (early \/ CallbacksFinished)'
  BY <1>7 DEF CloseFinder
<1>8. ASSUME utrace_shutdown PROVE (early \/ CallbacksFinished)'
  BY <1>8 DEF utrace_shutdown
<1>9. ASSUME Synchronize PROVE (early \/ CallbacksFinished)'
  BY <1>9 DEF Synchronize
<1>10. ASSUME CancelUtraceWork PROVE (early \/ CallbacksFinished)'
  BY <1>10 DEF CancelUtraceWork
<1>11. ASSUME WaitInuse PROVE (early \/ CallbacksFinished)'
  BY <1>11 DEF WaitInuse
<1>12. ASSUME CancelTfWork PROVE (early \/ CallbacksFinished)'
  BY <1>12 DEF CancelTfWork
<1>13. ASSUME stp_task_work_exit PROVE (early \/ CallbacksFinished)'
  <2>1. /\ pc["stap"] = "st_wait" /\ UNCHANGED <<works, taken, rep, early>>
        /\ (Goto("stap", "st_free") /\ cnt = 0) \/ Goto("stap", "st_sleep")
    BY <1>13 DEF stp_task_work_exit
  <2>2. CASE Goto("stap", "st_free") /\ cnt = 0 /\ ~early
    <3>1. works # {} => Cardinality(works) > 0
      BY <1>0, FS_EmptySet
    <3>2. taken # {} => Cardinality(taken) > 0
      BY <1>0, FS_EmptySet
    <3>3. pc["task"] \in Counting => works # {} /\ InWork
      BY <2>1, <2>2
    <3>4. works = {} /\ taken = {} /\ ~InWork
      BY <1>0, <2>1, <2>2, <3>1, <3>2, <3>3
    <3>5. ~rep.tp
      BY <2>1
    <3> QED
      BY <2>1, <2>2, <3>4, <3>5
  <2>3. CASE Goto("stap", "st_sleep")
    BY <2>1, <2>3
  <2> QED
    BY <2>1, <2>2, <2>3
<1>14. ASSUME utrace_exit PROVE (early \/ CallbacksFinished)'
  BY <1>14 DEF utrace_exit
<1> HIDE DEF finder, kernel, others, hist, Goto, PlaceInv, CountInv, WorksCounted,
   WorkAdded, InWork, Counting, CallbacksFinished, ProbeSide, InProbe, StopOrder,
   Cancelling, CallLabels, PutLabels, ProbeLabels, PassLabels, TfLabels, Uncounted,
   StartLabels, StopLabels, CallPuts, Calling, TaskPlace, StapPlace, Locals, Procs
<1> QED
  BY <1>1, <1>2, <1>3, <1>4, <1>5, <1>6, <1>7, <1>8, <1>9, <1>10, <1>11, <1>12, <1>13,
     <1>14, Zenon DEF StapStep

(* A step of the task up to the end of a tracepoint probe leaves no callback
   behind once the wait is over. *)
LEMMA ProbeKeepsFinished ==
    ASSUME PlaceInv, CountInv, ProbeStep
    PROVE  (early \/ CallbacksFinished)'
<1> USE DEF finder, kernel, others, hist, Goto, PlaceInv, CountInv, WorksCounted,
   WorkAdded, InWork, Counting, CallbacksFinished, ProbeSide, InProbe, StopOrder,
   Cancelling, CallLabels, PutLabels, ProbeLabels, PassLabels, TfLabels, Uncounted,
   StartLabels, StopLabels, CallPuts, Calling, TaskPlace, StapPlace, Locals, Procs
<1>0. Cardinality(works) \in Nat /\ Cardinality(taken) \in Nat
  BY FS_CardinalityType
<1>1. ASSUME Exec PROVE (early \/ CallbacksFinished)'
  BY <1>1 DEF Exec, NoReport
<1>2. ASSUME Exit PROVE (early \/ CallbacksFinished)'
  <2>1. CASE reg
    <3>1. /\ pc["task"] = "user" /\ reg /\ pc' = [pc EXCEPT !["task"] = "tp_get"]
          /\ rep' = [NoReport EXCEPT !.ev = "DEATH", !.tp = TRUE]
          /\ UNCHANGED <<finder, cnt, works, taken, at, hist>>
      BY <1>2, <2>1 DEF Exit
    <3> QED
      BY <3>1 DEF NoReport
  <2>2. CASE ~reg
    <3>1. /\ pc["task"] = "user" /\ ~reg /\ pc' = [pc EXCEPT !["task"] = "tw"]
          /\ UNCHANGED <<finder, cnt, works, taken, at, rep, hist>>
      BY <1>2, <2>2 DEF Exit
    <3> QED
      BY <3>1
  <2> QED
    BY <2>1, <2>2
<1>3. ASSUME TracepointGet PROVE (early \/ CallbacksFinished)'
  <2>1. /\ pc["task"] = "tp_get"
        /\ UNCHANGED <<finder, cnt, taken, tk, hist>>
    BY <1>3, TracepointControl
  <2>2. CASE Goto("task", "tp_out") /\ UNCHANGED <<works, at, rep>>
    BY <2>1, <2>2
  <2>3. ASSUME NEW s, rep' = [rep EXCEPT !.s = s],
               at' = [at EXCEPT !["task"] = [NoCall EXCEPT !.s = s, !.k = "tp_out"]],
               \/ Goto("task", "put") 
               \/ rep.ev = "EXEC" /\ Goto("task", "rep_start")
               \/ rep.ev # "EXEC" /\ Goto("task", "death_count")
        PROVE  (early \/ CallbacksFinished)'
    BY <2>1, <2>3 DEF NoCall
  <2> HIDE DEF CallbacksFinished, finder, hist
  <2> QED
    BY <1>3, <2>2, <2>3, TracepointControl
<1>4. ASSUME DeathCount PROVE (early \/ CallbacksFinished)'
  BY <1>4 DEF DeathCount
<1>5. ASSUME TracepointReturn PROVE (early \/ CallbacksFinished)'
  BY <1>5 DEF TracepointReturn, NoCall, NoReport
<1> HIDE DEF finder, kernel, others, hist, Goto, PlaceInv, CountInv, WorksCounted,
   WorkAdded, InWork, Counting, CallbacksFinished, ProbeSide, InProbe, StopOrder,
   Cancelling, CallLabels, PutLabels, ProbeLabels, PassLabels, TfLabels, Uncounted,
   StartLabels, StopLabels, CallPuts, Calling, TaskPlace, StapPlace, Locals, Procs
<1> QED
  BY <1>1, <1>2, <1>3, <1>4, <1>5, Zenon DEF ProbeStep

(* A step of a reporting pass leaves no callback behind once the wait is
   over. *)
LEMMA PassKeepsFinished ==
    ASSUME PlaceInv, CountInv, PassStep
    PROVE  (early \/ CallbacksFinished)'
<1> USE DEF finder, kernel, others, hist, Goto, PlaceInv, CountInv, WorksCounted,
   WorkAdded, InWork, Counting, CallbacksFinished, ProbeSide, InProbe, StopOrder,
   Cancelling, CallLabels, PutLabels, ProbeLabels, PassLabels, TfLabels, Uncounted,
   StartLabels, StopLabels, CallPuts, Calling, TaskPlace, StapPlace, Locals, Procs
<1>0. Cardinality(works) \in Nat /\ Cardinality(taken) \in Nat
  BY FS_CardinalityType
<1>1. ASSUME start_report PROVE (early \/ CallbacksFinished)'
  BY <1>1 DEF start_report
<1>2. ASSUME StartDeathReport PROVE (early \/ CallbacksFinished)'
  BY <1>2 DEF StartDeathReport
<1>3. ASSUME start_callback PROVE (early \/ CallbacksFinished)'
  BY <1>3 DEF start_callback
<1>4. ASSUME QuiesceCheck PROVE (early \/ CallbacksFinished)'
  BY <1>4, DetachControl DEF QuiesceCheck, SameReport
<1>5. ASSUME QuiesceEnter PROVE (early \/ CallbacksFinished)'
  BY <1>5 DEF QuiesceEnter, NoCall
<1>6. ASSUME QuiesceAdd PROVE (early \/ CallbacksFinished)'
  BY <1>6 DEF QuiesceAdd
<1>7. ASSUME QuiesceCount PROVE (early \/ CallbacksFinished)'
  BY <1>7 DEF QuiesceCount
<1>8. ASSUME AfterQuiesce PROVE (early \/ CallbacksFinished)'
  BY <1>8, QuiesceControl DEF SameReport
<1>9. ASSUME EventCheck PROVE (early \/ CallbacksFinished)'
  BY <1>9, DetachControl DEF EventCheck, SameReport
<1>10. ASSUME EventEnter PROVE (early \/ CallbacksFinished)'
  BY <1>10, CallControl DEF EventEnter
<1>11. ASSUME ExecMatched PROVE (early \/ CallbacksFinished)'
  BY <1>11 DEF ExecMatched
<1>12. ASSUME TargetEnd PROVE (early \/ CallbacksFinished)'
  BY <1>12, DetachControl DEF TargetEnd, SameReport
<1>13. ASSUME finish_report PROVE (early \/ CallbacksFinished)'
  BY <1>13 DEF finish_report
<1>14. ASSUME InterruptAgain PROVE (early \/ CallbacksFinished)'
  BY <1>14 DEF InterruptAgain
<1>15. ASSUME NotifyAgain PROVE (early \/ CallbacksFinished)'
  BY <1>15 DEF NotifyAgain
<1>16. ASSUME NotifyCount PROVE (early \/ CallbacksFinished)'
  BY <1>16 DEF NotifyCount
<1>17. ASSUME utrace_maybe_reap PROVE (early \/ CallbacksFinished)'
  BY <1>17 DEF utrace_maybe_reap
<1>18. ASSUME SecondPut PROVE (early \/ CallbacksFinished)'
  BY <1>18 DEF SecondPut
<1> HIDE DEF finder, kernel, others, hist, Goto, PlaceInv, CountInv, WorksCounted,
   WorkAdded, InWork, Counting, CallbacksFinished, ProbeSide, InProbe, StopOrder,
   Cancelling, CallLabels, PutLabels, ProbeLabels, PassLabels, TfLabels, Uncounted,
   StartLabels, StopLabels, CallPuts, Calling, TaskPlace, StapPlace, Locals, Procs
<1> QED
  BY <1>1, <1>2, <1>3, <1>4, <1>5, <1>6, <1>7, <1>8, <1>9, <1>10, <1>11, <1>12, <1>13,
     <1>14, <1>15, <1>16, <1>17, <1>18, Zenon DEF PassStep

(* A step of the task around its task works leaves no callback behind once
   the wait is over. *)
LEMMA WorkKeepsFinished ==
    ASSUME PlaceInv, CountInv, WorkStep
    PROVE  (early \/ CallbacksFinished)'
<1> USE DEF finder, kernel, others, hist, Goto, PlaceInv, CountInv, WorksCounted,
   WorkAdded, InWork, Counting, CallbacksFinished, ProbeSide, InProbe, StopOrder,
   Cancelling, CallLabels, PutLabels, ProbeLabels, PassLabels, TfLabels, Uncounted,
   StartLabels, StopLabels, CallPuts, Calling, TaskPlace, StapPlace, Locals, Procs
<1>0. Cardinality(works) \in Nat /\ Cardinality(taken) \in Nat
  BY FS_CardinalityType
<1>1. ASSUME TakeWorks PROVE (early \/ CallbacksFinished)'
  BY <1>1 DEF TakeWorks
<1>2. ASSUME NEW w \in taken, RunWork(w) PROVE (early \/ CallbacksFinished)'
  BY <1>2 DEF RunWork, NoCall, NoReport
<1>3. ASSUME WorksDone PROVE (early \/ CallbacksFinished)'
  BY <1>3 DEF WorksDone
<1>4. ASSUME Die PROVE (early \/ CallbacksFinished)'
  BY <1>4 DEF Die
<1>5. ASSUME TfDequeue PROVE (early \/ CallbacksFinished)'
  BY <1>5 DEF TfDequeue
<1>6. ASSUME TfCheck PROVE (early \/ CallbacksFinished)'
  BY <1>6 DEF TfCheck
<1>7. ASSUME TfEnter PROVE (early \/ CallbacksFinished)'
  BY <1>7, CallControl DEF TfEnter
<1>8. ASSUME TfBegin PROVE (early \/ CallbacksFinished)'
  BY <1>8 DEF TfBegin
<1>9. ASSUME CloneMatch PROVE (early \/ CallbacksFinished)'
  BY <1>9, CallControl DEF CloneMatch
<1>10. ASSUME CloneDone PROVE (early \/ CallbacksFinished)'
  BY <1>10 DEF CloneDone
<1>11. ASSUME stp_task_work_func_done PROVE (early \/ CallbacksFinished)'
  BY <1>11 DEF stp_task_work_func_done, NoCall, NoReport
<1>12. ASSUME Wake PROVE (early \/ CallbacksFinished)'
  BY <1>12 DEF Wake
<1> HIDE DEF finder, kernel, others, hist, Goto, PlaceInv, CountInv, WorksCounted,
   WorkAdded, InWork, Counting, CallbacksFinished, ProbeSide, InProbe, StopOrder,
   Cancelling, CallLabels, PutLabels, ProbeLabels, PassLabels, TfLabels, Uncounted,
   StartLabels, StopLabels, CallPuts, Calling, TaskPlace, StapPlace, Locals, Procs
<1> QED
  BY <1>1, <1>2, <1>3, <1>4, <1>5, <1>6, <1>7, <1>8, <1>9, <1>10, <1>11, <1>12, Zenon
     DEF WorkStep

-----------------------------------------------------------------------------
(* The invariant of the specification.                                      *)

QuietInv == PlaceInv /\ CountInv

(* The task finder starts with at most the clone worker queued and counted.  *)
LEMMA InitQuiet ==
    ASSUME Init
    PROVE  QuietInv
<1> USE DEF Init
<1>1. PlaceInv
  BY DEF PlaceInv, Locals, TaskPlace, StapPlace, ProbeSide, InProbe, StopOrder, Cancelling,
     InuseCounts, Handling, Calling, CallPuts, NoCall, NoReport, Procs, CallLabels,
     PutLabels, ProbeLabels, PassLabels, TfLabels, Uncounted, StartLabels, StopLabels
<1>2. works = {} \/ \E w : works = {w}
  BY Zenon
<1>3. pc["task"] = "user" /\ pc["stap"] = "start"
  BY DEF Procs
<1>4. WorkAdded /\ CallbacksFinished
  BY <1>3 DEF WorkAdded, CallbacksFinished
<1>5. IsFiniteSet(works) /\ IsFiniteSet(taken) /\ Cardinality(taken) = 0
  BY <1>2, FS_EmptySet, FS_Singleton
<1>6. cnt \in Int /\ cnt = Cardinality(works)
  <2>1. CASE forked
    <3>1. works = {TfWork(CloneId)} /\ cnt = 1
      BY <2>1, Zenon
    <3> QED
      <4> HIDE DEF Init
      <4>1. Cardinality({TfWork(CloneId)}) = 1
        BY FS_Singleton
      <4> QED
        BY <3>1, <4>1
  <2>2. CASE ~forked
    BY <2>2, FS_EmptySet
  <2> QED
    BY <2>1, <2>2
<1>7. WorksCounted
  BY <1>3, <1>5, <1>6 DEF WorksCounted, InWork, Counting, Uncounted
<1> QED
  BY <1>1, <1>4, <1>7 DEF QuietInv, CountInv

(* A step that changes nothing keeps it.                                    *)
LEMMA StutterQuiet ==
    ASSUME QuietInv, UNCHANGED vars
    PROVE  QuietInv'
<1> USE DEF vars, finder, kernel, hist
<1>1. PlaceInv'
  BY DEF QuietInv, PlaceInv, Locals, TaskPlace, StapPlace, ProbeSide, InProbe, StopOrder,
     InuseCounts, Handling, Calling
<1>2. CountInv'
  BY DEF QuietInv, CountInv, WorksCounted, WorkAdded, CallbacksFinished, InWork
<1> QED
  BY <1>1, <1>2 DEF QuietInv

(* Every step of the specification keeps it.                                *)
LEMMA NextQuiet ==
    ASSUME QuietInv, [Next]_vars
    PROVE  QuietInv'
<1> USE DEF QuietInv
<1>1. ASSUME NEW p \in Procs, AttachStep(p) PROVE QuietInv'
  BY <1>1, AttachKeepsPlace, AttachKeepsCounted, AttachKeepsAdded, AttachKeepsFinished,
     Zenon
     DEF CountInv
<1>2. ASSUME StapStep PROVE QuietInv'
  BY <1>2, StapKeepsPlace, StapKeepsCounted, StapKeepsAdded, StapKeepsFinished, Zenon
     DEF CountInv
<1>3. ASSUME ProbeStep PROVE QuietInv'
  BY <1>3, ProbeKeepsPlace, ProbeKeepsCounted, ProbeKeepsAdded, ProbeKeepsFinished, Zenon
     DEF CountInv
<1>4. ASSUME PassStep PROVE QuietInv'
  BY <1>4, PassKeepsPlace, PassKeepsCounted, PassKeepsAdded, PassKeepsFinished, Zenon
     DEF CountInv
<1>5. ASSUME WorkStep PROVE QuietInv'
  BY <1>5, WorkKeepsPlace, WorkKeepsCounted, WorkKeepsAdded, WorkKeepsFinished, Zenon
     DEF CountInv
<1> HIDE DEF QuietInv
<1> QED
  BY <1>1, <1>2, <1>3, <1>4, <1>5, NextSteps, StutterQuiet, Zenon

(* In every behaviour the two processes are where the code allows them to be
   together, and every task work that is queued, taken or running is counted
   in stp_task_work_callbacks, or is about to be by the thread that added it. *)
THEOREM WorksAlwaysCounted == Spec => []QuietInv
<1>1. Init => QuietInv
  BY InitQuiet
<1>2. QuietInv /\ [Next]_vars => QuietInv'
  BY NextQuiet
<1> QED
  BY <1>1, <1>2, PTL DEF Spec

(* When stp_task_work_exit() lets the module go on to free everything, the task
   runs no tracepoint probe, has no task work queued or taken, and every callback
   has counted itself down, whatever the sizes of the pools and however the task
   and the stop interleave; the only code of the module the task can still be in
   is the wake_up() that ends stp_task_work_put().  The one exception is the work
   that utrace_resume() queues again and that is cancelled before it is counted
   (early).                                                                  *)
THEOREM UnloadsQuietly == Spec => []UnloadQuiet
<1>1. QuietInv => UnloadQuiet
  BY DEF QuietInv, CountInv, UnloadQuiet
<1> QED
  BY <1>1, WorksAlwaysCounted, PTL

(* __stp_inuse_count is the number of handlers that saw the task finder running
   and have not left: stap_stop_task_finder() waits for exactly these, and the
   counter never goes below zero.                                            *)
THEOREM HandlersCounted == Spec => []InuseCounts
<1>1. QuietInv => InuseCounts
  BY DEF QuietInv, PlaceInv
<1> QED
  BY <1>1, WorksAlwaysCounted, PTL
=============================================================================
