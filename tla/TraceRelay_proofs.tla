-------------------------- MODULE TraceRelay_proofs --------------------------
(***************************************************************************)
(* What holds of the way of a message for any number of cpus, sub-buffers  *)
(* and messages, and any size of a sub-buffer:                             *)
(*   OutputInOrder  the readers of all cpus together write what was        *)
(*                  printed in the order of the sequence numbers, as long  *)
(*                  as none of them gives up waiting for its turn or takes *)
(*                  something else for a header;                           *)
(*   HeadersFound   which none does as long as no failure was counted;     *)
(*   NothingLost    as long as no failure was counted and no draining read *)
(*                  threw data away, every message is whole somewhere;     *)
(*   RelayTypes     buffers, texts, files and counters keep their bounds.  *)
(* Each rests on the one before it: OrderInv, LossInv, BoundInv.           *)
(***************************************************************************)
EXTENDS TraceRelay, WellFoundedInduction, FiniteSetTheorems, TLAPS

-----------------------------------------------------------------------------
(* Induction and recursion over numbers.                                    *)

(* A set of numbers that is not empty has a least element.                  *)
LEMMA Least ==
    ASSUME NEW T \in SUBSET Nat, T # {}
    PROVE  \E x \in T : \A y \in T : x <= y
<1> DEFINE R == OpToRel(<, Nat)
<1>1. IsWellFoundedOn(R, Nat)
  BY NatLessThanWellFounded
<1>2. \A x, y \in Nat : y < x => <<y, x>> \in R
  BY DEF OpToRel
<1> HIDE DEF R
<1>3. PICK x \in T : \A y \in T : ~(<<y, x>> \in R)
  BY <1>1, WFMin
<1>4. ASSUME NEW y \in T PROVE ~(y < x)
  <2>1. x \in Nat /\ y \in Nat
    OBVIOUS
  <2>2. <<y, x>> \notin R
    BY <1>3
  <2> QED
    BY <1>2, <2>1, <2>2, Zenon
<1>5. \A y \in T : x <= y
  BY <1>4
<1> QED
  BY <1>5

(* Hence a set of numbers up to N that has 0 and, with n, n + 1, has them all. *)
LEMMA UpTo ==
    ASSUME NEW N \in Nat, NEW T, 0 \in T, \A n \in T : n < N => n + 1 \in T
    PROVE  \A n \in 0 .. N : n \in T
<1> DEFINE M == {n \in 0 .. N : n \notin T}
<1> SUFFICES ASSUME M # {} PROVE FALSE
  OBVIOUS
<1>1. PICK x \in M : \A y \in M : x <= y
  <2>1. M \in SUBSET Nat
    OBVIOUS
  <2> HIDE DEF M
  <2> QED
    BY <2>1, Least
<1>2. x # 0 /\ x - 1 \in 0 .. N /\ x - 1 \in T /\ x - 1 < N
  BY <1>1
<1>3. (x - 1) + 1 \in T
  BY <1>2
<1> QED
  BY <1>1, <1>3

(* f is the sequence of results of the steps F from a on.                   *)
Steps(f, N, a, F) == f[0] = a /\ \A n \in 1 .. N : f[n] = F[n][f[n - 1]]

(* There is such a sequence: what a recursive definition stands for exists. *)
LEMMA StepsExist ==
    ASSUME NEW N \in Nat, NEW S, NEW a \in S, NEW F \in [1 .. N -> [S -> S]]
    PROVE  \E f \in [0 .. N -> S] : Steps(f, N, a, F)
<1> DEFINE T == {n \in 0 .. N : \E f \in [0 .. n -> S] : Steps(f, n, a, F)}
<1>1. 0 \in T
  <2> DEFINE f == [n \in 0 .. 0 |-> a]
  <2>1. f \in [0 .. 0 -> S] /\ Steps(f, 0, a, F)
    BY DEF Steps
  <2> QED
    BY <2>1
<1>2. ASSUME NEW n \in T, n < N PROVE n + 1 \in T
  <2>1. PICK f \in [0 .. n -> S] : Steps(f, n, a, F)
    BY <1>2
  <2> DEFINE g == [i \in 0 .. n + 1 |-> IF i = n + 1 THEN F[n + 1][f[n]] ELSE f[i]]
  <2>2. n \in Nat /\ n + 1 \in 1 .. N /\ f[n] \in S
    BY <1>2
  <2>3. F[n + 1][f[n]] \in S
    BY <2>2
  <2>4. g \in [0 .. n + 1 -> S]
    BY <2>2, <2>3
  <2>5. g[0] = a /\ \A i \in 1 .. n + 1 : g[i] = F[i][g[i - 1]]
    BY <2>1, <2>2 DEF Steps
  <2> HIDE DEF g
  <2> QED
    BY <2>2, <2>4, <2>5 DEF Steps
<1>3. N \in T
  <2> HIDE DEF T
  <2> QED
    BY <1>1, <1>2, UpTo
<1> QED
  BY <1>3

-----------------------------------------------------------------------------
(* The recursive definitions of TraceRelay, unfolded.                       *)

(* What Avail() collects, sub-buffer by sub-buffer.                         *)
LEMMA AvailSteps ==
    ASSUME NEW S, NEW q \in Seq(Seq(S))
    PROVE  \E f \in [0 .. Len(q) -> Seq(S)] :
             /\ Avail(q) = f[Len(q)]
             /\ f[0] = <<>>
             /\ \A n \in 1 .. Len(q) : f[n] = f[n - 1] \o q[n]
<1> DEFINE N == Len(q)
           F == [n \in 1 .. N |-> [x \in Seq(S) |-> x \o q[n]]]
           P(f) == f = [i \in 0 .. N |-> IF i = 0 THEN <<>> ELSE f[i - 1] \o q[i]]
<1>1. N \in Nat /\ \A n \in 1 .. N : q[n] \in Seq(S)
  OBVIOUS
<1>2. <<>> \in Seq(S) /\ F \in [1 .. N -> [Seq(S) -> Seq(S)]]
  BY <1>1
<1>3. \A n \in 1 .. N : \A x \in Seq(S) : F[n][x] = x \o q[n]
  OBVIOUS
<1> HIDE DEF F, N
<1>4. PICK f \in [0 .. N -> Seq(S)] : Steps(f, N, <<>>, F)
  BY <1>1, <1>2, StepsExist
<1>5. f[0] = <<>> /\ \A n \in 1 .. N : f[n] = f[n - 1] \o q[n]
  <2>1. ASSUME NEW n \in 1 .. N PROVE f[n] = f[n - 1] \o q[n]
    <3>1. f[n - 1] \in Seq(S)
      BY <1>1
    <3>2. f[n] = F[n][f[n - 1]]
      BY <1>4 DEF Steps
    <3> QED
      BY <1>3, <3>1, <3>2
  <2> QED
    BY <1>4, <2>1 DEF Steps
<1>6. P(f)
  <2>1. f = [i \in 0 .. N |-> f[i]]
    OBVIOUS
  <2>2. ASSUME NEW i \in 0 .. N PROVE f[i] = IF i = 0 THEN <<>> ELSE f[i - 1] \o q[i]
    <3>1. CASE i = 0
      BY <1>5, <3>1
    <3>2. CASE i # 0
      <4>1. i \in 1 .. N
        BY <1>1, <3>2
      <4> QED
        BY <1>5, <3>2, <4>1
    <3> QED
      BY <3>1, <3>2
  <2> QED
    BY <2>1, <2>2, Zenon
<1>7. P(CHOOSE g : P(g))
  BY <1>6, Zenon
<1> DEFINE h == CHOOSE g : P(g)
<1>8. Avail(q) = h[N]
  BY Zenon DEF Avail, N
<1>9. h = [i \in 0 .. N |-> IF i = 0 THEN <<>> ELSE h[i - 1] \o q[i]]
  BY <1>7
<1> HIDE DEF h
<1>10. ASSUME NEW i \in 0 .. N PROVE h[i] = IF i = 0 THEN <<>> ELSE h[i - 1] \o q[i]
  BY <1>9, Zenon
<1>11. \A n \in 0 .. N : n \in {i \in 0 .. N : h[i] = f[i]}
  <2> DEFINE T == {i \in 0 .. N : h[i] = f[i]}
  <2>1. 0 \in T
    <3>1. 0 \in 0 .. N
      BY <1>1
    <3>2. h[0] = <<>>
      BY <3>1, <1>10
    <3> QED
      BY <3>1, <3>2, <1>5
  <2>2. ASSUME NEW n \in T, n < N PROVE n + 1 \in T
    <3>1. n + 1 \in 0 .. N /\ n + 1 \in 1 .. N /\ (n + 1) - 1 = n /\ n + 1 # 0
      BY <1>1, <2>2
    <3>2. h[n] = f[n]
      OBVIOUS
    <3>3. h[n + 1] = h[n] \o q[n + 1]
      BY <3>1, <1>10
    <3>4. f[n + 1] = f[n] \o q[n + 1]
      BY <3>1, <1>5
    <3> QED
      BY <3>1, <3>2, <3>3, <3>4
  <2> HIDE DEF T
  <2>3. \A n \in 0 .. N : n \in T
    BY <1>1, <2>1, <2>2, UpTo
  <2> QED
    BY <2>3 DEF T
<1>12. Avail(q) = f[N]
  BY <1>1, <1>8, <1>11
<1> QED
  BY <1>5, <1>12 DEF N

(* Avail() of one sub-buffer more.                                          *)
LEMMA AvailAppend ==
    ASSUME NEW S, NEW q \in Seq(Seq(S)), NEW x \in Seq(S)
    PROVE  Avail(q) \in Seq(S) /\ Avail(Append(q, x)) = Avail(q) \o x
<1> DEFINE N == Len(q)
           r == Append(q, x)
<1>1. /\ N \in Nat /\ r \in Seq(Seq(S)) /\ Len(r) = N + 1 /\ r[N + 1] = x
      /\ \A n \in 1 .. N : r[n] = q[n]
  OBVIOUS
<1> HIDE DEF r
<1>2. PICK f \in [0 .. N -> Seq(S)] :
        /\ Avail(q) = f[N] /\ f[0] = <<>>
        /\ \A n \in 1 .. N : f[n] = f[n - 1] \o q[n]
  BY AvailSteps
<1>3. PICK g \in [0 .. N + 1 -> Seq(S)] :
        /\ Avail(r) = g[N + 1] /\ g[0] = <<>>
        /\ \A n \in 1 .. N + 1 : g[n] = g[n - 1] \o r[n]
  <2> HIDE DEF N
  <2>1. \E g \in [0 .. Len(r) -> Seq(S)] :
          /\ Avail(r) = g[Len(r)] /\ g[0] = <<>>
          /\ \A n \in 1 .. Len(r) : g[n] = g[n - 1] \o r[n]
    BY <1>1, AvailSteps
  <2> QED
    BY <1>1, <2>1
<1> DEFINE T == {i \in 0 .. N : f[i] = g[i]}
<1>4. 0 \in T
  BY <1>1, <1>2, <1>3
<1> HIDE DEF N
<1>5. ASSUME NEW n \in T, n < N PROVE n + 1 \in T
  <2>1. n + 1 \in 0 .. N /\ n + 1 \in 1 .. N /\ n + 1 \in 1 .. N + 1 /\ (n + 1) - 1 = n
    BY <1>1, <1>5
  <2>2. f[n] = g[n] /\ r[n + 1] = q[n + 1]
    BY <1>1, <2>1
  <2>3. g[n + 1] = g[n] \o r[n + 1]
    BY <1>3, <2>1
  <2>4. f[n + 1] = f[n] \o q[n + 1]
    BY <1>2, <2>1
  <2> QED
    BY <2>1, <2>2, <2>3, <2>4
<1> HIDE DEF T
<1>6. f[N] = g[N]
  <2>1. \A n \in 0 .. N : n \in T
    BY <1>1, <1>4, <1>5, UpTo
  <2>2. N \in T
    BY <1>1, <2>1
  <2> QED
    BY <2>2 DEF T
<1>7. g[N + 1] = g[N] \o x
  <2>1. N + 1 \in 1 .. N + 1 /\ (N + 1) - 1 = N
    BY <1>1
  <2> QED
    BY <1>1, <1>3, <2>1
<1>8. f[N] \in Seq(S)
  BY <1>1
<1> QED
  BY <1>2, <1>3, <1>6, <1>7, <1>8 DEF r

(* Avail() of no sub-buffer.                                                *)
LEMMA AvailNone == Avail(<<>>) = <<>>
<1>1. <<>> \in Seq(Seq({})) /\ Len(<<>>) = 0
  OBVIOUS
<1>2. \E f \in [0 .. Len(<<>>) -> Seq({})] : Avail(<<>>) = f[Len(<<>>)] /\ f[0] = <<>>
  BY <1>1, AvailSteps
<1> QED
  BY <1>1, <1>2

(* What the sequence z that joins x and y consists of.                      *)
Joins(z, x, y) ==
    /\ Len(z) = Len(x) + Len(y)
    /\ \A i \in 1 .. Len(x) : z[i] = x[i]
    /\ \A i \in 1 .. Len(y) : z[Len(x) + i] = y[i]

(* \o joins.                                                                *)
LEMMA JoinsIs ==
    ASSUME NEW S, NEW x \in Seq(S), NEW y \in Seq(S)
    PROVE  x \o y \in Seq(S) /\ Len(x) \in Nat /\ Len(y) \in Nat /\ Joins(x \o y, x, y)
BY DEF Joins

(* v is what is left of the sequence w without its first n elements.        *)
Rest(v, w, n) ==
    /\ Len(v) = Len(w) - n
    /\ \A i \in 1 .. Len(v) : v[i] = w[i + n]

(* SubSeq() gives what is left.                                             *)
LEMMA RestIs ==
    ASSUME NEW S, NEW w \in Seq(S), NEW n \in 0 .. Len(w)
    PROVE  LET v == SubSeq(w, n + 1, Len(w)) IN v \in Seq(S) /\ Rest(v, w, n)
<1>1. Len(w) \in Nat /\ n \in Nat
  OBVIOUS
<1>2. SubSeq(w, n + 1, Len(w)) \in Seq(S)
  BY <1>1
<1>3. Len(SubSeq(w, n + 1, Len(w))) = Len(w) - n
  BY <1>1
<1> QED
  BY <1>1, <1>2, <1>3 DEF Rest

(* The first n elements may be taken off in two parts.                      *)
LEMMA RestOfJoin ==
    ASSUME NEW S, NEW x \in Seq(S), NEW y \in Seq(S), NEW z, NEW n \in 0 .. Len(x),
           NEW a \in Seq(S), NEW b, Joins(z, x, y), Rest(a, x, n), Joins(b, a, y)
    PROVE  Rest(b, z, n)
<1>1. Len(x) \in Nat /\ Len(y) \in Nat /\ Len(a) \in Nat /\ n \in Nat /\ Len(a) = Len(x) - n
  BY DEF Rest
<1>2. Len(b) = Len(z) - n /\ Len(b) = Len(a) + Len(y)
  BY <1>1 DEF Joins
<1>3. ASSUME NEW i \in 1 .. Len(b) PROVE b[i] = z[i + n]
  <2>1. CASE i <= Len(a)
    <3>1. i \in 1 .. Len(a) /\ i + n \in 1 .. Len(x)
      BY <1>1, <1>2, <2>1
    <3> QED
      BY <3>1 DEF Joins, Rest
  <2>2. CASE i > Len(a)
    <3> DEFINE j == i - Len(a)
    <3>1. j \in 1 .. Len(y) /\ i = Len(a) + j /\ i + n = Len(x) + j
      BY <1>1, <1>2, <2>2
    <3> HIDE DEF j
    <3> QED
      BY <3>1 DEF Joins
  <2> QED
    BY <1>1, <1>2, <2>1, <2>2
<1> QED
  BY <1>2, <1>3 DEF Rest

(* ... also when the first part is all of x.                                *)
LEMMA RestOfTail ==
    ASSUME NEW S, NEW x \in Seq(S), NEW y \in Seq(S), NEW z, NEW n \in 0 .. Len(y),
           NEW k, Joins(z, x, y), Rest(k, y, n)
    PROVE  Rest(k, z, Len(x) + n)
<1>1. Len(x) \in Nat /\ Len(y) \in Nat /\ n \in Nat /\ Len(k) = Len(y) - n
  BY DEF Rest
<1>2. ASSUME NEW i \in 1 .. Len(k) PROVE k[i] = z[i + (Len(x) + n)]
  <2> DEFINE j == i + n
  <2>1. j \in 1 .. Len(y) /\ i + (Len(x) + n) = Len(x) + j
    BY <1>1
  <2>2. k[i] = y[j]
    BY DEF Rest
  <2> HIDE DEF j
  <2> QED
    BY <2>1, <2>2 DEF Joins
<1> QED
  BY <1>1, <1>2 DEF Rest, Joins

(* After the sub-buffers w, n units in front are taken, or will be.         *)
DropState(S) == [left : Nat, subs : Seq(Seq(S))]
Taken(s, w, n) ==
    /\ Len(w) <= n => s.left = n - Len(w) /\ Avail(s.subs) = <<>>
    /\ Len(w) > n => s.left = 0 /\ Rest(Avail(s.subs), w, n)

(* One step of Consume() takes off the front what is still to be taken.     *)
LEMMA DropRest ==
    ASSUME NEW S, NEW s \in DropState(S), NEW sub \in Seq(S), NEW w \in Seq(S),
           NEW n \in Nat, Taken(s, w, n)
    PROVE  DropStep(s, sub) \in DropState(S) /\ Taken(DropStep(s, sub), w \o sub, n)
<1> DEFINE t == DropStep(s, sub)
           v == w \o sub
           a == Avail(s.subs)
           k == SubSeq(sub, s.left + 1, Len(sub))
<1>1. s.left \in Nat /\ s.subs \in Seq(Seq(S)) /\ Len(w) \in Nat /\ Len(sub) \in Nat
  BY DEF DropState
<1>2. v \in Seq(S) /\ Joins(v, w, sub) /\ Len(v) = Len(w) + Len(sub)
  BY JoinsIs DEF Joins
<1>3. a \in Seq(S)
  BY <1>1, AvailAppend
<1> HIDE DEF v
<1>4. ASSUME s.left >= Len(sub) PROVE t \in DropState(S) /\ Taken(t, v, n)
  <2>1. t.left = s.left - Len(sub) /\ t.subs = s.subs /\ t \in DropState(S)
    BY <1>1, <1>4 DEF DropStep, DropState
  <2> HIDE DEF t
  <2>2. ASSUME Len(w) <= n PROVE Taken(t, v, n)
    <3>1. s.left = n - Len(w) /\ Avail(s.subs) = <<>>
      BY <2>2 DEF Taken
    <3>2. t.left = n - Len(v) /\ Len(v) <= n
      BY <1>1, <1>2, <1>4, <2>1, <2>2, <3>1
    <3> QED
      BY <1>1, <1>2, <2>1, <3>1, <3>2 DEF Taken
  <2>3. ASSUME Len(w) > n PROVE Taken(t, v, n)
    <3>1. s.left = 0 /\ Rest(a, w, n)
      BY <2>3 DEF Taken
    <3> HIDE DEF a
    <3>2. Len(sub) = 0 /\ Len(v) = Len(w) /\ Len(v) > n
      BY <1>1, <1>2, <1>4, <2>3, <3>1
    <3>3. Joins(a, a, sub)
      BY <1>3, <3>2 DEF Joins
    <3>4. Rest(a, v, n)
      <4>1. n \in 0 .. Len(w)
        BY <1>1, <2>3
      <4> QED
        BY <1>2, <1>3, <3>1, <3>3, <4>1, RestOfJoin
    <3>5. t.left = 0
      BY <2>1, <3>1, <3>2
    <3> QED
      BY <1>1, <1>2, <2>1, <3>2, <3>4, <3>5 DEF Taken, a
  <2> QED
    BY <1>1, <2>1, <2>2, <2>3
<1>5. ASSUME s.left < Len(sub) PROVE t \in DropState(S) /\ Taken(t, v, n)
  <2>1. k \in Seq(S) /\ Rest(k, sub, s.left)
    <3>1. s.left \in 0 .. Len(sub)
      BY <1>1, <1>5
    <3> QED
      BY <3>1, RestIs
  <2> HIDE DEF k
  <2>2. t = [left |-> 0, subs |-> Append(s.subs, k)]
    BY <1>1, <1>5 DEF DropStep, k
  <2>3. Append(s.subs, k) \in Seq(Seq(S)) /\ Avail(Append(s.subs, k)) = a \o k
    <3>1. Append(s.subs, k) \in Seq(Seq(S))
      BY <1>1, <2>1
    <3> QED
      BY <1>1, <2>1, <3>1, AvailAppend
  <2>4. t.left = 0 /\ t \in DropState(S) /\ Avail(t.subs) = a \o k
    BY <2>2, <2>3 DEF DropState
  <2> HIDE DEF t
  <2>5. ASSUME Len(w) <= n PROVE Taken(t, v, n)
    <3>1. s.left = n - Len(w) /\ a = <<>>
      BY <2>5 DEF Taken
    <3>2. Len(v) > n /\ n = Len(w) + s.left /\ s.left \in 0 .. Len(sub)
      BY <1>1, <1>2, <1>5, <2>5, <3>1
    <3>3. a \o k = k
      BY <2>1, <3>1
    <3>4. Rest(k, v, n)
      BY <1>2, <2>1, <3>2, RestOfTail
    <3> HIDE DEF a
    <3> QED
      BY <1>1, <1>2, <2>4, <3>2, <3>3, <3>4 DEF Taken
  <2>6. ASSUME Len(w) > n PROVE Taken(t, v, n)
    <3>1. s.left = 0 /\ Rest(a, w, n)
      BY <2>6 DEF Taken
    <3>2. k = sub
      BY <1>1, <3>1 DEF k
    <3>3. Len(v) > n
      BY <1>1, <1>2, <2>6
    <3> HIDE DEF a
    <3>4. Joins(a \o sub, a, sub)
      BY <1>3, JoinsIs
    <3>5. Rest(a \o sub, v, n)
      <4>1. n \in 0 .. Len(w)
        BY <1>1, <2>6
      <4> QED
        BY <1>2, <1>3, <3>1, <3>4, <4>1, RestOfJoin
    <3> QED
      BY <1>1, <1>2, <2>4, <3>2, <3>3, <3>5 DEF Taken
  <2> QED
    BY <1>1, <2>4, <2>5, <2>6
<1> QED
  BY <1>1, <1>4, <1>5 DEF v

(* A step of Consume() on its own.                                          *)
LEMMA DropType ==
    ASSUME NEW S, NEW s \in DropState(S), NEW sub \in Seq(S)
    PROVE  DropStep(s, sub) \in DropState(S)
<1>1. s.left \in Nat /\ s.subs \in Seq(Seq(S)) /\ Len(sub) \in Nat
  BY DEF DropState
<1>2. CASE s.left >= Len(sub)
  BY <1>1, <1>2 DEF DropStep, DropState
<1>3. CASE s.left < Len(sub)
  <2> DEFINE k == SubSeq(sub, s.left + 1, Len(sub))
  <2>1. k \in Seq(S)
    <3>1. s.left \in 0 .. Len(sub)
      BY <1>1, <1>3
    <3> QED
      BY <3>1, RestIs
  <2>2. DropStep(s, sub) = [left |-> 0, subs |-> Append(s.subs, k)]
    BY <1>1, <1>3 DEF DropStep
  <2> HIDE DEF k
  <2>3. Append(s.subs, k) \in Seq(Seq(S))
    BY <1>1, <2>1
  <2> QED
    BY <2>2, <2>3 DEF DropState
<1> QED
  BY <1>1, <1>2, <1>3

(* What Consume() does, sub-buffer by sub-buffer.                           *)
Drops(f, b, n, S) ==
    /\ f \in [0 .. Len(b.subs) -> DropState(S)]
    /\ Consume(b, n) = [b EXCEPT !.subs = f[Len(b.subs)].subs]
    /\ f[0] = [left |-> n, subs |-> <<>>]
    /\ \A i \in 1 .. Len(b.subs) : f[i] = DropStep(f[i - 1], b.subs[i])
(* It is done step by step.                                                 *)
LEMMA ConsumeSteps ==
    ASSUME NEW S, NEW b, b.subs \in Seq(Seq(S)), NEW n \in Nat
    PROVE  \E f : Drops(f, b, n, S)
<1> DEFINE q == b.subs
           N == Len(q)
           a == [left |-> n, subs |-> <<>>]
           D == DropState(S)
           F == [i \in 1 .. N |-> [x \in D |-> DropStep(x, q[i])]]
           P(f) == f = [i \in 0 .. N |-> IF i = 0 THEN a ELSE DropStep(f[i - 1], q[i])]
<1>1. N \in Nat /\ \A i \in 1 .. N : q[i] \in Seq(S)
  OBVIOUS
<1>2. a \in D
  BY DEF DropState
<1>3. F \in [1 .. N -> [D -> D]]
  <2>1. \A i \in 1 .. N : \A x \in D : DropStep(x, q[i]) \in D
    BY <1>1, DropType
  <2> HIDE DEF D, N, q
  <2> QED
    BY <2>1
<1>4. \A i \in 1 .. N : \A x \in D : F[i][x] = DropStep(x, q[i])
  <2> HIDE DEF D, N, q
  <2> QED
    OBVIOUS
<1>5. Consume(b, n) = [b EXCEPT !.subs = (CHOOSE f : P(f))[N].subs]
  BY Zenon DEF Consume
<1> HIDE DEF F, N, q, a, D
<1>6. PICK f \in [0 .. N -> D] : Steps(f, N, a, F)
  BY <1>1, <1>2, <1>3, StepsExist
<1>7. f[0] = a /\ \A i \in 1 .. N : f[i] = DropStep(f[i - 1], q[i])
  <2>1. ASSUME NEW i \in 1 .. N PROVE f[i] = DropStep(f[i - 1], q[i])
    <3>1. f[i - 1] \in D
      BY <1>1
    <3>2. f[i] = F[i][f[i - 1]]
      BY <1>6 DEF Steps
    <3> QED
      BY <1>4, <3>1, <3>2
  <2> QED
    BY <1>6, <2>1 DEF Steps
<1>8. P(f)
  <2>1. f = [i \in 0 .. N |-> f[i]]
    OBVIOUS
  <2>2. ASSUME NEW i \in 0 .. N PROVE f[i] = IF i = 0 THEN a ELSE DropStep(f[i - 1], q[i])
    <3>1. CASE i = 0
      BY <1>7, <3>1
    <3>2. CASE i # 0
      <4>1. i \in 1 .. N
        BY <1>1, <3>2
      <4> QED
        BY <1>7, <3>2, <4>1
    <3> QED
      BY <3>1, <3>2
  <2> QED
    BY <2>1, <2>2, Zenon
<1>9. P(CHOOSE g : P(g))
  BY <1>8, Zenon
<1> DEFINE h == CHOOSE g : P(g)
<1>10. h = [i \in 0 .. N |-> IF i = 0 THEN a ELSE DropStep(h[i - 1], q[i])]
  BY <1>9
<1>11. Consume(b, n) = [b EXCEPT !.subs = h[N].subs]
  BY <1>5
<1> HIDE DEF h
<1>12. ASSUME NEW i \in 0 .. N PROVE h[i] = IF i = 0 THEN a ELSE DropStep(h[i - 1], q[i])
  BY <1>10, Zenon
<1>13. h[0] = a /\ \A i \in 1 .. N : h[i] = DropStep(h[i - 1], q[i])
  <2>1. 0 \in 0 .. N /\ \A i \in 1 .. N : i \in 0 .. N /\ i # 0
    BY <1>1
  <2> QED
    BY <1>12, <2>1
<1>14. h \in [0 .. N -> D]
  <2> DEFINE T == {i \in 0 .. N : h[i] \in D}
  <2>1. 0 \in T
    BY <1>1, <1>2, <1>13
  <2>2. ASSUME NEW i \in T, i < N PROVE i + 1 \in T
    <3>1. i + 1 \in 0 .. N /\ i + 1 \in 1 .. N /\ (i + 1) - 1 = i /\ h[i] \in D
      BY <1>1, <2>2
    <3>2. h[i + 1] = DropStep(h[i], q[i + 1])
      BY <1>13, <3>1
    <3>3. h[i + 1] \in D
      BY <1>1, <3>1, <3>2, DropType DEF D
    <3> QED
      BY <3>1, <3>3
  <2> HIDE DEF T
  <2>3. \A i \in 0 .. N : i \in T
    BY <1>1, <2>1, <2>2, UpTo
  <2>4. \A i \in 0 .. N : h[i] \in D
    BY <2>3 DEF T
  <2> QED
    BY <1>10, <2>4
<1> QED
  BY <1>11, <1>13, <1>14 DEF N, q, a, D, Drops

(* Consume() takes the first n units off the completed sub-buffers.         *)
LEMMA ConsumeRest ==
    ASSUME NEW S, NEW b, b.subs \in Seq(Seq(S)), NEW n \in 0 .. Len(Avail(b.subs))
    PROVE  \E q \in Seq(Seq(S)) : /\ Consume(b, n) = [b EXCEPT !.subs = q]
                                  /\ Rest(Avail(q), Avail(b.subs), n)
<1> DEFINE p == b.subs
           N == Len(p)
<1>1. p \in Seq(Seq(S)) /\ n \in 0 .. Len(Avail(p))
  OBVIOUS
<1>2. n \in Nat
  OBVIOUS
<1>3. \E f : Drops(f, b, n, S)
  BY <1>2, ConsumeSteps
<1>4. \A f : Drops(f, b, n, S) =>
             /\ f \in [0 .. N -> DropState(S)]
             /\ Consume(b, n) = [b EXCEPT !.subs = f[N].subs]
             /\ f[0] = [left |-> n, subs |-> <<>>]
             /\ \A i \in 1 .. N : f[i] = DropStep(f[i - 1], p[i])
  BY Zenon DEF Drops
<1> HIDE DEF p
<1>5. N \in Nat /\ Avail(p) \in Seq(S) /\ n \in Nat
  <2>1. <<>> \in Seq(S)
    OBVIOUS
  <2>2. Avail(p) \in Seq(S)
    BY <1>1, <2>1, AvailAppend, Zenon
  <2> QED
    BY <1>1, <2>2
<1>6. PICK f \in [0 .. N -> DropState(S)] :
             /\ Consume(b, n) = [b EXCEPT !.subs = f[N].subs]
             /\ f[0] = [left |-> n, subs |-> <<>>]
             /\ \A i \in 1 .. N : f[i] = DropStep(f[i - 1], p[i])
  BY <1>3, <1>4
<1>7. PICK g \in [0 .. N -> Seq(S)] :
             /\ Avail(p) = g[N] /\ g[0] = <<>>
             /\ \A i \in 1 .. N : g[i] = g[i - 1] \o p[i]
  BY <1>1, AvailSteps, Zenon
<1>8. \A i \in 1 .. N : p[i] \in Seq(S)
  BY <1>1
<1> HIDE DEF N
<1> DEFINE T == {i \in 0 .. N : Taken(f[i], g[i], n)}
<1>9. 0 \in T
  <2>1. Len(g[0]) = 0 /\ f[0].left = n /\ f[0].subs = <<>>
    BY <1>6, <1>7
  <2>2. Avail(f[0].subs) = <<>>
    BY <2>1, AvailNone
  <2>3. Taken(f[0], g[0], n)
    BY <1>5, <2>1, <2>2 DEF Taken
  <2> QED
    BY <1>5, <2>3
<1>10. ASSUME NEW i \in T, i < N PROVE i + 1 \in T
  <2>1. i + 1 \in 0 .. N /\ i + 1 \in 1 .. N /\ (i + 1) - 1 = i /\ i \in 0 .. N
    BY <1>5, <1>10
  <2>2. Taken(f[i], g[i], n) /\ f[i] \in DropState(S) /\ g[i] \in Seq(S)
    BY <2>1
  <2>3. f[i + 1] = DropStep(f[i], p[i + 1]) /\ g[i + 1] = g[i] \o p[i + 1]
    BY <1>6, <1>7, <2>1
  <2>4. p[i + 1] \in Seq(S)
    BY <1>8, <2>1
  <2>5. Taken(f[i + 1], g[i + 1], n)
    BY <1>5, <2>2, <2>3, <2>4, DropRest
  <2> QED
    BY <2>1, <2>5
<1> HIDE DEF T
<1>11. \A i \in 0 .. N : i \in T
  BY <1>5, <1>9, <1>10, UpTo
<1>12. Taken(f[N], g[N], n) /\ f[N] \in DropState(S)
  <2>1. N \in T /\ N \in 0 .. N
    BY <1>5, <1>11
  <2> QED
    BY <2>1 DEF T
<1> DEFINE q == f[N].subs
<1>13. q \in Seq(Seq(S))
  BY <1>12 DEF DropState
<1>14. Rest(Avail(q), Avail(p), n)
  <2> DEFINE w == Avail(p)
  <2>1. Len(w) \in Nat /\ w = g[N]
    BY <1>5, <1>7
  <2> HIDE DEF w
  <2>2. CASE Len(w) <= n
    <3>1. Len(w) = n /\ Avail(q) = <<>>
      BY <1>5, <1>1, <1>12, <2>1, <2>2 DEF Taken, w
    <3> HIDE DEF q
    <3> QED
      BY <1>5, <3>1 DEF Rest, w
  <2>3. CASE Len(w) > n
    BY <1>5, <1>12, <2>1, <2>3 DEF Taken, w
  <2> QED
    BY <1>5, <2>1, <2>2, <2>3
<1> QED
  BY <1>6, <1>13, <1>14 DEF p

-----------------------------------------------------------------------------
(* The relay buffer as one sequence of units.                               *)

Piece == [m : Nat, at : Nat]
Buffer == [subs : Seq(Seq(Piece)), cur : Seq(Piece), full : BOOLEAN]
Buffers == {b \in Buffer : b.full => b.cur = <<>>}
Flat(b) == Avail(b.subs) \o b.cur

(* What a buffer consists of.                                               *)
LEMMA FlatType ==
    ASSUME NEW b \in Buffers
    PROVE  /\ b.subs \in Seq(Seq(Piece)) /\ b.cur \in Seq(Piece) /\ b.full \in BOOLEAN
           /\ Avail(b.subs) \in Seq(Piece) /\ Flat(b) \in Seq(Piece)
           /\ b.cur = <<>> => Flat(b) = Avail(b.subs)
           /\ b.full => b.cur = <<>>
<1>1. b.subs \in Seq(Seq(Piece)) /\ b.cur \in Seq(Piece) /\ b.full \in BOOLEAN
  BY DEF Buffers, Buffer
<1>2. b.full => b.cur = <<>>
  BY DEF Buffers
<1> DEFINE q == b.subs
           x == b.cur
           a == Avail(q)
<1>3. q \in Seq(Seq(Piece)) /\ x \in Seq(Piece)
  BY <1>1
<1> HIDE DEF q, x
<1>4. a \in Seq(Piece)
  BY <1>3, AvailAppend
<1> HIDE DEF a
<1>5. a \o x \in Seq(Piece) /\ (x = <<>> => a \o x = a)
  BY <1>3, <1>4
<1> QED
  BY <1>1, <1>2, <1>4, <1>5 DEF a, x, q, Flat

(* __stp_relay_switch_subbuf leaves the data in order.                       *)
LEMMA SwitchFlat ==
    ASSUME NEW b \in Buffers
    PROVE  /\ switch_subbuf(b) \in Buffers /\ switch_subbuf(b).cur = <<>>
           /\ Flat(switch_subbuf(b)) = Flat(b)
<1> DEFINE t == switch_subbuf(b)
           q == b.subs
           x == b.cur
           done == IF b.full THEN q ELSE Append(q, x)
<1>1. q \in Seq(Seq(Piece)) /\ x \in Seq(Piece) /\ b.full \in BOOLEAN /\ (b.full => x = <<>>)
  BY FlatType
<1>2. t = [subs |-> done, cur |-> <<>>, full |-> Len(done) >= NSubbufs]
  BY DEF switch_subbuf
<1> HIDE DEF q, x, t
<1>3. done \in Seq(Seq(Piece))
  BY <1>1
<1>4. Avail(done) = Avail(q) \o x
  <2>1. CASE b.full
    <3>1. Avail(q) \in Seq(Piece)
      BY <1>1, AvailAppend
    <3>2. Avail(q) \o <<>> = Avail(q)
      <4> DEFINE a == Avail(q)
      <4> HIDE DEF a
      <4>1. a \in Seq(Piece) => a \o <<>> = a
        OBVIOUS
      <4> QED
        BY <3>1, <4>1 DEF a
    <3> QED
      BY <1>1, <2>1, <3>2
  <2>2. CASE ~b.full
    BY <1>1, <2>2, AvailAppend
  <2> QED
    BY <2>1, <2>2
<1> HIDE DEF done
<1>5. t.subs = done /\ t.cur = <<>> /\ t.full = (Len(done) >= NSubbufs)
  BY <1>2
<1>6. t \in Buffers
  <2>2. t \in Buffer
    BY <1>2, <1>3 DEF Buffer
  <2> QED
    BY <1>5, <2>2 DEF Buffers
<1>7. Flat(t) = Avail(done)
  BY <1>5, <1>6, FlatType
<1> QED
  BY <1>4, <1>5, <1>6, <1>7 DEF Flat, t, q, x

(* A read(2) finds all data in completed sub-buffers.                       *)
LEMMA SwitchOutFlat ==
    ASSUME NEW b \in Buffers
    PROVE  /\ SwitchOut(b) \in Buffers /\ SwitchOut(b).cur = <<>>
           /\ Avail(SwitchOut(b).subs) = Flat(b)
<1> DEFINE t == SwitchOut(b)
<1>1. b.full \in BOOLEAN
  BY FlatType
<1>2. t \in Buffers /\ t.cur = <<>> /\ Flat(t) = Flat(b)
  <2>1. CASE b.full \/ b.cur # <<>>
    BY <2>1, SwitchFlat DEF SwitchOut
  <2>2. CASE ~(b.full \/ b.cur # <<>>)
    BY <2>2 DEF SwitchOut
  <2> QED
    BY <2>1, <2>2
<1> HIDE DEF t
<1>3. Flat(t) = Avail(t.subs)
  BY <1>2, FlatType
<1> QED
  BY <1>2, <1>3 DEF t

(* _stp_data_write_reserve leaves the data in order, and there is room for
   what it reserves.                                                        *)
LEMMA ReserveFlat ==
    ASSUME NEW b \in Buffers, NEW n \in Nat
    PROVE  LET r == write_reserve(b, n)
           IN  /\ r.buf \in Buffers /\ Flat(r.buf) = Flat(b)
               /\ r.k \in 0 .. n
               /\ r.k > 0 => ~ r.buf.full
<1> DEFINE r == write_reserve(b, n)
           sw == switch_subbuf(b)
<1>1. SubbufSize \in Nat
  BY RelayAssumption
<1>2. b.full \in BOOLEAN /\ b.cur \in Seq(Piece) /\ Len(b.cur) \in Nat
  BY FlatType
<1>3. sw \in Buffers /\ Flat(sw) = Flat(b) /\ sw.full \in BOOLEAN
  BY SwitchFlat, FlatType
<1>4. CASE b.full \/ Len(b.cur) >= SubbufSize
  <2> HIDE DEF sw
  <2>1. r.buf = sw /\ r.k = IF sw.full THEN 0 ELSE IF n > SubbufSize THEN SubbufSize ELSE n
    BY <1>4 DEF write_reserve, sw
  <2> HIDE DEF r
  <2>2. r.k \in 0 .. n /\ (r.k > 0 => ~ sw.full)
    BY <1>1, <1>3, <2>1
  <2> QED
    BY <1>3, <2>1, <2>2 DEF r
<1>5. CASE ~(b.full \/ Len(b.cur) >= SubbufSize)
  <2>1. r.buf = b /\ r.k = IF Len(b.cur) + n > SubbufSize THEN SubbufSize - Len(b.cur) ELSE n
    BY <1>5 DEF write_reserve
  <2> HIDE DEF r
  <2>2. r.k \in 0 .. n
    BY <1>1, <1>2, <1>5, <2>1
  <2> QED
    BY <1>5, <2>1, <2>2 DEF r
<1> QED
  BY <1>4, <1>5

(* Data are copied behind those that are there.                             *)
LEMMA FillFlat ==
    ASSUME NEW b \in Buffers, NEW y \in Seq(Piece), ~ b.full \/ y = <<>>
    PROVE  Fill(b, y) \in Buffers /\ Joins(Flat(Fill(b, y)), Flat(b), y)
<1> DEFINE t == Fill(b, y)
           x == b.cur
           a == Avail(b.subs)
<1>1. /\ b.subs \in Seq(Seq(Piece)) /\ x \in Seq(Piece) /\ b.full \in BOOLEAN
      /\ a \in Seq(Piece) /\ (b.full => x = <<>>)
  BY FlatType
<1>2. t.subs = b.subs /\ t.cur = x \o y /\ t.full = b.full
  BY DEF Fill, Buffers, Buffer
<1>3. x \o y \in Seq(Piece) /\ (b.full => x \o y = <<>>)
  <2> HIDE DEF x
  <2> QED
    BY <1>1
<1>4. t \in Buffer
  <2> HIDE DEF x
  <2>1. t = [b EXCEPT !.cur = x \o y]
    BY DEF Fill, x
  <2>2. b \in Buffer
    BY DEF Buffers
  <2> HIDE DEF t
  <2> QED
    BY <1>3, <2>1, <2>2 DEF Buffer
<1>5. t \in Buffers
  <2> HIDE DEF t, x
  <2> QED
    BY <1>2, <1>3, <1>4 DEF Buffers
<1>6. Joins(a \o (x \o y), a \o x, y)
  <2> HIDE DEF a, x
  <2> QED
    BY <1>1 DEF Joins
<1>7. Flat(t) = a \o (x \o y) /\ Flat(b) = a \o x
  BY <1>2 DEF Flat
<1> QED
  BY <1>5, <1>6, <1>7

(* The units of a message, its header first.                                *)
LEMMA UnitsAre ==
    ASSUME NEW m \in Nat, NEW from \in Nat, NEW to \in Int, to >= from - 1
    PROVE  LET x == Units(m, from, to)
           IN  /\ x \in Seq(Piece) /\ Len(x) = to - from + 1
               /\ \A j \in 1 .. Len(x) : x[j].m = m /\ x[j].at = from + j - 1
<1> DEFINE n == to - from + 1
           x == Units(m, from, to)
<1>1. n \in Nat
  OBVIOUS
<1>2. x = [j \in 1 .. n |-> IF from + j - 1 = 0 THEN Header(m) ELSE Text(m, from + j - 1)]
  BY DEF Units
<1> HIDE DEF n, x
<1>3. ASSUME NEW j \in 1 .. n
      PROVE  x[j] \in Piece /\ x[j].m = m /\ x[j].at = from + j - 1
  <2>1. from + j - 1 \in Nat
    BY <1>1
  <2>2. x[j] = IF from + j - 1 = 0 THEN Header(m) ELSE Text(m, from + j - 1)
    BY <1>2
  <2>3. x[j] = [m |-> m, at |-> from + j - 1]
    BY <2>1, <2>2 DEF Header, Text
  <2> QED
    BY <2>1, <2>3 DEF Piece
<1>4. x \in Seq(Piece) /\ Len(x) = n
  <2>1. x \in [1 .. n -> Piece]
    BY <1>2, <1>3
  <2> QED
    BY <1>1, <2>1
<1> QED
  BY <1>3, <1>4 DEF n, x

(* h is g with units behind it that are text.                               *)
TextOnly(h, g) ==
    /\ Len(h) \in Nat /\ Len(g) \in Nat /\ Len(g) <= Len(h)
    /\ \A i \in 1 .. Len(g) : h[i] = g[i]
    /\ \A i \in 1 .. Len(h) : i > Len(g) => h[i].at # 0

(* Text is added in one or in several parts.                                *)
LEMMA TextOnlyTwice ==
    ASSUME NEW f, NEW g, NEW h, TextOnly(h, g), TextOnly(g, f)
    PROVE  TextOnly(h, f)
<1>1. Len(f) \in Nat /\ Len(g) \in Nat /\ Len(h) \in Nat /\ Len(f) <= Len(g) /\ Len(g) <= Len(h)
  BY DEF TextOnly
<1>2. ASSUME NEW i \in 1 .. Len(h), i > Len(f) PROVE h[i].at # 0
  <2>1. CASE i <= Len(g)
    <3>1. i \in 1 .. Len(g)
      BY <1>1, <2>1
    <3>2. h[i] = g[i] /\ g[i].at # 0
      BY <1>2, <3>1 DEF TextOnly
    <3> QED
      BY <3>2
  <2>2. CASE i > Len(g)
    BY <2>2 DEF TextOnly
  <2> QED
    BY <1>1, <2>1, <2>2
<1>3. ASSUME NEW i \in 1 .. Len(f) PROVE h[i] = f[i]
  <2>1. i \in 1 .. Len(g)
    BY <1>1
  <2> QED
    BY <2>1 DEF TextOnly
<1> QED
  BY <1>1, <1>2, <1>3 DEF TextOnly

(* Where the copying loop of __stp_print_flush is.                          *)
CopyState == [buf : Buffers, next : Nat \ {0}, failed : BOOLEAN]

(* A round of it adds text behind what is in the buffer.                    *)
LEMMA CopyStepAdds ==
    ASSUME NEW s \in CopyState, NEW m \in Nat, NEW len \in Nat
    PROVE  /\ CopyStep(s, m, len) \in CopyState
           /\ TextOnly(Flat(CopyStep(s, m, len).buf), Flat(s.buf))
<1> DEFINE t == CopyStep(s, m, len)
           b == s.buf
           r == write_reserve(b, len - s.next + 1)
<1>1. b \in Buffers /\ s.next \in Nat \ {0} /\ s.failed \in BOOLEAN
  BY DEF CopyState
<1>2. \A c \in Buffers : TextOnly(Flat(c), Flat(c))
  <2>1. ASSUME NEW c \in Buffers PROVE TextOnly(Flat(c), Flat(c))
    <3>1. Flat(c) \in Seq(Piece)
      BY FlatType
    <3>2. Len(Flat(c)) \in Nat
      BY <3>1
    <3> QED
      BY <3>2 DEF TextOnly
  <2> QED
    BY <2>1
<1>3. CASE s.failed \/ s.next > len
  <2>1. t = s
    BY <1>3 DEF CopyStep
  <2> QED
    BY <1>1, <1>2, <2>1
<1>4. ASSUME ~(s.failed \/ s.next > len)
      PROVE  t \in CopyState /\ TextOnly(Flat(t.buf), Flat(b))
  <2>1. len - s.next + 1 \in Nat
    BY <1>1, <1>4
  <2>2. /\ r.buf \in Buffers /\ Flat(r.buf) = Flat(b) /\ r.k \in 0 .. (len - s.next + 1)
        /\ r.k > 0 => ~ r.buf.full
    BY <1>1, <2>1, ReserveFlat
  <2>3. t = IF r.k = 0 THEN [buf |-> r.buf, next |-> s.next, failed |-> TRUE]
            ELSE [buf |-> Fill(r.buf, Units(m, s.next, s.next + r.k - 1)),
                  next |-> s.next + r.k, failed |-> FALSE]
    BY <1>4 DEF CopyStep
  <2> HIDE DEF r, t, b
  <2>4. CASE r.k = 0
    <3>1. t = [buf |-> r.buf, next |-> s.next, failed |-> TRUE]
      BY <2>3, <2>4
    <3>2. t \in CopyState /\ t.buf = r.buf
      BY <1>1, <2>2, <3>1 DEF CopyState
    <3> QED
      BY <1>2, <2>2, <3>2
  <2>5. CASE r.k # 0
    <3> DEFINE x == Units(m, s.next, s.next + r.k - 1)
               c == Fill(r.buf, x)
    <3>1. r.k \in Nat /\ r.k > 0 /\ ~ r.buf.full /\ s.next \in Nat /\ s.next + r.k - 1 \in Int
      BY <1>1, <2>1, <2>2, <2>5
    <3>2. /\ x \in Seq(Piece)
          /\ \A j \in 1 .. Len(x) : x[j].at = s.next + j - 1
      <4> DEFINE from == s.next
                 to == s.next + r.k - 1
      <4>1. from \in Nat /\ to \in Int /\ to >= from - 1
        BY <3>1
      <4> HIDE DEF from, to
      <4>2. /\ Units(m, from, to) \in Seq(Piece)
            /\ Len(Units(m, from, to)) = to - from + 1
            /\ \A j \in 1 .. Len(Units(m, from, to)) :
                 /\ Units(m, from, to)[j].m = m
                 /\ Units(m, from, to)[j].at = from + j - 1
        BY <4>1, UnitsAre, Zenon
      <4> QED
        BY <4>2, Zenon DEF from, to
    <3>3. t = [buf |-> c, next |-> s.next + r.k, failed |-> FALSE]
      BY <2>3, <2>5
    <3> HIDE DEF x
    <3>4. c \in Buffers /\ Joins(Flat(c), Flat(r.buf), x)
      BY <2>2, <3>1, <3>2, FillFlat
    <3> HIDE DEF c
    <3>5. t \in CopyState /\ t.buf = c
      BY <1>1, <3>1, <3>3, <3>4 DEF CopyState
    <3>6. TextOnly(Flat(c), Flat(b))
      <4> DEFINE h == Flat(c)
                 g == Flat(b)
      <4>1. h \in Seq(Piece) /\ g \in Seq(Piece) /\ Joins(h, g, x)
        BY <1>1, <2>2, <3>4, FlatType DEF b
      <4> HIDE DEF h, g
      <4>2. Len(h) \in Nat /\ Len(g) \in Nat /\ Len(x) \in Nat /\ Len(h) = Len(g) + Len(x)
        BY <3>2, <4>1 DEF Joins
      <4>3. ASSUME NEW i \in 1 .. Len(h), i > Len(g) PROVE h[i].at # 0
        <5> DEFINE j == i - Len(g)
        <5>1. j \in 1 .. Len(x) /\ i = Len(g) + j
          BY <4>2, <4>3
        <5> HIDE DEF j
        <5>2. h[i] = x[j] /\ x[j].at = s.next + j - 1
          BY <3>2, <4>1, <5>1 DEF Joins
        <5> QED
          BY <1>1, <5>1, <5>2
      <4>4. TextOnly(h, g)
        BY <4>1, <4>2, <4>3 DEF TextOnly, Joins
      <4> QED
        BY <4>4 DEF h, g
    <3> QED
      BY <3>5, <3>6
  <2> QED
    BY <2>4, <2>5
<1> QED
  BY <1>3, <1>4

(* What CopyRest() does, round by round.                                    *)
Copies(f, st, m, len) ==
    /\ CopyRest(st, m, len) = f[len]
    /\ f[0] = st
    /\ \A i \in 1 .. len : f[i] = CopyStep(f[i - 1], m, len)

(* It is done round by round.                                               *)
LEMMA CopySteps ==
    ASSUME NEW st \in CopyState, NEW m \in Nat, NEW len \in Nat
    PROVE  \E f : Copies(f, st, m, len)
<1> DEFINE F == [i \in 1 .. len |-> [x \in CopyState |-> CopyStep(x, m, len)]]
           P(f) == f = [i \in 0 .. len |-> IF i = 0 THEN st ELSE CopyStep(f[i - 1], m, len)]
<1>1. F \in [1 .. len -> [CopyState -> CopyState]]
  <2>1. \A x \in CopyState : CopyStep(x, m, len) \in CopyState
    BY CopyStepAdds
  <2> QED
    BY <2>1
<1>2. \A i \in 1 .. len : \A x \in CopyState : F[i][x] = CopyStep(x, m, len)
  OBVIOUS
<1>3. CopyRest(st, m, len) = (CHOOSE f : P(f))[len]
  BY Zenon DEF CopyRest
<1> HIDE DEF F
<1>4. PICK f \in [0 .. len -> CopyState] : Steps(f, len, st, F)
  BY <1>1, StepsExist
<1>5. f[0] = st /\ \A i \in 1 .. len : f[i] = CopyStep(f[i - 1], m, len)
  <2>1. ASSUME NEW i \in 1 .. len PROVE f[i] = CopyStep(f[i - 1], m, len)
    <3>1. f[i - 1] \in CopyState
      OBVIOUS
    <3>2. f[i] = F[i][f[i - 1]]
      BY <1>4 DEF Steps
    <3> QED
      BY <1>2, <3>1, <3>2
  <2> QED
    BY <1>4, <2>1 DEF Steps
<1>6. P(f)
  <2>1. f = [i \in 0 .. len |-> f[i]]
    OBVIOUS
  <2>2. ASSUME NEW i \in 0 .. len
        PROVE  f[i] = IF i = 0 THEN st ELSE CopyStep(f[i - 1], m, len)
    <3>1. CASE i = 0
      BY <1>5, <3>1
    <3>2. CASE i # 0
      <4>1. i \in 1 .. len
        BY <3>2
      <4> QED
        BY <1>5, <3>2, <4>1
    <3> QED
      BY <3>1, <3>2
  <2> QED
    BY <2>1, <2>2, Zenon
<1>7. P(CHOOSE g : P(g))
  BY <1>6, Zenon
<1> DEFINE h == CHOOSE g : P(g)
<1>8. h = [i \in 0 .. len |-> IF i = 0 THEN st ELSE CopyStep(h[i - 1], m, len)]
  BY <1>7
<1>9. CopyRest(st, m, len) = h[len]
  BY <1>3
<1> HIDE DEF h
<1>10. ASSUME NEW i \in 0 .. len
       PROVE  h[i] = IF i = 0 THEN st ELSE CopyStep(h[i - 1], m, len)
  BY <1>8, Zenon
<1>11. h[0] = st /\ \A i \in 1 .. len : h[i] = CopyStep(h[i - 1], m, len)
  <2>1. 0 \in 0 .. len /\ \A i \in 1 .. len : i \in 0 .. len /\ i # 0
    OBVIOUS
  <2> QED
    BY <1>10, <2>1
<1> QED
  BY <1>9, <1>11 DEF Copies

(* The loop adds text behind what is in the buffer.                         *)
LEMMA CopyRestAdds ==
    ASSUME NEW st \in CopyState, NEW m \in Nat, NEW len \in Nat
    PROVE  /\ CopyRest(st, m, len) \in CopyState
           /\ TextOnly(Flat(CopyRest(st, m, len).buf), Flat(st.buf))
<1>1. PICK f : Copies(f, st, m, len)
  BY CopySteps
<1> DEFINE T == {i \in 0 .. len : f[i] \in CopyState /\ TextOnly(Flat(f[i].buf), Flat(st.buf))}
<1>2. 0 \in T
  <2>1. f[0] = st /\ 0 \in 0 .. len
    BY <1>1 DEF Copies
  <2>2. Flat(st.buf) \in Seq(Piece)
    BY FlatType DEF CopyState
  <2>3. Len(Flat(st.buf)) \in Nat
    BY <2>2
  <2>4. TextOnly(Flat(st.buf), Flat(st.buf))
    BY <2>3 DEF TextOnly
  <2> QED
    BY <2>1, <2>4
<1>3. ASSUME NEW i \in T, i < len PROVE i + 1 \in T
  <2>1. i + 1 \in 0 .. len /\ i + 1 \in 1 .. len /\ (i + 1) - 1 = i
    BY <1>3
  <2>2. f[i + 1] = CopyStep(f[i], m, len)
    BY <1>1, <2>1 DEF Copies
  <2>3. f[i] \in CopyState /\ TextOnly(Flat(f[i].buf), Flat(st.buf))
    OBVIOUS
  <2>4. f[i + 1] \in CopyState /\ TextOnly(Flat(f[i + 1].buf), Flat(f[i].buf))
    BY <2>2, <2>3, CopyStepAdds
  <2>5. TextOnly(Flat(f[i + 1].buf), Flat(st.buf))
    BY <2>3, <2>4, TextOnlyTwice
  <2> QED
    BY <2>1, <2>4, <2>5
<1> HIDE DEF T
<1>4. \A i \in 0 .. len : i \in T
  BY <1>2, <1>3, UpTo
<1>5. len \in T
  BY <1>4
<1> QED
  BY <1>1, <1>5 DEF T, Copies

-----------------------------------------------------------------------------
(* The headers in a sequence of units: the numbers they have, and that no
   two of them have the same.                                               *)
Heads(h) == {h[i].m : i \in {j \in 1 .. Len(h) : h[j].at = 0}}
Once(h) == \A i, j \in 1 .. Len(h) : h[i].at = 0 /\ h[j].at = 0 /\ h[i].m = h[j].m => i = j

(* There are no headers in an empty buffer.                                 *)
LEMMA HeadsNone == Heads(<<>>) = {} /\ Once(<<>>)
BY DEF Heads, Once

(* Text leaves the headers as they are.                                     *)
LEMMA HeadsText ==
    ASSUME NEW h, NEW g, TextOnly(h, g), Once(g)
    PROVE  Heads(h) = Heads(g) /\ Once(h)
<1>1. Len(h) \in Nat /\ Len(g) \in Nat /\ Len(g) <= Len(h)
  BY DEF TextOnly
<1>2. ASSUME NEW i \in 1 .. Len(h), h[i].at = 0 PROVE i \in 1 .. Len(g) /\ h[i] = g[i]
  BY <1>1, <1>2 DEF TextOnly
<1>3. ASSUME NEW i \in 1 .. Len(g) PROVE i \in 1 .. Len(h) /\ h[i] = g[i]
  BY <1>1 DEF TextOnly
<1>4. Heads(h) = Heads(g)
  BY <1>2, <1>3, Zenon DEF Heads
<1>5. Once(h)
  BY <1>2 DEF Once
<1> QED
  BY <1>4, <1>5

(* A message that is copied behind the others, with its text or a part of it. *)
LEMMA HeadsMessage ==
    ASSUME NEW g, NEW x, NEW h, NEW m, Joins(h, g, x), Len(g) \in Nat, Len(x) \in Nat,
           x[1].at = 0, x[1].m = m, Len(x) > 0,
           \A j \in 1 .. Len(x) : j > 1 => x[j].at # 0,
           Once(g), m \notin Heads(g)
    PROVE  Heads(h) = Heads(g) \cup {m} /\ Once(h)
<1> DEFINE k == Len(g) + 1
<1>1. Len(h) = Len(g) + Len(x)
  BY DEF Joins
<1>2. k \in 1 .. Len(h) /\ h[k].at = 0 /\ h[k].m = m
  <2>1. 1 \in 1 .. Len(x)
    OBVIOUS
  <2>2. h[Len(g) + 1] = x[1]
    BY <2>1 DEF Joins
  <2> QED
    BY <1>1, <2>2
<1>3. ASSUME NEW i \in 1 .. Len(g) PROVE i \in 1 .. Len(h) /\ h[i] = g[i]
  BY <1>1 DEF Joins
<1>4. ASSUME NEW i \in 1 .. Len(h), h[i].at = 0, i # k PROVE i \in 1 .. Len(g) /\ h[i] = g[i]
  <2>1. CASE i <= Len(g)
    BY <1>1, <2>1 DEF Joins
  <2>2. CASE i > Len(g)
    <3> DEFINE j == i - Len(g)
    <3>1. j \in 1 .. Len(x) /\ i = Len(g) + j /\ j > 1
      BY <1>1, <1>4, <2>2
    <3> HIDE DEF j
    <3>2. h[i] = x[j]
      BY <3>1 DEF Joins
    <3> QED
      BY <1>4, <3>1, <3>2
  <2> QED
    BY <2>1, <2>2
<1> HIDE DEF k
<1>5. Heads(h) = Heads(g) \cup {m}
  <2>1. ASSUME NEW v \in Heads(h) PROVE v \in Heads(g) \cup {m}
    <3>1. PICK i \in 1 .. Len(h) : h[i].at = 0 /\ v = h[i].m
      BY DEF Heads
    <3>2. CASE i = k
      BY <1>2, <3>1, <3>2
    <3>3. CASE i # k
      <4>1. i \in 1 .. Len(g) /\ h[i] = g[i]
        BY <1>4, <3>1, <3>3
      <4> QED
        BY <3>1, <4>1 DEF Heads
    <3> QED
      BY <3>2, <3>3
  <2>2. m \in Heads(h)
    BY <1>2 DEF Heads
  <2>3. ASSUME NEW v \in Heads(g) PROVE v \in Heads(h)
    <3>1. PICK i \in 1 .. Len(g) : g[i].at = 0 /\ v = g[i].m
      BY DEF Heads
    <3>2. i \in 1 .. Len(h) /\ h[i] = g[i]
      BY <1>3
    <3> QED
      BY <3>1, <3>2 DEF Heads
  <2> QED
    BY <2>1, <2>2, <2>3
<1>6. ASSUME NEW i \in 1 .. Len(g), g[i].at = 0 PROVE g[i].m # m
  BY <1>6 DEF Heads
<1>7. ASSUME NEW i \in 1 .. Len(h), NEW j \in 1 .. Len(h),
             h[i].at = 0, h[j].at = 0, h[i].m = h[j].m
      PROVE  i = j
  <2>1. CASE i = k /\ j = k
    BY <2>1
  <2>2. CASE i = k /\ j # k
    <3>1. j \in 1 .. Len(g) /\ h[j] = g[j]
      BY <1>4, <1>7, <2>2
    <3> QED
      BY <1>2, <1>6, <1>7, <2>2, <3>1
  <2>3. CASE i # k /\ j = k
    <3>1. i \in 1 .. Len(g) /\ h[i] = g[i]
      BY <1>4, <1>7, <2>3
    <3> QED
      BY <1>2, <1>6, <1>7, <2>3, <3>1
  <2>4. CASE i # k /\ j # k
    <3>1. i \in 1 .. Len(g) /\ h[i] = g[i] /\ j \in 1 .. Len(g) /\ h[j] = g[j]
      BY <1>4, <1>7, <2>4
    <3> QED
      BY <1>7, <3>1 DEF Once
  <2> QED
    BY <2>1, <2>2, <2>3, <2>4
<1>8. Once(h)
  BY <1>7 DEF Once
<1> QED
  BY <1>5, <1>8

(* A read takes headers away; the one it read is not there any more.        *)
LEMMA HeadsRest ==
    ASSUME NEW h, NEW g, NEW n \in Nat, n <= Len(g), Len(g) \in Nat, Rest(h, g, n), Once(g)
    PROVE  /\ Heads(h) \subseteq Heads(g) /\ Once(h)
           /\ n > 0 /\ g[1].at = 0 => g[1].m \in Heads(g) /\ g[1].m \notin Heads(h)
<1>1. ASSUME NEW i \in 1 .. Len(h) PROVE i + n \in 1 .. Len(g) /\ h[i] = g[i + n]
  BY DEF Rest
<1>2. Heads(h) \subseteq Heads(g)
  <2>1. ASSUME NEW v \in Heads(h) PROVE v \in Heads(g)
    <3>1. PICK i \in 1 .. Len(h) : h[i].at = 0 /\ v = h[i].m
      BY DEF Heads
    <3> DEFINE k == i + n
    <3>2. k \in 1 .. Len(g) /\ g[k].at = 0 /\ v = g[k].m
      BY <1>1, <3>1
    <3> HIDE DEF k
    <3> QED
      BY <3>2 DEF Heads
  <2> QED
    BY <2>1
<1>3. Once(h)
  <2>1. ASSUME NEW i \in 1 .. Len(h), NEW j \in 1 .. Len(h),
               h[i].at = 0, h[j].at = 0, h[i].m = h[j].m
        PROVE  i = j
    <3>1. /\ i + n \in 1 .. Len(g) /\ h[i] = g[i + n]
          /\ j + n \in 1 .. Len(g) /\ h[j] = g[j + n]
      BY <1>1
    <3>2. i + n = j + n
      BY <2>1, <3>1 DEF Once
    <3> QED
      BY <3>2
  <2> QED
    BY <2>1 DEF Once
<1>4. ASSUME n > 0, g[1].at = 0 PROVE g[1].m \in Heads(g) /\ g[1].m \notin Heads(h)
  <2>1. 1 \in 1 .. Len(g)
    BY <1>4
  <2>2. g[1].m \in Heads(g)
    BY <1>4, <2>1 DEF Heads
  <2>3. ASSUME g[1].m \in Heads(h) PROVE FALSE
    <3>1. PICK i \in 1 .. Len(h) : h[i].at = 0 /\ g[1].m = h[i].m
      BY <2>3 DEF Heads
    <3>2. i + n \in 1 .. Len(g) /\ h[i] = g[i + n] /\ i + n # 1
      BY <1>1, <1>4
    <3> QED
      BY <1>4, <2>1, <3>1, <3>2 DEF Once
  <2> QED
    BY <2>2, <2>3
<1> QED
  BY <1>2, <1>3, <1>4

-----------------------------------------------------------------------------
(* The invariant.                                                           *)

Entry == [seq : Nat, text : Seq(Piece)]
ReaderPcs == {"poll", "asleep", "handler", "eintr", "hdr", "drain", "body", "wait", "close", "open",
              "write", "update", "done", "dead"}
ReaderState == [pc : ReaderPcs, hdr : [seq : Nat, len : Nat], got : Seq(Piece), rc : Nat,
                sig : BOOLEAN, fnum : Nat, to : {"hdr", "write"}]

(* The types that the order of the output depends on.                       *)
ShapeInv ==
  /\ rb \in [Cpus -> Buffers]
  /\ thr \in [Cpus -> ReaderState]
  /\ pdu \in Seq(Nat) /\ Len(pdu) <= inputs /\ inputs \in 0 .. MaxInputs
  /\ last \in Nat /\ late \in BOOLEAN /\ misread \in BOOLEAN
  /\ log \in Seq(Entry)
  /\ switch_file \in [Cpus -> BOOLEAN] /\ stop_threads \in BOOLEAN

(* What a reader is about to write it has read, it reads no more than the
   header says, it waits only with a header in its hands (or with what it took
   for one), and only between close and open is it to go on with a write.    *)
Ready(t) == t.pc = "wait" \/ t.pc = "write" \/ t.to = "write"
TextInv == \A c \in Cpus :
  /\ Ready(thr[c]) => thr[c].rc <= Len(thr[c].got)
  /\ At(c, "body") => Len(thr[c].got) <= thr[c].hdr.len
  /\ At(c, "body") \/ At(c, "wait") => misread \/ thr[c].hdr.seq # 0
  /\ thr[c].to = "hdr" \/ At(c, "close") \/ At(c, "open")

(* The message whose header reader c has; 0 is none.  Once something else was
   taken for a header, nothing is said of what the readers have.            *)
Seqno(c) == IF misread THEN 0 ELSE thr[c].hdr.seq

(* Nobody answers for the order any more: a reader gave up waiting, or took
   something else for a header.                                             *)
Astray == late \/ misread

(* A header is in one place only: once in one buffer, or with one reader.   *)
PlaceInv ==
  /\ \A c \in Cpus : Once(Held(c)) /\ Heads(Held(c)) \subseteq Message
  /\ \A c \in Cpus : Seqno(c) \in {0} \cup Message
  /\ \A c, d \in Cpus : c # d => Heads(Held(c)) \cap Heads(Held(d)) = {}
  /\ \A c, d \in Cpus : Seqno(d) \notin Heads(Held(c))
  /\ \A c, d \in Cpus : Seqno(c) = Seqno(d) /\ Seqno(c) \in Message => c = d

(* A reader whose turn it is, until it lets the next one go ahead.          *)
OnTurn(c) ==
  At(c, "write") \/ At(c, "update") \/ ((At(c, "close") \/ At(c, "open")) /\ thr[c].to = "write")

(* As long as nobody gave up waiting or misread a header: what is still to be
   written is behind last_sequence_number, a reader whose turn it is has the very next number,
   and what has been written is in order and up to last_sequence_number, or up
   to the number of the reader that has written it and is about to say so.   *)
TurnInv == ~ Astray =>
  /\ last <= Len(pdu)
  /\ \A c \in Cpus : \A m \in Heads(Held(c)) : m > last
  /\ \A c \in Cpus : Seqno(c) # 0 => Seqno(c) > last
  /\ \A c \in Cpus : OnTurn(c) => Seqno(c) = last + 1
  /\ \A i \in 1 .. Len(log) :
       \/ log[i].seq <= last
       \/ log[i].seq = last + 1 /\ \E c \in Cpus : At(c, "update")
  /\ \A i, j \in 1 .. Len(log) : i < j => log[i].seq < log[j].seq

OrderInv == ShapeInv /\ TextInv /\ PlaceInv /\ TurnInv

(* Where a thread is in switchfile_handler; a reader is there only out of
   ppoll.                                                                   *)
HandlerPcs == {"idle", "check", "set", "kill", "return"}
HandlerInv ==
  /\ hnd \in [Threads -> [at : HandlerPcs, i : Cpus]]
  /\ \A c \in Cpus : hnd[c].at # "idle" => At(c, "handler")

-----------------------------------------------------------------------------
(* What the operations do to the headers in a buffer.                       *)

(* A read(2) of n units.                                                    *)
LEMMA ReadBuf ==
    ASSUME NEW b \in Buffers, Once(Flat(b)), NEW n \in 0 .. Len(Flat(b))
    PROVE  LET t == Consume(SwitchOut(b), n)
           IN  /\ t \in Buffers
               /\ Heads(Flat(t)) \subseteq Heads(Flat(b)) /\ Once(Flat(t))
               /\ n > 0 /\ Flat(b)[1].at = 0 =>
                    Flat(b)[1].m \in Heads(Flat(b)) /\ Flat(b)[1].m \notin Heads(Flat(t))
<1> DEFINE o == SwitchOut(b)
           g == Flat(b)
           t == Consume(o, n)
<1>1. o \in Buffers /\ o.cur = <<>> /\ Avail(o.subs) = g
  BY SwitchOutFlat
<1>2. g \in Seq(Piece) /\ Len(g) \in Nat /\ n \in 0 .. Len(g)
  BY FlatType
<1> HIDE DEF o, g
<1>3. o.subs \in Seq(Seq(Piece)) /\ o.full \in BOOLEAN
  BY <1>1, FlatType
<1>4. PICK q \in Seq(Seq(Piece)) : t = [o EXCEPT !.subs = q] /\ Rest(Avail(q), g, n)
  <2>1. n \in 0 .. Len(Avail(o.subs))
    BY <1>1, <1>2
  <2>2. \E q \in Seq(Seq(Piece)) : /\ Consume(o, n) = [o EXCEPT !.subs = q]
                                   /\ Rest(Avail(q), Avail(o.subs), n)
    BY <1>3, <2>1, ConsumeRest
  <2> QED
    BY <1>1, <2>2
<1> HIDE DEF t
<1>5. t \in Buffers /\ t.subs = q /\ t.cur = <<>>
  <2>1. o \in Buffer
    BY <1>1 DEF Buffers
  <2>2. t \in Buffer /\ t.subs = q /\ t.cur = <<>>
    BY <1>1, <1>4, <2>1 DEF Buffer
  <2> QED
    BY <2>2 DEF Buffers
<1>6. Flat(t) = Avail(q)
  BY <1>5, FlatType
<1>7. n \in Nat /\ n <= Len(g)
  BY <1>2
<1>8. Once(g)
  BY DEF g
<1>9. /\ Heads(Flat(t)) \subseteq Heads(g) /\ Once(Flat(t))
      /\ n > 0 /\ g[1].at = 0 => g[1].m \in Heads(g) /\ g[1].m \notin Heads(Flat(t))
  BY <1>2, <1>4, <1>6, <1>7, <1>8, HeadsRest
<1> QED
  BY <1>5, <1>9 DEF t, o, g

(* A flush that reserved room for the header and some text.                 *)
LEMMA FlushBuf ==
    ASSUME NEW b \in Buffers, Once(Flat(b)), NEW m \in Nat, m \notin Heads(Flat(b)),
           NEW len \in Nat, write_reserve(b, 1 + len).k > 1
    PROVE  LET r == write_reserve(b, 1 + len)
               st == CopyRest([buf |-> Fill(r.buf, Units(m, 0, r.k - 1)),
                               next |-> r.k, failed |-> FALSE], m, len)
           IN  /\ st.buf \in Buffers
               /\ Heads(Flat(st.buf)) = Heads(Flat(b)) \cup {m} /\ Once(Flat(st.buf))
<1> DEFINE r == write_reserve(b, 1 + len)
           x == Units(m, 0, r.k - 1)
           f == Fill(r.buf, x)
           s == [buf |-> f, next |-> r.k, failed |-> FALSE]
           st == CopyRest(s, m, len)
<1>1. /\ r.buf \in Buffers /\ Flat(r.buf) = Flat(b) /\ r.k \in 0 .. 1 + len
      /\ r.k > 0 => ~ r.buf.full
  <2>1. 1 + len \in Nat
    OBVIOUS
  <2> QED
    BY <2>1, ReserveFlat
<1>2. r.k > 1
  OBVIOUS
<1> HIDE DEF r
<1>3. r.k \in Nat /\ ~ r.buf.full
  BY <1>1, <1>2
<1>4. x \in Seq(Piece) /\ Len(x) = r.k /\ \A j \in 1 .. Len(x) : x[j].m = m /\ x[j].at = j - 1
  <2> DEFINE to == r.k - 1
             z == 0
  <2>1. to \in Int /\ z \in Nat /\ to >= z - 1
    BY <1>2, <1>3
  <2> HIDE DEF to, z
  <2>2. /\ Units(m, z, to) \in Seq(Piece) /\ Len(Units(m, z, to)) = to - z + 1
        /\ \A j \in 1 .. Len(Units(m, z, to)) :
             /\ Units(m, z, to)[j].m = m
             /\ Units(m, z, to)[j].at = z + j - 1
    BY <2>1, UnitsAre, Zenon
  <2>3. /\ x \in Seq(Piece) /\ Len(x) = (r.k - 1) - 0 + 1
        /\ \A j \in 1 .. Len(x) : x[j].m = m /\ x[j].at = 0 + j - 1
    BY <2>2, Zenon DEF to, z
  <2> HIDE DEF x
  <2> QED
    BY <1>3, <2>3
<1> HIDE DEF x
<1>5. f \in Buffers /\ Joins(Flat(f), Flat(b), x)
  BY <1>1, <1>3, <1>4, FillFlat
<1>6. Heads(Flat(f)) = Heads(Flat(b)) \cup {m} /\ Once(Flat(f))
  <2> DEFINE g == Flat(b)
             h == Flat(f)
  <2>1. g \in Seq(Piece) /\ Once(g) /\ m \notin Heads(g) /\ Joins(h, g, x)
    BY <1>5, FlatType
  <2> HIDE DEF g, h
  <2>2. /\ Len(g) \in Nat /\ Len(x) \in Nat /\ Len(x) > 0 /\ x[1].at = 0 /\ x[1].m = m
        /\ \A j \in 1 .. Len(x) : j > 1 => x[j].at # 0
    BY <1>2, <1>3, <1>4, <2>1
  <2>3. Heads(h) = Heads(g) \cup {m} /\ Once(h)
    BY <2>1, <2>2, HeadsMessage
  <2> QED
    BY <2>3 DEF g, h
<1> HIDE DEF f
<1>7. s \in CopyState /\ s.buf = f
  BY <1>2, <1>3, <1>5 DEF CopyState
<1> HIDE DEF s
<1>8. st \in CopyState /\ TextOnly(Flat(st.buf), Flat(f))
  BY <1>7, CopyRestAdds
<1> HIDE DEF st
<1>9. st.buf \in Buffers
  BY <1>8 DEF CopyState
<1>10. Heads(Flat(st.buf)) = Heads(Flat(f)) /\ Once(Flat(st.buf))
  BY <1>6, <1>8, HeadsText
<1> QED
  BY <1>6, <1>9, <1>10 DEF st, s, f, x, r

(* A flush that did not, and leaves junk behind.                            *)
LEMMA JunkBuf ==
    ASSUME NEW b \in Buffers, Once(Flat(b)), NEW len \in Nat,
           write_reserve(b, 1 + len).k <= 1
    PROVE  LET r == write_reserve(b, 1 + len)
               t == Fill(r.buf, [j \in 1 .. r.k |-> Junk])
           IN  t \in Buffers /\ Heads(Flat(t)) = Heads(Flat(b)) /\ Once(Flat(t))
<1> DEFINE r == write_reserve(b, 1 + len)
           x == [j \in 1 .. r.k |-> Junk]
           t == Fill(r.buf, x)
<1>1. /\ r.buf \in Buffers /\ Flat(r.buf) = Flat(b) /\ r.k \in 0 .. 1 + len
      /\ r.k > 0 => ~ r.buf.full
  <2>1. 1 + len \in Nat
    OBVIOUS
  <2> QED
    BY <2>1, ReserveFlat
<1> HIDE DEF r
<1>2. r.k \in Nat /\ Junk \in Piece /\ Junk.at = 1
  BY <1>1 DEF Junk, Piece
<1>3. x \in Seq(Piece) /\ Len(x) = r.k /\ \A j \in 1 .. Len(x) : x[j].at # 0
  BY <1>2
<1>4. ~ r.buf.full \/ x = <<>>
  <2>1. CASE r.k > 0
    BY <1>1, <2>1
  <2>2. CASE ~(r.k > 0)
    <3>1. Len(x) = 0
      BY <1>2, <1>3, <2>2
    <3> HIDE DEF x
    <3> QED
      BY <1>3, <3>1
  <2> QED
    BY <2>1, <2>2
<1> HIDE DEF x
<1>5. t \in Buffers /\ Joins(Flat(t), Flat(b), x)
  BY <1>1, <1>3, <1>4, FillFlat
<1>6. TextOnly(Flat(t), Flat(b))
  <2> DEFINE h == Flat(t)
             g == Flat(b)
  <2>1. h \in Seq(Piece) /\ g \in Seq(Piece) /\ Joins(h, g, x)
    BY <1>5, FlatType
  <2> HIDE DEF h, g
  <2>2. Len(h) \in Nat /\ Len(g) \in Nat /\ Len(x) \in Nat /\ Len(h) = Len(g) + Len(x)
    BY <1>3, <2>1 DEF Joins
  <2>3. ASSUME NEW i \in 1 .. Len(h), i > Len(g) PROVE h[i].at # 0
    <3> DEFINE j == i - Len(g)
    <3>1. j \in 1 .. Len(x) /\ i = Len(g) + j
      BY <2>2, <2>3
    <3> HIDE DEF j
    <3>2. h[i] = x[j]
      BY <2>1, <3>1 DEF Joins
    <3> QED
      BY <1>3, <3>1, <3>2
  <2>4. TextOnly(h, g)
    BY <2>1, <2>2, <2>3 DEF TextOnly, Joins
  <2> QED
    BY <2>4 DEF h, g
<1>7. Heads(Flat(t)) = Heads(Flat(b)) /\ Once(Flat(t))
  BY <1>6, HeadsText
<1> QED
  BY <1>5, <1>7 DEF t, x, r

-----------------------------------------------------------------------------
(* What the steps do to the turns.  First the ones that move no message.    *)

(* A reader moves on within its turn, or takes its turn.                    *)
LEMMA MovesOn ==
    ASSUME ShapeInv, PlaceInv, TurnInv, pdu' = pdu, last' = last, log' = log,
           \A d \in Cpus : /\ Heads(Held(d))' = Heads(Held(d)) /\ Once(Held(d))'
                           /\ Seqno(d)' = Seqno(d)
                           /\ At(d, "update") => At(d, "update")',
           Astray => Astray',
           ~ Astray' => \A d \in Cpus : OnTurn(d)' => Seqno(d) = last + 1
    PROVE  PlaceInv' /\ TurnInv'
<1>1. Message' = Message
  BY DEF Message
<1>2. PlaceInv'
  BY <1>1 DEF PlaceInv
<1>3. ASSUME ~ Astray' PROVE TurnInv'
  <2>1. ~ Astray
    BY <1>3
  <2>2. /\ last' <= Len(pdu')
        /\ \A c \in Cpus : \A m \in Heads(Held(c))' : m > last'
        /\ \A c \in Cpus : Seqno(c)' # 0 => Seqno(c)' > last'
        /\ \A c \in Cpus : OnTurn(c)' => Seqno(c)' = last' + 1
    BY <1>3, <2>1 DEF TurnInv
  <2>3. \A i \in 1 .. Len(log') :
          \/ log'[i].seq <= last'
          \/ log'[i].seq = last' + 1 /\ \E c \in Cpus : At(c, "update")'
    <3>1. (\E c \in Cpus : At(c, "update")) => \E c \in Cpus : At(c, "update")'
      OBVIOUS
    <3> QED
      BY <2>1, <3>1 DEF TurnInv
  <2>4. \A i, j \in 1 .. Len(log') : i < j => log'[i].seq < log'[j].seq
    BY <2>1 DEF TurnInv
  <2> QED
    BY <2>2, <2>3, <2>4 DEF TurnInv
<1>4. ASSUME Astray' PROVE TurnInv'
  BY <1>4 DEF TurnInv
<1> QED
  BY <1>2, <1>3, <1>4

(* A reader reads from its buffer: units get lost, or a header gets into its
   hands.                                                                   *)
LEMMA Reads ==
    ASSUME ShapeInv, PlaceInv, TurnInv, NEW c \in Cpus,
           pdu' = pdu, last' = last, log' = log, Astray' = Astray,
           Heads(Held(c))' \subseteq Heads(Held(c)), Once(Held(c))',
           \A d \in Cpus \ {c} : /\ Heads(Held(d))' = Heads(Held(d)) /\ Once(Held(d))'
                                 /\ Seqno(d)' = Seqno(d)
                                 /\ At(d, "update") => At(d, "update")'
                                 /\ OnTurn(d)' => OnTurn(d),
           ~ At(c, "update"), ~ OnTurn(c)',
           \/ Seqno(c)' = Seqno(c)
           \/ Seqno(c)' \in Heads(Held(c)) /\ Seqno(c)' \notin Heads(Held(c))'
    PROVE  PlaceInv' /\ TurnInv'
<1>1. Len(pdu) \in Nat /\ Len(pdu) <= MaxInputs /\ last \in Nat
  BY RelayAssumption DEF ShapeInv
<1>2. Message' = Message /\ Message \subseteq Nat
  BY <1>1 DEF Message
<1>3. PlaceInv'
  <2>1. \A a \in Cpus : Once(Held(a))' /\ Heads(Held(a))' \subseteq Message'
    BY <1>2 DEF PlaceInv
  <2>2. \A a \in Cpus : Seqno(a)' \in {0} \cup Message'
    BY <1>2 DEF PlaceInv
  <2>3. \A a, d \in Cpus : a # d => (Heads(Held(a)) \cap Heads(Held(d)))' = {}
    <3>1. \A a \in Cpus : Heads(Held(a))' \subseteq Heads(Held(a))
      OBVIOUS
    <3> QED
      BY <3>1 DEF PlaceInv
  <2>4. \A a, d \in Cpus : Seqno(d)' \notin Heads(Held(a))'
    <3>1. \A a \in Cpus : Heads(Held(a))' \subseteq Heads(Held(a))
      OBVIOUS
    <3>2. ASSUME NEW a \in Cpus PROVE Seqno(c)' \notin Heads(Held(a))'
      <4>1. CASE Seqno(c)' = Seqno(c)
        BY <3>1, <4>1 DEF PlaceInv
      <4>2. CASE Seqno(c)' \in Heads(Held(c)) /\ Seqno(c)' \notin Heads(Held(c))'
        BY <3>1, <4>2 DEF PlaceInv
      <4> QED
        BY <4>1, <4>2
    <3> QED
      BY <3>1, <3>2 DEF PlaceInv
  <2>5. \A a, d \in Cpus : Seqno(a)' = Seqno(d)' /\ Seqno(a)' \in Message' => a = d
    <3>1. ASSUME NEW d \in Cpus, d # c, Seqno(c)' \in Message PROVE Seqno(c)' # Seqno(d)
      BY <1>2, <3>1 DEF PlaceInv
    <3> QED
      BY <1>2, <3>1 DEF PlaceInv
  <2> QED
    BY <2>1, <2>2, <2>3, <2>4, <2>5 DEF PlaceInv
<1>4. ASSUME ~ Astray PROVE TurnInv'
  <2>1. \A a \in Cpus : \A m \in Heads(Held(a))' : m > last'
    <3>1. \A a \in Cpus : Heads(Held(a))' \subseteq Heads(Held(a))
      OBVIOUS
    <3> QED
      BY <1>4, <3>1 DEF TurnInv
  <2>2. \A a \in Cpus : Seqno(a)' # 0 => Seqno(a)' > last'
    BY <1>4 DEF TurnInv
  <2>3. \A a \in Cpus : OnTurn(a)' => Seqno(a)' = last' + 1
    BY <1>4 DEF TurnInv
  <2>4. \A i \in 1 .. Len(log') :
          \/ log'[i].seq <= last'
          \/ log'[i].seq = last' + 1 /\ \E d \in Cpus : At(d, "update")'
    <3>1. (\E d \in Cpus : At(d, "update")) => \E d \in Cpus : At(d, "update")'
      OBVIOUS
    <3> QED
      BY <1>4, <3>1 DEF TurnInv
  <2>5. last' <= Len(pdu') /\ \A i, j \in 1 .. Len(log') : i < j => log'[i].seq < log'[j].seq
    BY <1>4 DEF TurnInv
  <2> QED
    BY <2>1, <2>2, <2>3, <2>4, <2>5 DEF TurnInv
<1>5. ASSUME Astray PROVE TurnInv'
  BY <1>5 DEF TurnInv
<1> QED
  BY <1>3, <1>4, <1>5

(* A message is flushed into the buffer of cpu c.                           *)
LEMMA Flushes ==
    ASSUME ShapeInv, PlaceInv, TurnInv, NEW c \in Cpus, NEW len \in Nat,
           pdu' = Append(pdu, len), Len(pdu) < MaxInputs,
           UNCHANGED <<last, log, thr, misread>>, Astray' = Astray,
           Heads(Held(c))' = Heads(Held(c)) \cup {Len(pdu) + 1}, Once(Held(c))',
           \A d \in Cpus \ {c} : Heads(Held(d))' = Heads(Held(d)) /\ Once(Held(d))'
    PROVE  PlaceInv' /\ TurnInv'
<1> DEFINE m == Len(pdu) + 1
<1>1. Len(pdu) \in Nat /\ last \in Nat /\ Len(pdu') = m
  BY DEF ShapeInv
<1>2. /\ Message' = Message \cup {m} /\ m \notin Message /\ m # 0 /\ 0 \notin Message'
  BY <1>1 DEF Message
<1>3. \A d \in Cpus : Seqno(d)' = Seqno(d) /\ Seqno(d) # m /\ OnTurn(d)' = OnTurn(d)
                      /\ At(d, "update")' = At(d, "update")
  BY <1>2 DEF PlaceInv, Seqno, OnTurn, At
<1> DEFINE H(d) == Heads(Held(d))
<1>4. /\ \A d \in Cpus : m \notin H(d) /\ H(d) \subseteq Message
      /\ H(c)' = H(c) \cup {m}
      /\ \A d \in Cpus \ {c} : H(d)' = H(d)
  BY <1>2 DEF PlaceInv
<1>5. PlaceInv'
  <2>1. \A a \in Cpus : Once(Held(a))' /\ H(a)' \subseteq Message'
    BY <1>2, <1>4
  <2>2. \A a \in Cpus : Seqno(a)' \in {0} \cup Message'
    BY <1>2, <1>3 DEF PlaceInv
  <2>3. \A a, d \in Cpus : a # d => (H(a) \cap H(d))' = {}
    BY <1>4 DEF PlaceInv
  <2>4. \A a, d \in Cpus : Seqno(d)' \notin H(a)'
    BY <1>3, <1>4 DEF PlaceInv
  <2>5. \A a, d \in Cpus : Seqno(a)' = Seqno(d)' /\ Seqno(a)' \in Message' => a = d
    BY <1>2, <1>3 DEF PlaceInv
  <2> QED
    BY <2>1, <2>2, <2>3, <2>4, <2>5 DEF PlaceInv
<1>6. ASSUME ~ Astray PROVE TurnInv'
  <2>0. last <= Len(pdu)
    BY <1>6 DEF TurnInv
  <2>1. \A a \in Cpus : \A k \in H(a)' : k > last'
    <3>1. \A a \in Cpus : \A k \in H(a) : k > last
      BY <1>6 DEF TurnInv
    <3>2. m > last
      BY <1>1, <2>0
    <3> HIDE DEF m, H
    <3> QED
      BY <1>4, <3>1, <3>2
  <2>2. \A a \in Cpus : Seqno(a)' # 0 => Seqno(a)' > last'
    BY <1>3, <1>6 DEF TurnInv
  <2>3. \A a \in Cpus : OnTurn(a)' => Seqno(a)' = last' + 1
    BY <1>3, <1>6 DEF TurnInv
  <2>4. \A i \in 1 .. Len(log') :
          \/ log'[i].seq <= last'
          \/ log'[i].seq = last' + 1 /\ \E d \in Cpus : At(d, "update")'
    BY <1>3, <1>6 DEF TurnInv
  <2>5. last' <= Len(pdu') /\ \A i, j \in 1 .. Len(log') : i < j => log'[i].seq < log'[j].seq
    BY <1>1, <1>6, <2>0 DEF TurnInv
  <2> QED
    BY <2>1, <2>2, <2>3, <2>4, <2>5 DEF TurnInv
<1>7. ASSUME Astray PROVE TurnInv'
  BY <1>7 DEF TurnInv
<1> QED
  BY <1>5, <1>6, <1>7

(* Two readers cannot both be on turn.                                      *)
LEMMA OneOnTurn ==
    ASSUME ShapeInv, PlaceInv, TurnInv, ~ Astray,
           NEW c \in Cpus, NEW d \in Cpus, OnTurn(c), Seqno(d) = last + 1
    PROVE  c = d /\ Seqno(c) = last + 1 /\ Seqno(c) \in Message
<1>1. Len(pdu) \in Nat /\ Len(pdu) <= MaxInputs /\ last \in Nat /\ last <= Len(pdu)
  BY RelayAssumption DEF ShapeInv, TurnInv
<1>2. Seqno(c) = last + 1
  BY DEF TurnInv
<1>3. Seqno(c) # 0
  BY <1>1, <1>2
<1>4. Seqno(c) \in Message
  BY <1>3 DEF PlaceInv
<1> QED
  BY <1>2, <1>4 DEF PlaceInv

(* A reader on turn writes its text.                                        *)
LEMMA Writes ==
    ASSUME ShapeInv, PlaceInv, TurnInv, NEW c \in Cpus, At(c, "write"), NEW e \in Entry,
           log' = Append(log, e), ~ Astray => e.seq = Seqno(c),
           UNCHANGED <<pdu, last>>, Astray' = Astray,
           \A d \in Cpus : Heads(Held(d))' = Heads(Held(d)) /\ Once(Held(d))'
                           /\ Seqno(d)' = Seqno(d),
           \A d \in Cpus \ {c} : At(d, "update")' = At(d, "update") /\ OnTurn(d)' = OnTurn(d),
           At(c, "update")'
    PROVE  PlaceInv' /\ TurnInv'
<1>1. Message' = Message
  BY DEF Message
<1>2. PlaceInv'
  BY <1>1 DEF PlaceInv
<1>3. ASSUME ~ Astray PROVE TurnInv'
  <2>0. last \in Nat /\ log \in Seq(Entry) /\ Len(log) \in Nat
    BY DEF ShapeInv
  <2>1. OnTurn(c) /\ ~ At(c, "update")
    BY DEF OnTurn, At
  <2>2. e.seq = last + 1
    BY <1>3, <2>1 DEF TurnInv
  <2>3. \A d \in Cpus : ~ At(d, "update")
    <3>1. ASSUME NEW d \in Cpus, At(d, "update") PROVE FALSE
      <4>1. OnTurn(d)
        BY <3>1 DEF OnTurn
      <4>2. Seqno(d) = last + 1
        BY <1>3, <4>1 DEF TurnInv
      <4>3. c = d
        BY <1>3, <2>1, <4>2, OneOnTurn
      <4> QED
        BY <2>1, <3>1, <4>3
    <3> QED
      BY <3>1
  <2>4. \A i \in 1 .. Len(log) : log[i].seq <= last /\ log[i].seq \in Nat
    <3>1. \A i \in 1 .. Len(log) : log[i].seq <= last
      BY <1>3, <2>3 DEF TurnInv
    <3>2. \A i \in 1 .. Len(log) : log[i] \in Entry
      BY <2>0
    <3> QED
      BY <3>1, <3>2 DEF Entry
  <2>5. /\ Len(log') = Len(log) + 1 /\ log'[Len(log) + 1] = e
        /\ \A i \in 1 .. Len(log) : log'[i] = log[i]
    BY <2>0
  <2>6. \A i \in 1 .. Len(log') :
          \/ log'[i].seq <= last'
          \/ log'[i].seq = last' + 1 /\ \E d \in Cpus : At(d, "update")'
    <3>1. ASSUME NEW i \in 1 .. Len(log')
          PROVE  log'[i].seq <= last \/ log'[i].seq = last + 1
      <4>1. CASE i = Len(log) + 1
        BY <2>2, <2>5, <4>1
      <4>2. CASE i # Len(log) + 1
        <5>1. i \in 1 .. Len(log)
          BY <2>0, <2>5, <4>2
        <5> QED
          BY <2>4, <2>5, <5>1
      <4> QED
        BY <4>1, <4>2
    <3> QED
      BY <3>1
  <2>7. ASSUME NEW i \in 1 .. Len(log'), NEW j \in 1 .. Len(log'), i < j
        PROVE  log'[i].seq < log'[j].seq
    <3>1. i \in 1 .. Len(log)
      BY <2>0, <2>5, <2>7
    <3>2. CASE j = Len(log) + 1
      <4>1. log'[j].seq = last + 1 /\ log'[i].seq = log[i].seq
        BY <2>2, <2>5, <3>1, <3>2
      <4>2. log[i].seq \in Nat /\ log[i].seq <= last
        BY <2>4, <3>1
      <4> QED
        BY <2>0, <4>1, <4>2
    <3>3. CASE j # Len(log) + 1
      <4>1. j \in 1 .. Len(log)
        BY <2>0, <2>5, <3>3
      <4> QED
        BY <1>3, <2>5, <2>7, <3>1, <4>1 DEF TurnInv
    <3> QED
      BY <3>2, <3>3
  <2>8. /\ last' <= Len(pdu')
        /\ \A a \in Cpus : \A m \in Heads(Held(a))' : m > last'
        /\ \A a \in Cpus : Seqno(a)' # 0 => Seqno(a)' > last'
    BY <1>3 DEF TurnInv
  <2>9. \A a \in Cpus : OnTurn(a)' => Seqno(a)' = last' + 1
    <3>1. Seqno(c)' = last' + 1
      BY <1>3, <2>2
    <3>2. \A a \in Cpus \ {c} : OnTurn(a)' => Seqno(a)' = last' + 1
      BY <1>3 DEF TurnInv
    <3> QED
      BY <3>1, <3>2
  <2> QED
    BY <2>6, <2>7, <2>8, <2>9 DEF TurnInv
<1>4. ASSUME Astray PROVE TurnInv'
  BY <1>4 DEF TurnInv
<1> QED
  BY <1>2, <1>3, <1>4

(* A reader that is done lets the next message go ahead.                    *)
LEMMA LetsGo ==
    ASSUME ShapeInv, PlaceInv, TurnInv, NEW c \in Cpus, At(c, "update"),
           UNCHANGED <<pdu, log>>, Astray' = Astray,
           ~ Astray => last' = IF last < Seqno(c) THEN Seqno(c) ELSE last,
           \A d \in Cpus : Heads(Held(d))' = Heads(Held(d)) /\ Once(Held(d))',
           \A d \in Cpus \ {c} : /\ Seqno(d)' = Seqno(d) /\ OnTurn(d)' = OnTurn(d),
           Seqno(c)' = 0, ~ OnTurn(c)'
    PROVE  PlaceInv' /\ TurnInv'
<1>1. Len(pdu) \in Nat /\ Message' = Message /\ 0 \notin Message /\ Message \subseteq Nat
  BY DEF Message, ShapeInv
<1>2. PlaceInv'
  <2>1. \A a \in Cpus : Once(Held(a))' /\ Heads(Held(a))' \subseteq Message'
    BY <1>1 DEF PlaceInv
  <2>2. \A a \in Cpus : Seqno(a)' \in {0} \cup Message'
    BY <1>1 DEF PlaceInv
  <2>3. \A a, d \in Cpus : a # d => (Heads(Held(a)) \cap Heads(Held(d)))' = {}
    BY DEF PlaceInv
  <2>4. \A a, d \in Cpus : Seqno(d)' \notin Heads(Held(a))'
    BY <1>1 DEF PlaceInv
  <2>5. \A a, d \in Cpus : Seqno(a)' = Seqno(d)' /\ Seqno(a)' \in Message' => a = d
    BY <1>1 DEF PlaceInv
  <2> QED
    BY <2>1, <2>2, <2>3, <2>4, <2>5 DEF PlaceInv
<1>3. ASSUME ~ Astray PROVE TurnInv'
  <2>0. last \in Nat /\ log \in Seq(Entry) /\ OnTurn(c)
    BY DEF ShapeInv, OnTurn
  <2>1. Seqno(c) = last + 1
    BY <1>3, <2>0 DEF TurnInv
  <2>2. last' = last + 1 /\ Seqno(c) \in Message
    <3>1. Seqno(c) \in Message
      BY <1>3, <2>0, <2>1, OneOnTurn
    <3> QED
      BY <1>3, <2>0, <2>1, <3>1
  <2>3. last' <= Len(pdu')
    BY <1>1, <2>1, <2>2 DEF Message
  <2>4. \A a \in Cpus : \A m \in Heads(Held(a))' : m > last'
    <3>1. ASSUME NEW a \in Cpus, NEW m \in Heads(Held(a)) PROVE m > last + 1
      <4>1. m > last /\ m \in Nat
        BY <1>1, <1>3 DEF TurnInv, PlaceInv
      <4>2. m # last + 1
        BY <2>1 DEF PlaceInv
      <4> QED
        BY <2>0, <4>1, <4>2
    <3> QED
      BY <2>2, <3>1
  <2>5. \A a \in Cpus \ {c} : Seqno(a) # last + 1
    BY <1>3, <2>0, OneOnTurn
  <2>6. \A a \in Cpus : Seqno(a)' # 0 => Seqno(a)' > last'
    <3>1. ASSUME NEW a \in Cpus \ {c}, Seqno(a) # 0 PROVE Seqno(a) > last + 1
      <4>1. Seqno(a) > last
        BY <1>3, <3>1 DEF TurnInv
      <4>2. Seqno(a) \in Nat
        BY DEF ShapeInv, ReaderState, Seqno
      <4> QED
        BY <2>0, <2>5, <4>1, <4>2
    <3> QED
      BY <2>2, <3>1
  <2>7. \A a \in Cpus : OnTurn(a)' => Seqno(a)' = last' + 1
    <3>1. \A a \in Cpus \ {c} : ~ OnTurn(a)
      BY <1>3, <2>5 DEF TurnInv
    <3> QED
      BY <3>1
  <2>8. \A i \in 1 .. Len(log') :
          \/ log'[i].seq <= last'
          \/ log'[i].seq = last' + 1 /\ \E d \in Cpus : At(d, "update")'
    <3>1. ASSUME NEW i \in 1 .. Len(log) PROVE log[i].seq <= last + 1
      <4>1. log[i] \in Entry
        BY <2>0
      <4>2. log[i].seq \in Nat
        BY <4>1 DEF Entry
      <4>3. log[i].seq <= last \/ log[i].seq = last + 1
        BY <1>3 DEF TurnInv
      <4> QED
        BY <2>0, <4>2, <4>3
    <3> QED
      BY <2>2, <3>1
  <2>9. \A i, j \in 1 .. Len(log') : i < j => log'[i].seq < log'[j].seq
    BY <1>3 DEF TurnInv
  <2> QED
    BY <2>3, <2>4, <2>6, <2>7, <2>8, <2>9 DEF TurnInv
<1>4. ASSUME Astray PROVE TurnInv'
  BY <1>4 DEF TurnInv
<1> QED
  BY <1>2, <1>3, <1>4

-----------------------------------------------------------------------------
(* The steps one by one.                                                    *)

(* Where the buffers do not change, neither do the headers in them.         *)
LEMMA SameBuffers ==
    ASSUME PlaceInv, rb' = rb
    PROVE  \A d \in Cpus : Heads(Held(d))' = Heads(Held(d)) /\ Once(Held(d))'
<1>1. \A d \in Cpus : Held(d)' = Held(d)
  BY DEF Held
<1>2. \A d \in Cpus : Once(Held(d))
  BY DEF PlaceInv
<1> QED
  BY <1>1, <1>2 DEF Heads, Once

(* One buffer changes.                                                      *)
LEMMA OneBuffer ==
    ASSUME ShapeInv, PlaceInv, NEW c \in Cpus, NEW b \in Buffers, rb' = [rb EXCEPT ![c] = b],
           Once(Flat(b))
    PROVE  /\ rb' \in [Cpus -> Buffers]
           /\ Heads(Held(c))' = Heads(Flat(b)) /\ Once(Held(c))'
           /\ \A d \in Cpus \ {c} : Heads(Held(d))' = Heads(Held(d)) /\ Once(Held(d))'
<1>1. rb \in [Cpus -> Buffers]
  BY DEF ShapeInv
<1>2. rb' \in [Cpus -> Buffers] /\ rb'[c] = b /\ \A d \in Cpus \ {c} : rb'[d] = rb[d]
  BY <1>1
<1>3. Held(c)' = Flat(b) /\ \A d \in Cpus \ {c} : Held(d)' = Held(d)
  BY <1>2 DEF Held, Flat
<1>4. \A d \in Cpus : Once(Held(d))
  BY DEF PlaceInv
<1> QED
  BY <1>2, <1>3, <1>4 DEF Heads, Once

(* The buffer of a cpu, as it is and as its reader sees it.                 *)
LEMMA BufferOf ==
    ASSUME ShapeInv, PlaceInv, NEW c \in Cpus
    PROVE  /\ rb[c] \in Buffers /\ Held(c) = Flat(rb[c]) /\ Once(Flat(rb[c]))
           /\ Avail(SwitchOut(rb[c]).subs) = Held(c)
           /\ Held(c) \in Seq(Piece) /\ Len(Held(c)) \in Nat
<1>1. rb[c] \in Buffers
  BY DEF ShapeInv
<1>2. Held(c) = Flat(rb[c])
  BY DEF Held, Flat
<1>3. Once(Held(c))
  BY DEF PlaceInv
<1>4. Flat(rb[c]) \in Seq(Piece) /\ Avail(SwitchOut(rb[c]).subs) = Flat(rb[c])
  BY <1>1, FlatType, SwitchOutFlat
<1> QED
  BY <1>1, <1>2, <1>3, <1>4

(* One reader changes.                                                      *)
LEMMA OneReader ==
    ASSUME ShapeInv, NEW c \in Cpus, NEW t \in ReaderState, thr' = [thr EXCEPT ![c] = t],
           misread' = misread
    PROVE  /\ thr' \in [Cpus -> ReaderState] /\ thr'[c] = t
           /\ \A d \in Cpus \ {c} : thr'[d] = thr[d]
           /\ \A d \in Cpus \ {c} : /\ Seqno(d)' = Seqno(d) /\ OnTurn(d)' = OnTurn(d)
                                    /\ At(d, "update")' = At(d, "update")
<1>1. thr \in [Cpus -> ReaderState]
  BY DEF ShapeInv
<1>2. /\ thr' \in [Cpus -> ReaderState] /\ thr'[c] = t
      /\ \A d \in Cpus \ {c} : thr'[d] = thr[d]
  BY <1>1
<1> QED
  BY <1>2 DEF Seqno, OnTurn, At

(* What is left to show of the types and texts after a step.                *)
LEMMA TextKept ==
    ASSUME TextInv, misread => misread', NEW c \in Cpus,
           \A d \in Cpus \ {c} : thr'[d] = thr[d],
           Ready(thr'[c]) => thr'[c].rc <= Len(thr'[c].got),
           thr'[c].pc = "body" => Len(thr'[c].got) <= thr'[c].hdr.len,
           thr'[c].pc \in {"body", "wait"} => misread' \/ thr'[c].hdr.seq # 0,
           thr'[c].to = "hdr" \/ thr'[c].pc \in {"close", "open"}
    PROVE  TextInv'
BY DEF TextInv, At

(* A reader changes, but not what it has in its hands, and no buffer does.  *)
LEMMA KeepsHeader ==
    ASSUME OrderInv, NEW c \in Cpus, NEW t \in ReaderState, thr' = [thr EXCEPT ![c] = t],
           rb' = rb, UNCHANGED <<pdu, last, log>>, late => late', late' \in BOOLEAN,
           misread' = misread,
           inputs' \in 0 .. MaxInputs, Len(pdu) <= inputs',
           switch_file' \in [Cpus -> BOOLEAN], stop_threads' \in BOOLEAN,
           t.hdr = thr[c].hdr, t.got = thr[c].got, t.rc = thr[c].rc,
           ~ At(c, "update"), t.pc \notin {"body", "wait"},
           t.to = "hdr" \/ t.pc \in {"close", "open"}, Ready(t) => Ready(thr[c]),
           ~ Astray' /\ OnTurn(c)' => Seqno(c) = last + 1
    PROVE  OrderInv'
<1>1. /\ thr' \in [Cpus -> ReaderState] /\ thr'[c] = t
      /\ \A d \in Cpus \ {c} : thr'[d] = thr[d]
      /\ \A d \in Cpus \ {c} : /\ Seqno(d)' = Seqno(d) /\ OnTurn(d)' = OnTurn(d)
                               /\ At(d, "update")' = At(d, "update")
  BY OneReader DEF OrderInv
<1>2. ShapeInv'
  BY <1>1 DEF OrderInv, ShapeInv
<1>3. TextInv'
  BY <1>1, TextKept DEF OrderInv, TextInv
<1>4. Seqno(c)' = Seqno(c)
  BY <1>1 DEF Seqno
<1>5. \A d \in Cpus : /\ Seqno(d)' = Seqno(d)
                      /\ At(d, "update") => At(d, "update")'
  BY <1>1, <1>4
<1>6. ~ Astray' => \A d \in Cpus : OnTurn(d)' => Seqno(d) = last + 1
  BY <1>1 DEF OrderInv, TurnInv, Astray
<1>7. PlaceInv' /\ TurnInv'
  <2>1. \A d \in Cpus : Heads(Held(d))' = Heads(Held(d)) /\ Once(Held(d))'
    BY SameBuffers DEF OrderInv
  <2> QED
    BY <1>5, <1>6, <2>1, MovesOn DEF OrderInv, Astray
<1> QED
  BY <1>2, <1>3, <1>7 DEF OrderInv

(* What ShapeInv says of the variables that most steps leave alone.         *)
LEMMA Shapes ==
    ASSUME OrderInv
    PROVE  /\ inputs \in 0 .. MaxInputs /\ Len(pdu) <= inputs /\ late \in BOOLEAN
           /\ misread \in BOOLEAN
           /\ switch_file \in [Cpus -> BOOLEAN] /\ stop_threads \in BOOLEAN
           /\ \A c \in Cpus : thr[c] \in ReaderState
           /\ Len(pdu) \in Nat /\ last \in Nat /\ MaxInputs \in Nat
BY RelayAssumption DEF OrderInv, ShapeInv

(* A reader only goes from one place to another.                            *)
LEMMA JustGoes ==
    ASSUME OrderInv, NEW c \in Cpus, NEW l \in ReaderPcs, Goto(c, l), rb' = rb,
           UNCHANGED <<pdu, last, log>>, late => late', late' \in BOOLEAN,
           misread' = misread,
           inputs' \in 0 .. MaxInputs, Len(pdu) <= inputs',
           switch_file' \in [Cpus -> BOOLEAN], stop_threads' \in BOOLEAN,
           ~ At(c, "update"), l \notin {"body", "wait", "write", "update"},
           thr[c].to = "hdr" \/ (l \in {"close", "open"} /\ OnTurn(c))
    PROVE  OrderInv'
<1> DEFINE t == [thr[c] EXCEPT !.pc = l]
<1>1. thr[c] \in ReaderState
  BY Shapes
<1>2. /\ t \in ReaderState /\ t.pc = l /\ t.hdr = thr[c].hdr /\ t.got = thr[c].got
      /\ t.rc = thr[c].rc /\ t.to = thr[c].to
  BY <1>1 DEF ReaderState
<1>3. thr' = [thr EXCEPT ![c] = t]
  BY DEF Goto
<1> HIDE DEF t
<1>4. thr'[c] = t
  BY <1>2, <1>3, OneReader DEF OrderInv
<1>5. OnTurn(c)' => OnTurn(c)
  BY <1>2, <1>4 DEF OnTurn, At
<1>6. ~ Astray' /\ OnTurn(c)' => Seqno(c) = last + 1
  BY <1>5 DEF OrderInv, TurnInv, Astray
<1>7. Ready(t) => Ready(thr[c])
  BY <1>2 DEF Ready
<1> QED
  BY <1>2, <1>3, <1>6, <1>7, KeepsHeader

(* A reader without data sleeps.                                            *)
LEMMA PpollOrder ==
    ASSUME OrderInv, NEW c \in Cpus, ppoll(c)
    PROVE  OrderInv'
<1>1. /\ UNCHANGED <<inputs, rb, pdu, log, last, stop_threads, switch_file, late, misread>>
      /\ At(c, "poll") /\ Goto(c, "asleep")
  BY DEF ppoll, kernel, output, history
<1>2. "asleep" \in ReaderPcs /\ thr[c].to = "hdr" /\ ~ At(c, "update")
  BY <1>1 DEF OrderInv, TextInv, At, ReaderPcs
<1> QED
  BY <1>1, <1>2, Shapes, JustGoes

(* A reader takes a signal in ppoll.                                        *)
LEMMA SignalledOrder ==
    ASSUME OrderInv, NEW c \in Cpus, ppoll_signalled(c)
    PROVE  OrderInv'
<1> DEFINE t == [thr[c] EXCEPT !.sig = FALSE, !.pc = "handler"]
<1>1. /\ UNCHANGED <<inputs, rb, pdu, log, last, stop_threads, switch_file, late, misread>>
      /\ At(c, "poll") \/ At(c, "asleep")
      /\ thr' = [thr EXCEPT ![c] = t]
  BY DEF ppoll_signalled, kernel, output, history
<1>2. /\ t \in ReaderState /\ t.pc = "handler" /\ t.to = thr[c].to
      /\ t.hdr = thr[c].hdr /\ t.got = thr[c].got /\ t.rc = thr[c].rc
  BY Shapes DEF ReaderState, ReaderPcs
<1> HIDE DEF t
<1>3. thr[c].to = "hdr" /\ ~ At(c, "update")
  BY <1>1 DEF OrderInv, TextInv, At
<1>4. ~ Ready(t)
  BY <1>2, <1>3 DEF Ready
<1>5. ~ OnTurn(c)'
  <2>1. thr'[c] = t
    BY <1>1, <1>2, OneReader DEF OrderInv
  <2> QED
    BY <1>2, <1>3, <2>1 DEF OnTurn, At
<1> QED
  BY <1>1, <1>2, <1>3, <1>4, <1>5, Shapes, KeepsHeader

(* A reader goes on after EINTR.                                            *)
LEMMA InterruptedOrder ==
    ASSUME OrderInv, NEW c \in Cpus, interrupted(c)
    PROVE  OrderInv'
<1> DEFINE l == IF stop_threads THEN "done" ELSE IF switch_file[c] THEN "close" ELSE "hdr"
<1>1. /\ UNCHANGED <<inputs, rb, pdu, log, last, stop_threads, switch_file, late, misread>>
      /\ At(c, "eintr") /\ Goto(c, l)
  BY DEF interrupted, kernel, output, history
<1>2. l \in ReaderPcs /\ l \notin {"body", "wait", "write", "update"}
  BY DEF ReaderPcs
<1> HIDE DEF l
<1>3. thr[c].to = "hdr" /\ ~ At(c, "update")
  BY <1>1 DEF OrderInv, TextInv, At
<1> QED
  BY <1>1, <1>2, <1>3, Shapes, JustGoes

(* A reader stops waiting; it has the next message, or nobody answers for the
   order any more.                                                          *)
LEMMA WaitOrder ==
    ASSUME OrderInv, NEW c \in Cpus, wait_turn(c) \/ wait_timeout(c)
    PROVE  OrderInv'
<1>1. /\ UNCHANGED <<inputs, rb, pdu, log, last, stop_threads, switch_file, misread>>
      /\ At(c, "wait") /\ ToWrite(c) /\ ((OurTurn(c) /\ late' = late) \/ late' = TRUE)
  BY DEF wait_turn, wait_timeout, kernel, output, history
<1> DEFINE t == [thr[c] EXCEPT !.to = IF switch_file[c] THEN "write" ELSE "hdr",
                               !.pc = IF switch_file[c] THEN "close" ELSE "write"]
<1>2. thr' = [thr EXCEPT ![c] = t]
  BY <1>1 DEF ToWrite
<1>3. /\ t \in ReaderState /\ t.hdr = thr[c].hdr /\ t.got = thr[c].got /\ t.rc = thr[c].rc
      /\ t.pc \in {"close", "write"} /\ (t.to = "hdr" \/ t.pc = "close")
  BY Shapes DEF ReaderState, ReaderPcs
<1> HIDE DEF t
<1>4. ~ Astray' => Seqno(c) = last + 1
  <2> SUFFICES ASSUME ~ Astray' PROVE Seqno(c) = last + 1
    OBVIOUS
  <2>1. ~ Astray /\ ~ misread /\ OurTurn(c)
    BY <1>1 DEF Astray
  <2>2. Seqno(c) # 0 /\ Seqno(c) \in Nat
    BY <1>1, <2>1, Shapes DEF OrderInv, TextInv, Seqno, ReaderState
  <2>3. Seqno(c) > last
    BY <2>1, <2>2 DEF OrderInv, TurnInv
  <2> QED
    BY <2>1, <2>2, <2>3, Shapes DEF OurTurn, Seqno
<1>5. ~ At(c, "update") /\ Ready(thr[c])
  BY <1>1 DEF At, Ready
<1>6. late => late'
  BY <1>1
<1>7. late' \in BOOLEAN
  BY <1>1, Shapes
<1> QED
  BY <1>1, <1>2, <1>3, <1>4, <1>5, <1>6, <1>7, Shapes, KeepsHeader

(* switch_outfile leaves the turns alone.                                   *)
LEMMA SwitchOrder ==
    ASSUME OrderInv, NEW c \in Cpus, switch_outfile(c)
    PROVE  OrderInv'
<1>1. /\ UNCHANGED <<inputs, rb, pdu, log, last, stop_threads, switch_file, late, misread>>
      /\ At(c, "close") /\ Goto(c, "open")
  BY DEF switch_outfile, kernel, output, history
<1>2. "open" \in ReaderPcs /\ ~ At(c, "update") /\ (thr[c].to = "hdr" \/ OnTurn(c))
  BY <1>1, Shapes DEF ReaderPcs, At, OnTurn, ReaderState
<1> QED
  BY <1>1, <1>2, Shapes, JustGoes

(* So does open_outfile: the reader goes on where it came from.             *)
LEMMA OpenOrder ==
    ASSUME OrderInv, NEW c \in Cpus, open_outfile(c)
    PROVE  OrderInv'
<1> DEFINE t == [thr[c] EXCEPT !.fnum = @ + 1, !.to = "hdr", !.pc = thr[c].to]
<1>1. /\ UNCHANGED <<inputs, rb, pdu, log, last, stop_threads, late, misread>>
      /\ At(c, "open") /\ switch_file' = [switch_file EXCEPT ![c] = FALSE]
  BY DEF open_outfile, kernel, output, history
<1>2. thr' = [thr EXCEPT ![c] = t]
  BY DEF open_outfile
<1>3. /\ t \in ReaderState /\ t.hdr = thr[c].hdr /\ t.got = thr[c].got /\ t.rc = thr[c].rc
      /\ t.pc = thr[c].to /\ t.to = "hdr" /\ thr[c].to \in {"hdr", "write"}
  <2> DEFINE l == thr[c].to
             n == thr[c].fnum + 1
             s == [thr[c] EXCEPT !.fnum = n, !.to = "hdr", !.pc = l]
  <2>1. /\ thr[c] \in ReaderState /\ l \in ReaderPcs /\ l \in {"hdr", "write"} /\ n \in Nat
        /\ "hdr" \in {"hdr", "write"}
    BY Shapes DEF ReaderState, ReaderPcs
  <2>2. t = s
    OBVIOUS
  <2> HIDE DEF l, n, t
  <2>3. /\ s \in ReaderState /\ s.hdr = thr[c].hdr /\ s.got = thr[c].got
        /\ s.rc = thr[c].rc /\ s.pc = l /\ s.to = "hdr"
    BY <2>1 DEF ReaderState
  <2> QED
    BY <2>1, <2>2, <2>3, Zenon DEF l
<1> HIDE DEF t
<1>4. thr'[c] = t
  BY <1>1, <1>2, <1>3, OneReader DEF OrderInv
<1>5. OnTurn(c)' => OnTurn(c)
  BY <1>1, <1>3, <1>4 DEF OnTurn, At
<1>6. ~ Astray' /\ OnTurn(c)' => Seqno(c) = last + 1
  BY <1>1, <1>5 DEF OrderInv, TurnInv, Astray
<1>7. switch_file' \in [Cpus -> BOOLEAN] /\ ~ At(c, "update")
  BY <1>1, Shapes DEF At
<1>8. Ready(t) => Ready(thr[c])
  BY <1>3 DEF Ready
<1> QED
  BY <1>1, <1>2, <1>3, <1>6, <1>7, <1>8, Shapes, KeepsHeader

(* A write that fails ends the reader.                                      *)
LEMMA FailOrder ==
    ASSUME OrderInv, NEW c \in Cpus, write_fails(c)
    PROVE  OrderInv'
<1>1. /\ UNCHANGED <<rb, pdu, log, last, stop_threads, switch_file, late, misread>>
      /\ At(c, "write") /\ Goto(c, "dead")
      /\ inputs' = inputs \/ (inputs < MaxInputs /\ inputs' = inputs + 1)
  BY DEF write_fails, kernel, output, Input, history
<1>2. "dead" \in ReaderPcs /\ ~ At(c, "update") /\ thr[c].to = "hdr"
  BY <1>1 DEF ReaderPcs, At, OrderInv, TextInv
<1>3. inputs' \in 0 .. MaxInputs /\ Len(pdu) <= inputs'
  BY <1>1, Shapes
<1> QED
  BY <1>1, <1>2, <1>3, Shapes, JustGoes

(* The write puts the message behind those that are in the output.          *)
LEMMA WriteOrder ==
    ASSUME OrderInv, NEW c \in Cpus, write(c)
    PROVE  OrderInv'
<1> DEFINE t == [thr[c] EXCEPT !.pc = "update"]
           e == [seq |-> thr[c].hdr.seq, text |-> SubSeq(thr[c].got, 1, thr[c].rc)]
<1>1. /\ UNCHANGED <<inputs, rb, pdu, last, stop_threads, switch_file, late, misread>>
      /\ At(c, "write") /\ thr' = [thr EXCEPT ![c] = t]
      /\ log' = log \/ (thr[c].rc > 0 /\ log' = Append(log, e))
  BY DEF write, kernel, output, Goto, history
<1>2. log' = log => Goto(c, "update")
  BY <1>1 DEF Goto
<1>3. /\ t \in ReaderState /\ t.hdr = thr[c].hdr /\ t.got = thr[c].got /\ t.rc = thr[c].rc
      /\ t.pc = "update" /\ t.to = thr[c].to
  BY Shapes DEF ReaderState, ReaderPcs
<1> HIDE DEF t
<1>4. /\ thr' \in [Cpus -> ReaderState] /\ thr'[c] = t
      /\ \A d \in Cpus \ {c} : thr'[d] = thr[d]
      /\ \A d \in Cpus \ {c} : /\ Seqno(d)' = Seqno(d) /\ OnTurn(d)' = OnTurn(d)
                               /\ At(d, "update")' = At(d, "update")
  BY <1>1, <1>3, OneReader DEF OrderInv
<1>5. thr[c].to = "hdr" /\ OnTurn(c) /\ ~ At(c, "update") /\ Ready(thr[c])
  BY <1>1 DEF At, OnTurn, OrderInv, TextInv, Ready
<1>6. CASE log' = log
  <2>1. ~ Astray' /\ OnTurn(c)' => Seqno(c) = last + 1
    BY <1>1, <1>5 DEF OrderInv, TurnInv, Astray
  <2> QED
    BY <1>1, <1>3, <1>5, <1>6, <2>1, Shapes, KeepsHeader
<1>7. CASE thr[c].rc > 0 /\ log' = Append(log, e)
  <2>1. e \in Entry /\ (~ Astray => e.seq = Seqno(c))
    <3> DEFINE g == thr[c].got
               n == thr[c].rc
    <3>1. g \in Seq(Piece) /\ n \in Nat /\ n <= Len(g) /\ thr[c].hdr.seq \in Nat
      BY <1>5, Shapes DEF OrderInv, TextInv, ReaderState
    <3> HIDE DEF g, n
    <3>2. SubSeq(g, 1, n) \in Seq(Piece)
      BY <3>1
    <3> QED
      BY <3>1, <3>2 DEF Entry, Seqno, Astray, g, n
  <2> HIDE DEF e
  <2>2. \A d \in Cpus : Heads(Held(d))' = Heads(Held(d)) /\ Once(Held(d))'
    BY <1>1, SameBuffers DEF OrderInv
  <2>3. Seqno(c)' = Seqno(c) /\ At(c, "update")'
    BY <1>1, <1>3, <1>4 DEF Seqno, At
  <2>4. PlaceInv' /\ TurnInv'
    BY <1>1, <1>4, <1>7, <2>1, <2>2, <2>3, Writes DEF OrderInv, Astray
  <2>5. ShapeInv'
    <3>1. log' \in Seq(Entry)
      BY <1>7, <2>1 DEF OrderInv, ShapeInv
    <3> QED
      BY <1>1, <1>4, <3>1 DEF OrderInv, ShapeInv
  <2>6. TextInv'
    BY <1>1, <1>3, <1>4, <1>5, TextKept DEF OrderInv, TextInv
  <2> QED
    BY <2>4, <2>5, <2>6 DEF OrderInv
<1> QED
  BY <1>1, <1>6, <1>7

(* The next message may go ahead.                                           *)
LEMMA UpdateOrder ==
    ASSUME OrderInv, NEW c \in Cpus, update_last(c)
    PROVE  OrderInv'
<1> DEFINE t == [thr[c] EXCEPT !.pc = LoopPc, !.hdr = NoHdr, !.got = <<>>, !.rc = 0]
<1>1. /\ UNCHANGED <<inputs, rb, pdu, log, stop_threads, switch_file, late, misread>>
      /\ At(c, "update") /\ last' = IF last < thr[c].hdr.seq THEN thr[c].hdr.seq ELSE last
  BY DEF update_last, kernel, output, history
<1>2. thr' = [thr EXCEPT ![c] = t]
  BY DEF update_last
<1>3. LoopPc \in {"done", "poll"}
  BY DEF LoopPc
<1>4. /\ t \in ReaderState /\ t.hdr = NoHdr /\ t.got = <<>> /\ t.rc = 0
      /\ t.pc = LoopPc /\ t.to = thr[c].to
  <2> DEFINE l == LoopPc
             z == NoHdr
             g == <<>>
             n == 0
             s == [thr[c] EXCEPT !.pc = l, !.hdr = z, !.got = g, !.rc = n]
  <2>1. l \in ReaderPcs /\ z \in [seq : Nat, len : Nat] /\ g \in Seq(Piece) /\ n \in Nat
    BY <1>3 DEF ReaderPcs, NoHdr
  <2>2. thr[c] \in ReaderState
    BY Shapes
  <2>3. t = s
    OBVIOUS
  <2> HIDE DEF l, z, g, n, t
  <2>4. /\ s \in ReaderState /\ s.hdr = z /\ s.got = g /\ s.rc = n
        /\ s.pc = l /\ s.to = thr[c].to
    BY <2>1, <2>2 DEF ReaderState
  <2> QED
    BY <2>3, <2>4, Zenon DEF l, z, g, n
<1> HIDE DEF t
<1>5. /\ thr' \in [Cpus -> ReaderState] /\ thr'[c] = t
      /\ \A d \in Cpus \ {c} : thr'[d] = thr[d]
      /\ \A d \in Cpus \ {c} : /\ Seqno(d)' = Seqno(d) /\ OnTurn(d)' = OnTurn(d)
                               /\ At(d, "update")' = At(d, "update")
  BY <1>1, <1>2, <1>4, OneReader DEF OrderInv
<1>6. Seqno(c)' = 0 /\ ~ OnTurn(c)'
  BY <1>3, <1>4, <1>5 DEF Seqno, NoHdr, OnTurn, At
<1>7. \A d \in Cpus : Heads(Held(d))' = Heads(Held(d)) /\ Once(Held(d))'
  BY <1>1, SameBuffers DEF OrderInv
<1>8. PlaceInv' /\ TurnInv'
  <2>1. ~ Astray => last' = IF last < Seqno(c) THEN Seqno(c) ELSE last
    BY <1>1 DEF Seqno, Astray
  <2>2. Astray' = Astray
    BY <1>1 DEF Astray
  <2> QED
    BY <1>1, <1>5, <1>6, <1>7, <2>1, <2>2, LetsGo DEF OrderInv
<1>9. ShapeInv'
  <2>1. thr[c].hdr.seq \in Nat
    BY Shapes DEF ReaderState
  <2>2. last' \in Nat
    BY <1>1, <2>1, Shapes
  <2> QED
    BY <1>1, <1>5, <2>2 DEF OrderInv, ShapeInv
<1>10. TextInv'
  <2>1. thr[c].to = "hdr"
    BY <1>1 DEF OrderInv, TextInv, At
  <2> QED
    BY <1>1, <1>3, <1>4, <1>5, <2>1, TextKept DEF OrderInv, Ready
<1> QED
  BY <1>8, <1>9, <1>10 DEF OrderInv

(* The reader of cpu c reads n units, and has t in its hands afterwards.     *)
LEMMA ReadOrder ==
    ASSUME OrderInv, NEW c \in Cpus, NEW n \in 0 .. Len(Held(c)), NEW t \in ReaderState,
           rb' = [rb EXCEPT ![c] = Consume(SwitchOut(rb[c]), n)],
           thr' = [thr EXCEPT ![c] = t],
           UNCHANGED <<inputs, pdu, log, last, stop_threads, switch_file, late, misread>>,
           ~ At(c, "update"), t.to = "hdr",
           t.pc \notin {"write", "update", "close", "open"},
           Ready(t) => t.rc <= Len(t.got),
           t.pc = "body" => Len(t.got) <= t.hdr.len,
           t.pc \in {"body", "wait"} => misread \/ t.hdr.seq # 0,
           \/ t.hdr.seq = thr[c].hdr.seq
           \/ n > 0 /\ Held(c)[1].at = 0 /\ t.hdr.seq = Held(c)[1].m
    PROVE  OrderInv'
<1> DEFINE b == Consume(SwitchOut(rb[c]), n)
<1>1. rb[c] \in Buffers /\ Held(c) = Flat(rb[c]) /\ Once(Flat(rb[c]))
  BY BufferOf DEF OrderInv
<1>2. /\ b \in Buffers
      /\ Heads(Flat(b)) \subseteq Heads(Held(c)) /\ Once(Flat(b))
      /\ n > 0 /\ Held(c)[1].at = 0 =>
           Held(c)[1].m \in Heads(Held(c)) /\ Held(c)[1].m \notin Heads(Flat(b))
  BY <1>1, ReadBuf
<1> HIDE DEF b
<1>3. /\ rb' \in [Cpus -> Buffers]
      /\ Heads(Held(c))' = Heads(Flat(b)) /\ Once(Held(c))'
      /\ \A d \in Cpus \ {c} : Heads(Held(d))' = Heads(Held(d)) /\ Once(Held(d))'
  <2>1. rb' = [rb EXCEPT ![c] = b]
    BY DEF b
  <2> QED
    BY <1>2, <2>1, OneBuffer DEF OrderInv
<1>4. /\ thr' \in [Cpus -> ReaderState] /\ thr'[c] = t
      /\ \A d \in Cpus \ {c} : thr'[d] = thr[d]
      /\ \A d \in Cpus \ {c} : /\ Seqno(d)' = Seqno(d) /\ OnTurn(d)' = OnTurn(d)
                               /\ At(d, "update")' = At(d, "update")
  BY OneReader DEF OrderInv
<1>5. ShapeInv'
  BY <1>3, <1>4 DEF OrderInv, ShapeInv
<1>6. TextInv'
  BY <1>4, TextKept DEF OrderInv
<1>7. Seqno(c)' = (IF misread THEN 0 ELSE t.hdr.seq) /\ ~ OnTurn(c)'
  BY <1>4 DEF Seqno, OnTurn, At
<1>8. \/ Seqno(c)' = Seqno(c)
      \/ Seqno(c)' \in Heads(Held(c)) /\ Seqno(c)' \notin Heads(Held(c))'
  BY <1>2, <1>3, <1>7 DEF Seqno
<1>9. PlaceInv' /\ TurnInv'
  <2>1. Heads(Held(c))' \subseteq Heads(Held(c))
    BY <1>2, <1>3
  <2> QED
    BY <1>3, <1>4, <1>7, <1>8, <2>1, Reads DEF OrderInv, Astray
<1> QED
  BY <1>5, <1>6, <1>9 DEF OrderInv

(* The reader only goes elsewhere after its read.                           *)
LEMMA ReadGoes ==
    ASSUME OrderInv, NEW c \in Cpus, NEW n \in 0 .. Len(Held(c)),
           rb' = [rb EXCEPT ![c] = Consume(SwitchOut(rb[c]), n)],
           NEW l \in {"drain", "done", "poll"}, Goto(c, l),
           UNCHANGED <<inputs, pdu, log, last, stop_threads, switch_file, late, misread>>,
           thr[c].pc \in {"poll", "hdr", "drain"}
    PROVE  OrderInv'
<1> DEFINE t == [thr[c] EXCEPT !.pc = l]
<1>1. thr[c] \in ReaderState /\ l \in ReaderPcs
  BY Shapes DEF ReaderPcs
<1>2. /\ t \in ReaderState /\ t.pc = l /\ t.hdr = thr[c].hdr /\ t.got = thr[c].got
      /\ t.rc = thr[c].rc /\ t.to = thr[c].to
  BY <1>1 DEF ReaderState
<1>3. thr' = [thr EXCEPT ![c] = t]
  BY DEF Goto
<1> HIDE DEF t
<1>4. thr[c].to = "hdr" /\ ~ At(c, "update")
  BY DEF OrderInv, TextInv, At
<1>5. t.hdr.seq = thr[c].hdr.seq /\ ~ Ready(t)
  BY <1>2, <1>4 DEF Ready
<1> QED
  BY <1>2, <1>3, <1>4, <1>5, ReadOrder

(* The reader gets a header into its hands.                                 *)
LEMMA ReadGets ==
    ASSUME OrderInv, NEW c \in Cpus, NEW n \in 0 .. Len(Held(c)),
           rb' = [rb EXCEPT ![c] = Consume(SwitchOut(rb[c]), n)],
           NEW s \in Nat, NEW k \in Nat, s # 0,
           thr' = [thr EXCEPT ![c].pc = "body", ![c].got = <<>>,
                              ![c].hdr = [seq |-> s, len |-> k]],
           UNCHANGED <<inputs, pdu, log, last, stop_threads, switch_file, late, misread>>,
           thr[c].pc \in {"poll", "hdr"},
           n > 0, Held(c)[1].at = 0, s = Held(c)[1].m
    PROVE  OrderInv'
<1> DEFINE g == <<>>
           z == [seq |-> s, len |-> k]
           l == "body"
           t == [thr[c] EXCEPT !.pc = l, !.got = g, !.hdr = z]
<1>1. /\ thr[c] \in ReaderState /\ l \in ReaderPcs /\ g \in Seq(Piece) /\ Len(g) = 0
      /\ z \in [seq : Nat, len : Nat] /\ z.seq = s /\ z.len = k
  BY Shapes DEF ReaderPcs
<1>2. thr' = [thr EXCEPT ![c] = t]
  OBVIOUS
<1>3. l = "body"
  OBVIOUS
<1> HIDE DEF g, z, l
<1>4. /\ t \in ReaderState /\ t.pc = l /\ t.hdr = z /\ t.got = g
      /\ t.rc = thr[c].rc /\ t.to = thr[c].to
  BY <1>1 DEF ReaderState
<1> HIDE DEF t
<1>5. thr[c].to = "hdr" /\ ~ At(c, "update")
  BY DEF OrderInv, TextInv, At
<1>6. /\ t.to = "hdr" /\ t.pc = "body" /\ ~ Ready(t) /\ Len(t.got) <= t.hdr.len
      /\ t.hdr.seq = s
  BY <1>1, <1>3, <1>4, <1>5 DEF Ready
<1> QED
  BY <1>2, <1>4, <1>5, <1>6, ReadOrder

(* The reader takes something else for a header.                            *)
LEMMA Misreads ==
    ASSUME OrderInv, NEW c \in Cpus, NEW n \in 0 .. Len(Held(c)),
           rb' = [rb EXCEPT ![c] = Consume(SwitchOut(rb[c]), n)],
           NEW s \in Nat, NEW k \in Nat,
           thr' = [thr EXCEPT ![c].pc = "body", ![c].got = <<>>,
                              ![c].hdr = [seq |-> s, len |-> k]],
           UNCHANGED <<inputs, pdu, log, last, stop_threads, switch_file, late>>,
           misread' = TRUE, thr[c].pc \in {"poll", "hdr"}
    PROVE  OrderInv'
<1> DEFINE b == Consume(SwitchOut(rb[c]), n)
           g == <<>>
           z == [seq |-> s, len |-> k]
           l == "body"
           t == [thr[c] EXCEPT !.pc = l, !.got = g, !.hdr = z]
<1>1. rb[c] \in Buffers /\ Held(c) = Flat(rb[c]) /\ Once(Flat(rb[c]))
  BY BufferOf DEF OrderInv
<1>2. b \in Buffers /\ Heads(Flat(b)) \subseteq Heads(Held(c)) /\ Once(Flat(b))
  BY <1>1, ReadBuf
<1>3. rb' = [rb EXCEPT ![c] = b]
  OBVIOUS
<1> HIDE DEF b
<1>4. /\ rb' \in [Cpus -> Buffers]
      /\ Heads(Held(c))' = Heads(Flat(b)) /\ Once(Held(c))'
      /\ \A d \in Cpus \ {c} : Heads(Held(d))' = Heads(Held(d)) /\ Once(Held(d))'
  BY <1>2, <1>3, OneBuffer DEF OrderInv
<1>5. /\ thr[c] \in ReaderState /\ l \in ReaderPcs /\ g \in Seq(Piece) /\ Len(g) = 0
      /\ z \in [seq : Nat, len : Nat] /\ z.seq = s /\ z.len = k
  BY Shapes DEF ReaderPcs
<1>6. thr' = [thr EXCEPT ![c] = t] /\ l = "body"
  OBVIOUS
<1> HIDE DEF g, z, l
<1>7. /\ t \in ReaderState /\ t.pc = l /\ t.hdr = z /\ t.got = g
      /\ t.rc = thr[c].rc /\ t.to = thr[c].to
  BY <1>5 DEF ReaderState
<1> HIDE DEF t
<1>8. thr[c].to = "hdr"
  BY DEF OrderInv, TextInv, At
<1>9. /\ thr' \in [Cpus -> ReaderState] /\ thr'[c] = t
      /\ \A d \in Cpus \ {c} : thr'[d] = thr[d]
  <2>1. thr \in [Cpus -> ReaderState]
    BY DEF OrderInv, ShapeInv
  <2> QED
    BY <1>6, <1>7, <2>1
<1>10. ShapeInv'
  BY <1>4, <1>9 DEF OrderInv, ShapeInv
<1>11. TextInv'
  <2>1. ~ Ready(t) /\ Len(t.got) <= t.hdr.len /\ t.to = "hdr"
    BY <1>5, <1>6, <1>7, <1>8 DEF Ready
  <2> QED
    BY <1>9, <2>1, TextKept DEF OrderInv
<1>12. \A d \in Cpus : Seqno(d)' = 0
  BY DEF Seqno
<1>13. \A d \in Cpus : Heads(Held(d))' \subseteq Heads(Held(d)) /\ Once(Held(d))'
  BY <1>2, <1>4
<1>14. Message' = Message /\ 0 \notin Message
  BY DEF Message
<1>15. PlaceInv'
  <2>1. \A a \in Cpus : Once(Held(a))' /\ Heads(Held(a))' \subseteq Message'
    BY <1>13, <1>14 DEF OrderInv, PlaceInv
  <2>2. \A a, d \in Cpus : a # d => (Heads(Held(a)) \cap Heads(Held(d)))' = {}
    BY <1>13 DEF OrderInv, PlaceInv
  <2> QED
    BY <1>12, <1>14, <2>1, <2>2 DEF PlaceInv
<1>16. TurnInv'
  BY DEF TurnInv, Astray
<1> QED
  BY <1>10, <1>11, <1>15, <1>16 DEF OrderInv

(* read(2) of the header.                                                   *)
LEMMA HeaderOrder ==
    ASSUME OrderInv, NEW c \in Cpus, read_header(c)
    PROVE  OrderInv'
<1> DEFINE b == SwitchOut(rb[c])
           u == Avail(b.subs)
           l == IF b.subs = <<>> THEN "drain" ELSE LoopPc
           h == Held(c)
<1>1. u = h /\ h \in Seq(Piece) /\ Len(h) \in Nat
  BY BufferOf DEF OrderInv
<1>2. thr[c].pc \in {"poll", "hdr"}
  BY DEF read_header, At
<1>3. UNCHANGED <<inputs, pdu, log, last, stop_threads, switch_file, late>>
  BY DEF read_header, output
<1>4. \/ u = <<>> /\ rb' = [rb EXCEPT ![c] = Consume(b, 0)] /\ Goto(c, l) /\ misread' = misread
      \/ /\ u # <<>> /\ Head(u).at = 0 /\ rb' = [rb EXCEPT ![c] = Consume(b, 1)]
         /\ thr' = [thr EXCEPT ![c].pc = "body", ![c].got = <<>>,
                         ![c].hdr = [seq |-> Head(u).m, len |-> pdu[Head(u).m]]]
         /\ misread' = misread
      \/ /\ u # <<>> /\ rb' = [rb EXCEPT ![c] = Consume(b, 1)] /\ Goto(c, "drain")
         /\ misread' = misread
      \/ /\ \E n \in 1 .. Len(u) : rb' = [rb EXCEPT ![c] = Consume(b, n)]
         /\ \E seq \in 0 .. FalseSeq, len \in 1 .. MaxBody :
              thr' = [thr EXCEPT ![c].pc = "body", ![c].got = <<>>,
                                 ![c].hdr = [seq |-> seq, len |-> len]]
         /\ misread' = TRUE
  BY Zenon DEF read_header
<1>5. l \in {"drain", "done", "poll"} /\ "drain" \in {"drain", "done", "poll"}
  BY DEF LoopPc
<1>6. 0 \in 0 .. Len(h) /\ (u # <<>> => 1 \in 0 .. Len(h) /\ Len(h) > 0)
      /\ (\A n \in 1 .. Len(u) : n \in 0 .. Len(h)) /\ (u # <<>> => Head(u) = h[1])
  BY <1>1
<1> HIDE DEF u, l, h
<1>7. ASSUME u = <<>>, rb' = [rb EXCEPT ![c] = Consume(b, 0)], Goto(c, l), misread' = misread
      PROVE  OrderInv'
  BY <1>2, <1>3, <1>5, <1>6, <1>7, ReadGoes DEF h
<1>8. ASSUME u # <<>>, rb' = [rb EXCEPT ![c] = Consume(b, 1)], Goto(c, "drain"),
             misread' = misread
      PROVE  OrderInv'
  BY <1>2, <1>3, <1>5, <1>6, <1>8, ReadGoes DEF h
<1>9. ASSUME u # <<>>, Head(u).at = 0, rb' = [rb EXCEPT ![c] = Consume(b, 1)],
             thr' = [thr EXCEPT ![c].pc = "body", ![c].got = <<>>,
                         ![c].hdr = [seq |-> Head(u).m, len |-> pdu[Head(u).m]]],
             misread' = misread
      PROVE  OrderInv'
  <2> DEFINE s == Head(u).m
             k == pdu[s]
  <2>1. s \in Heads(h)
    <3>1. 1 \in 1 .. Len(h) /\ h[1].at = 0 /\ s = h[1].m
      BY <1>1, <1>6, <1>9
    <3> QED
      BY <3>1 DEF Heads
  <2>2. s \in Message
    BY <2>1 DEF OrderInv, PlaceInv, h
  <2>3. s \in Nat /\ s # 0 /\ k \in Nat
    BY <2>2 DEF Message, OrderInv, ShapeInv
  <2>4. h[1].at = 0 /\ s = h[1].m
    BY <1>6, <1>9
  <2>5. thr' = [thr EXCEPT ![c].pc = "body", ![c].got = <<>>,
                           ![c].hdr = [seq |-> s, len |-> k]]
    BY <1>9
  <2> HIDE DEF s, k
  <2> DEFINE n == 1
  <2>6. n \in 0 .. Len(Held(c)) /\ n > 0 /\ Held(c)[1].at = 0 /\ s = Held(c)[1].m
    BY <1>6, <1>9, <2>4 DEF h
  <2>7. rb' = [rb EXCEPT ![c] = Consume(SwitchOut(rb[c]), n)]
    BY <1>9
  <2> HIDE DEF n
  <2> QED
    BY <1>2, <1>3, <1>9, <2>3, <2>5, <2>6, <2>7, ReadGets
<1>10. ASSUME NEW n \in 1 .. Len(u), rb' = [rb EXCEPT ![c] = Consume(b, n)],
              NEW seq \in 0 .. FalseSeq, NEW len \in 1 .. MaxBody,
              thr' = [thr EXCEPT ![c].pc = "body", ![c].got = <<>>,
                                 ![c].hdr = [seq |-> seq, len |-> len]],
              misread' = TRUE
       PROVE  OrderInv'
  <2>1. seq \in Nat /\ len \in Nat /\ n \in 0 .. Len(Held(c))
    BY <1>6 DEF h
  <2> QED
    BY <1>2, <1>3, <1>10, <2>1, Misreads
<1> QED
  BY <1>4, <1>7, <1>8, <1>9, <1>10

(* The draining read.                                                       *)
LEMMA DrainOrder ==
    ASSUME OrderInv, NEW c \in Cpus, drain(c)
    PROVE  OrderInv'
<1> DEFINE u == Avail(SwitchOut(rb[c]).subs)
<1>1. u = Held(c) /\ Len(Held(c)) \in Nat
  BY BufferOf DEF OrderInv
<1>2. /\ At(c, "drain") /\ rb' = [rb EXCEPT ![c] = Consume(SwitchOut(rb[c]), Len(u))]
      /\ Goto(c, LoopPc)
      /\ UNCHANGED <<inputs, pdu, log, last, stop_threads, switch_file, late, misread>>
  BY DEF drain, output, history
<1> HIDE DEF u
<1>3. Len(u) \in 0 .. Len(Held(c)) /\ LoopPc \in {"drain", "done", "poll"}
  BY <1>1 DEF LoopPc
<1>4. thr[c].pc \in {"poll", "hdr", "drain"}
  BY <1>2 DEF At
<1> QED
  BY <1>2, <1>3, <1>4, ReadGoes

(* The text that is appended to what has been read.                         *)
LEMMA MoreText ==
    ASSUME NEW g \in Seq(Piece), NEW h \in Seq(Piece), NEW n \in 0 .. Len(h)
    PROVE  LET x == g \o SubSeq(h, 1, n)
           IN  x \in Seq(Piece) /\ Len(x) = Len(g) + n /\ n \in Nat /\ Len(g) \in Nat
<1> DEFINE y == SubSeq(h, 1, n)
<1>1. y \in Seq(Piece) /\ Len(y) = n /\ n \in Nat
  OBVIOUS
<1> HIDE DEF y
<1>2. g \o y \in Seq(Piece) /\ Len(g \o y) = Len(g) + n /\ Len(g) \in Nat
  BY <1>1
<1> QED
  BY <1>1, <1>2 DEF y

(* read(2) of the text.                                                     *)
LEMMA BodyOrder ==
    ASSUME OrderInv, NEW c \in Cpus, read_body(c)
    PROVE  OrderInv'
<1> DEFINE h == Held(c)
           old == thr[c].got
           want == thr[c].hdr.len - Len(old)
           n == IF Len(h) < want THEN Len(h) ELSE want
           g == old \o SubSeq(h, 1, n)
           l == IF n > 0 /\ n < want THEN "body" ELSE "wait"
           t == [thr[c] EXCEPT !.got = g, !.rc = n, !.pc = l]
<1>1. Avail(SwitchOut(rb[c]).subs) = h /\ h \in Seq(Piece) /\ Len(h) \in Nat
  BY BufferOf DEF OrderInv
<1>2. /\ At(c, "body") /\ rb' = [rb EXCEPT ![c] = Consume(SwitchOut(rb[c]), n)]
      /\ thr' = [thr EXCEPT ![c] = t]
      /\ UNCHANGED <<inputs, pdu, log, last, stop_threads, switch_file, late, misread>>
  BY <1>1 DEF read_body, output, history
<1>3. /\ thr[c] \in ReaderState /\ old \in Seq(Piece) /\ Len(old) \in Nat
      /\ thr[c].hdr.len \in Nat /\ thr[c].to = "hdr"
      /\ Len(old) <= thr[c].hdr.len /\ (misread \/ thr[c].hdr.seq # 0) /\ ~ At(c, "update")
  BY <1>2, Shapes DEF OrderInv, TextInv, At, ReaderState
<1>4. want \in Nat /\ n \in 0 .. Len(h) /\ n \in Nat /\ n <= want
  <2> HIDE DEF old, h
  <2> QED
    BY <1>1, <1>3
<1>5. thr[c].hdr.len = Len(old) + want
  <2> HIDE DEF old
  <2> QED
    BY <1>3
<1> HIDE DEF n, want, h, old
<1>6. g \in Seq(Piece) /\ Len(g) = Len(old) + n
  BY <1>1, <1>3, <1>4, MoreText
<1>7. l \in ReaderPcs /\ l \in {"body", "wait"}
  BY DEF ReaderPcs
<1> HIDE DEF g, l
<1>8. /\ t \in ReaderState /\ t.got = g /\ t.rc = n /\ t.pc = l
      /\ t.hdr = thr[c].hdr /\ t.to = thr[c].to
  BY <1>3, <1>4, <1>6, <1>7 DEF ReaderState
<1> HIDE DEF t
<1>9. t.rc <= Len(t.got) /\ Len(t.got) <= t.hdr.len
  BY <1>3, <1>4, <1>5, <1>6, <1>8
<1>10. t.hdr.seq = thr[c].hdr.seq /\ (misread \/ t.hdr.seq # 0) /\ t.to = "hdr"
  BY <1>3, <1>8
<1>11. t.pc \notin {"write", "update", "close", "open"}
  BY <1>7, <1>8
<1>12. n \in 0 .. Len(Held(c))
  BY <1>4 DEF h
<1> QED
  BY <1>2, <1>3, <1>8, <1>9, <1>10, <1>11, <1>12, ReadOrder

(* All a step does to the readers is to wake some of them.                  *)
Woken(d) ==
    /\ thr'[d] \in ReaderState /\ thr'[d].hdr = thr[d].hdr /\ thr'[d].got = thr[d].got
    /\ thr'[d].rc = thr[d].rc /\ thr'[d].to = thr[d].to
    /\ thr'[d].pc = thr[d].pc \/ (At(d, "asleep") /\ thr'[d].pc = "poll")

(* Then the turns are what they were.                                       *)
LEMMA WakeOrder ==
    ASSUME OrderInv, \A d \in Cpus : Woken(d), thr' \in [Cpus -> ReaderState],
           rb' \in [Cpus -> Buffers],
           \A d \in Cpus : Heads(Held(d))' = Heads(Held(d)) /\ Once(Held(d))',
           UNCHANGED <<pdu, last, log, late, misread>>,
           inputs' \in 0 .. MaxInputs, Len(pdu) <= inputs',
           switch_file' \in [Cpus -> BOOLEAN], stop_threads' \in BOOLEAN
    PROVE  OrderInv'
<1>1. ShapeInv'
  BY DEF OrderInv, ShapeInv
<1>2. TextInv'
  BY DEF OrderInv, TextInv, Woken, At, Ready
<1>3. \A d \in Cpus : /\ Seqno(d)' = Seqno(d) /\ (OnTurn(d)' => OnTurn(d))
                      /\ At(d, "update") => At(d, "update")'
  BY DEF Woken, Seqno, OnTurn, At
<1>4. ~ Astray' => \A d \in Cpus : OnTurn(d)' => Seqno(d) = last + 1
  BY <1>3 DEF OrderInv, TurnInv, Astray
<1>5. PlaceInv' /\ TurnInv'
  BY <1>3, <1>4, MovesOn DEF OrderInv, Astray
<1> QED
  BY <1>1, <1>2, <1>5 DEF OrderInv

(* Wake() wakes.                                                            *)
LEMMA WakeWakes ==
    ASSUME OrderInv, NEW S, Wake(S)
    PROVE  (\A d \in Cpus : Woken(d)) /\ thr' \in [Cpus -> ReaderState]
<1> DEFINE t(d) == IF At(d, "asleep") /\ d \in S THEN [thr[d] EXCEPT !.pc = "poll"] ELSE thr[d]
<1>1. thr' = [d \in Cpus |-> t(d)]
  BY DEF Wake
<1>2. ASSUME NEW d \in Cpus
      PROVE  /\ t(d) \in ReaderState /\ t(d).hdr = thr[d].hdr /\ t(d).got = thr[d].got
             /\ t(d).rc = thr[d].rc /\ t(d).to = thr[d].to
             /\ t(d).pc = thr[d].pc \/ (At(d, "asleep") /\ t(d).pc = "poll")
  <2>1. thr[d] \in ReaderState /\ "poll" \in ReaderPcs
    BY Shapes DEF ReaderPcs
  <2>2. CASE At(d, "asleep") /\ d \in S
    <3>1. t(d) = [thr[d] EXCEPT !.pc = "poll"]
      BY <2>2
    <3> HIDE DEF t
    <3> QED
      BY <2>1, <2>2, <3>1 DEF ReaderState
  <2>3. CASE ~(At(d, "asleep") /\ d \in S)
    <3>1. t(d) = thr[d]
      BY <2>3
    <3> HIDE DEF t
    <3> QED
      BY <2>1, <3>1
  <2> QED
    BY <2>2, <2>3
<1> HIDE DEF t
<1> QED
  BY <1>1, <1>2 DEF Woken

(* So does pthread_kill,                                                    *)
LEMMA KillWakes ==
    ASSUME OrderInv, NEW d \in Cpus
    PROVE  LET t == pthread_kill(thr[d])
           IN  /\ t \in ReaderState /\ t.hdr = thr[d].hdr /\ t.got = thr[d].got
               /\ t.rc = thr[d].rc /\ t.to = thr[d].to
               /\ t.pc = thr[d].pc \/ (At(d, "asleep") /\ t.pc = "poll")
<1> DEFINE s == thr[d].pc \notin {"done", "dead"}
           l == IF thr[d].pc = "asleep" THEN "poll" ELSE thr[d].pc
           t == [thr[d] EXCEPT !.sig = s, !.pc = l]
<1>1. thr[d] \in ReaderState
  BY Shapes
<1>2. s \in BOOLEAN /\ l \in ReaderPcs
  BY <1>1 DEF ReaderPcs, ReaderState
<1>3. l = thr[d].pc \/ (At(d, "asleep") /\ l = "poll")
  BY DEF At
<1>4. pthread_kill(thr[d]) = t
  BY DEF pthread_kill
<1> HIDE DEF s, l
<1>5. /\ t \in ReaderState /\ t.hdr = thr[d].hdr /\ t.got = thr[d].got
      /\ t.rc = thr[d].rc /\ t.to = thr[d].to /\ t.pc = l
  BY <1>1, <1>2 DEF ReaderState
<1> HIDE DEF t
<1> QED
  BY <1>3, <1>4, <1>5

(* of one reader or of all.                                                 *)
LEMMA SignalWakes ==
    ASSUME OrderInv, \/ thr' = [c \in Cpus |-> pthread_kill(thr[c])]
                     \/ \E i \in Cpus : thr' = [thr EXCEPT ![i] = pthread_kill(thr[i])]
    PROVE  (\A d \in Cpus : Woken(d)) /\ thr' \in [Cpus -> ReaderState]
<1>1. thr \in [Cpus -> ReaderState]
  BY DEF OrderInv, ShapeInv
<1>2. \A d \in Cpus : thr'[d] = pthread_kill(thr[d]) \/ thr'[d] = thr[d]
  BY <1>1
<1>3. ASSUME NEW d \in Cpus PROVE Woken(d)
  <2> DEFINE t == pthread_kill(thr[d])
  <2>1. /\ t \in ReaderState /\ t.hdr = thr[d].hdr /\ t.got = thr[d].got
        /\ t.rc = thr[d].rc /\ t.to = thr[d].to
        /\ t.pc = thr[d].pc \/ (At(d, "asleep") /\ t.pc = "poll")
    BY KillWakes
  <2>2. thr[d] \in ReaderState
    BY <1>1
  <2>3. thr'[d] = t \/ thr'[d] = thr[d]
    BY <1>2
  <2> HIDE DEF t
  <2> QED
    BY <2>1, <2>2, <2>3 DEF Woken
<1>4. DOMAIN thr' = Cpus /\ thr' = [d \in Cpus |-> thr'[d]]
  BY <1>1
<1> QED
  BY <1>3, <1>4 DEF Woken

(* The wakeup timer.                                                        *)
LEMMA TimerOrder ==
    ASSUME OrderInv, wakeup_timer
    PROVE  OrderInv'
<1>1. /\ Wake({c \in Cpus : ~ buf_empty(rb[c])})
      /\ UNCHANGED <<inputs, rb, pdu, log, last, stop_threads, switch_file, late, misread>>
  BY DEF wakeup_timer, output, history
<1>2. (\A d \in Cpus : Woken(d)) /\ thr' \in [Cpus -> ReaderState]
  BY <1>1, WakeWakes
<1>3. \A d \in Cpus : Heads(Held(d))' = Heads(Held(d)) /\ Once(Held(d))'
  BY <1>1, SameBuffers DEF OrderInv
<1>4. rb' \in [Cpus -> Buffers]
  BY <1>1 DEF OrderInv, ShapeInv
<1> QED
  BY <1>1, <1>2, <1>3, <1>4, Shapes, WakeOrder

(* The flush when the transport stops.                                      *)
LEMMA StopOrder ==
    ASSUME OrderInv, data_fs_stop
    PROVE  OrderInv'
<1>1. /\ Wake({c \in Cpus : ~ rb[c].full})
      /\ rb' = [c \in Cpus |-> switch_subbuf(rb[c])]
      /\ UNCHANGED <<inputs, pdu, log, last, stop_threads, switch_file, late, misread>>
  BY DEF data_fs_stop, output, history
<1>2. (\A d \in Cpus : Woken(d)) /\ thr' \in [Cpus -> ReaderState]
  BY <1>1, WakeWakes
<1>3. ASSUME NEW d \in Cpus
      PROVE  switch_subbuf(rb[d]) \in Buffers /\ Flat(switch_subbuf(rb[d])) = Flat(rb[d])
  BY BufferOf, SwitchFlat DEF OrderInv
<1>4. rb' \in [Cpus -> Buffers] /\ \A d \in Cpus : rb'[d] = switch_subbuf(rb[d])
  BY <1>1, <1>3
<1>5. \A d \in Cpus : Held(d)' = Held(d)
  <2>1. \A d \in Cpus : Held(d)' = Flat(switch_subbuf(rb[d])) /\ Held(d) = Flat(rb[d])
    BY <1>4 DEF Held, Flat
  <2> QED
    BY <1>3, <2>1
<1>6. \A d \in Cpus : Heads(Held(d))' = Heads(Held(d)) /\ Once(Held(d))'
  <2>1. \A d \in Cpus : Once(Held(d))
    BY DEF OrderInv, PlaceInv
  <2> QED
    BY <1>5, <2>1 DEF Heads, Once
<1> QED
  BY <1>1, <1>2, <1>4, <1>6, Shapes, WakeOrder

(* A step that moves no unit and no header, and wakes readers at most.      *)
LEMMA AsideOrder ==
    ASSUME OrderInv, \A d \in Cpus : Woken(d), thr' \in [Cpus -> ReaderState],
           UNCHANGED <<rb, pdu, log, last, late, misread>>,
           inputs' \in 0 .. MaxInputs, Len(pdu) <= inputs',
           switch_file' \in [Cpus -> BOOLEAN], stop_threads' \in BOOLEAN
    PROVE  OrderInv'
<1>1. \A d \in Cpus : Heads(Held(d))' = Heads(Held(d)) /\ Once(Held(d))'
  BY SameBuffers DEF OrderInv
<1>2. rb' \in [Cpus -> Buffers]
  BY DEF OrderInv, ShapeInv
<1> QED
  BY <1>1, <1>2, WakeOrder

(* Readers that nobody touches.                                             *)
LEMMA Untouched ==
    ASSUME OrderInv, thr' = thr
    PROVE  (\A d \in Cpus : Woken(d)) /\ thr' \in [Cpus -> ReaderState]
<1>1. thr \in [Cpus -> ReaderState]
  BY DEF OrderInv, ShapeInv
<1> QED
  BY <1>1 DEF Woken

(* The signals that come from outside, and those of the main thread when it
   closes.                                                                  *)
LEMMA SignalOrder ==
    ASSUME OrderInv, sigusr2 \/ main_signalled \/ close_relayfs
    PROVE  OrderInv'
<1>1. UNCHANGED <<rb, pdu, log, last, late, misread, switch_file>>
  BY DEF sigusr2, main_signalled, close_relayfs, kernel, output, history
<1>2. thr' = thr \/ thr' = [c \in Cpus |-> pthread_kill(thr[c])]
  BY DEF sigusr2, main_signalled, close_relayfs
<1>3. (\A d \in Cpus : Woken(d)) /\ thr' \in [Cpus -> ReaderState]
  BY <1>2, SignalWakes, Untouched
<1>4. inputs' \in 0 .. MaxInputs /\ Len(pdu) <= inputs'
  BY Shapes DEF sigusr2, main_signalled, close_relayfs, Input
<1>5. switch_file' \in [Cpus -> BOOLEAN] /\ stop_threads' \in BOOLEAN
  BY <1>1, Shapes DEF sigusr2, main_signalled, close_relayfs
<1> QED
  BY <1>1, <1>3, <1>4, <1>5, AsideOrder

(* A thread goes through switchfile_handler.                                *)
LEMMA HandlerOrder ==
    ASSUME OrderInv, HandlerInv, NEW t \in Threads, switchfile_handler(t)
    PROVE  OrderInv'
<1>1. UNCHANGED <<inputs, rb, pdu, log, last, late, misread, stop_threads>>
  BY DEF switchfile_handler, handler_check, handler_set, handler_kill, handler_return,
         kernel, output, history
<1>2. hnd[t].i \in Cpus
  BY DEF HandlerInv
<1>3. switch_file' \in [Cpus -> BOOLEAN] /\ stop_threads' \in BOOLEAN
  BY <1>1, <1>2, Shapes DEF switchfile_handler, handler_check, handler_set, handler_kill,
                            handler_return
<1>4. CASE handler_check(t) \/ handler_set(t) \/ handler_kill(t)
  <2>1. thr' = thr \/ thr' = [thr EXCEPT ![hnd[t].i] = pthread_kill(thr[hnd[t].i])]
    BY <1>4 DEF handler_check, handler_set, handler_kill
  <2>2. (\A d \in Cpus : Woken(d)) /\ thr' \in [Cpus -> ReaderState]
    BY <1>2, <2>1, SignalWakes, Untouched
  <2> QED
    BY <1>1, <1>3, <2>2, Shapes, AsideOrder
<1>5. CASE handler_return(t)
  <2>0. thr \in [Cpus -> ReaderState]
    BY DEF OrderInv, ShapeInv
  <2>1. CASE t \in Cpus
    <3>1. Goto(t, "eintr")
      BY <1>5, <2>0, <2>1 DEF handler_return, Goto
    <3>2. At(t, "handler")
      BY <1>5, <2>1 DEF handler_return, HandlerInv
    <3>3. "eintr" \in ReaderPcs /\ thr[t].to = "hdr" /\ ~ At(t, "update")
      BY <2>1, <3>2 DEF OrderInv, TextInv, At, ReaderPcs
    <3> QED
      BY <1>1, <1>3, <2>1, <3>1, <3>3, Shapes, JustGoes
  <2>2. CASE t \notin Cpus
    <3>1. thr' = thr
      BY <1>5, <2>0, <2>2 DEF handler_return
    <3> QED
      BY <1>1, <1>3, <3>1, Untouched, Shapes, AsideOrder
  <2> QED
    BY <2>1, <2>2
<1> QED
  BY <1>4, <1>5 DEF switchfile_handler

(* A flush.                                                                 *)
LEMMA FlushOrder ==
    ASSUME OrderInv, NEW c \in Cpus, NEW len \in 1 .. MaxBody, __stp_print_flush(c, len)
    PROVE  OrderInv'
<1> DEFINE r == write_reserve(rb[c], 1 + len)
           m == Len(pdu) + 1
           s == [buf |-> Fill(r.buf, Units(m, 0, r.k - 1)), next |-> r.k, failed |-> FALSE]
           st == CopyRest(s, m, len)
           j == Fill(r.buf, [i \in 1 .. r.k |-> Junk])
<1>1. /\ inputs < MaxInputs /\ inputs' = inputs + 1
      /\ \/ r.k > 1 /\ rb' = [rb EXCEPT ![c] = st.buf] /\ pdu' = Append(pdu, len)
         \/ r.k <= 1 /\ rb' = [rb EXCEPT ![c] = j] /\ pdu' = pdu
      /\ UNCHANGED <<thr, last, log, stop_threads, switch_file, late, misread>>
  BY Zenon DEF __stp_print_flush, Input, output, history
<1>2. /\ rb[c] \in Buffers /\ Held(c) = Flat(rb[c]) /\ Once(Flat(rb[c]))
      /\ len \in Nat /\ m \in Nat /\ pdu \in Seq(Nat) /\ Len(pdu) \in Nat
  <2>1. len \in Nat
    OBVIOUS
  <2>2. pdu \in Seq(Nat)
    BY DEF OrderInv, ShapeInv
  <2> QED
    BY <2>1, <2>2, BufferOf DEF OrderInv
<1>3. TextInv'
  BY <1>1 DEF OrderInv, TextInv, At
<1>4. inputs' \in 0 .. MaxInputs /\ Len(pdu) + 1 <= inputs' /\ Len(pdu) < MaxInputs
  BY <1>1, Shapes
<1>5. ASSUME r.k > 1, rb' = [rb EXCEPT ![c] = st.buf], pdu' = Append(pdu, len)
      PROVE  OrderInv'
  <2>1. m \notin Heads(Flat(rb[c]))
    <3>1. Heads(Held(c)) \subseteq 1 .. Len(pdu)
      BY DEF OrderInv, PlaceInv, Message
    <3> QED
      BY <1>2, <3>1
  <2>2. /\ st.buf \in Buffers /\ Once(Flat(st.buf))
        /\ Heads(Flat(st.buf)) = Heads(Held(c)) \cup {m}
    BY <1>2, <1>5, <2>1, FlushBuf
  <2> HIDE DEF st, r
  <2>3. /\ rb' \in [Cpus -> Buffers]
        /\ Heads(Held(c))' = Heads(Flat(st.buf)) /\ Once(Held(c))'
        /\ \A d \in Cpus \ {c} : Heads(Held(d))' = Heads(Held(d)) /\ Once(Held(d))'
    BY <1>5, <2>2, OneBuffer DEF OrderInv
  <2>4. PlaceInv' /\ TurnInv'
    <3>1. Heads(Held(c))' = Heads(Held(c)) \cup {Len(pdu) + 1}
      BY <2>2, <2>3
    <3> QED
      BY <1>1, <1>2, <1>4, <1>5, <2>3, <3>1, Flushes DEF OrderInv, Astray
  <2>5. ShapeInv'
    <3>1. pdu' \in Seq(Nat) /\ Len(pdu') = Len(pdu) + 1
      BY <1>2, <1>5
    <3> QED
      BY <1>1, <1>4, <2>3, <3>1 DEF OrderInv, ShapeInv
  <2> QED
    BY <1>3, <2>4, <2>5 DEF OrderInv
<1>6. ASSUME r.k <= 1, rb' = [rb EXCEPT ![c] = j], pdu' = pdu
      PROVE  OrderInv'
  <2>1. j \in Buffers /\ Heads(Flat(j)) = Heads(Held(c)) /\ Once(Flat(j))
    BY <1>2, <1>6, JunkBuf
  <2> HIDE DEF j, r
  <2>2. /\ rb' \in [Cpus -> Buffers]
        /\ Heads(Held(c))' = Heads(Flat(j)) /\ Once(Held(c))'
        /\ \A d \in Cpus \ {c} : Heads(Held(d))' = Heads(Held(d)) /\ Once(Held(d))'
    BY <1>6, <2>1, OneBuffer DEF OrderInv
  <2>3. \A d \in Cpus : Heads(Held(d))' = Heads(Held(d)) /\ Once(Held(d))'
    BY <2>1, <2>2
  <2>4. (\A d \in Cpus : Woken(d)) /\ thr' \in [Cpus -> ReaderState]
    <3>1. thr \in [Cpus -> ReaderState]
      BY DEF OrderInv, ShapeInv
    <3> QED
      BY <1>1, <3>1 DEF Woken
  <2>5. Len(pdu) <= inputs'
    BY <1>2, <1>4
  <2>6. switch_file' \in [Cpus -> BOOLEAN] /\ stop_threads' \in BOOLEAN
    BY <1>1, Shapes
  <2> QED
    BY <1>1, <1>4, <1>6, <2>2, <2>3, <2>4, <2>5, <2>6, WakeOrder
<1> HIDE DEF r, st, j
<1> QED
  BY <1>1, <1>5, <1>6

-----------------------------------------------------------------------------
(* The invariant of the specification.                                      *)

(* All buffers are empty at first, and no reader has anything.              *)
LEMMA InitOrder ==
    ASSUME Init
    PROVE  OrderInv
<1>1. NewReader \in ReaderState /\ NewReader.pc = "poll" /\ NewReader.hdr.seq = 0
      /\ NewReader.to = "hdr"
  BY DEF NewReader, ReaderState, ReaderPcs, NoHdr
<1>2. EmptyBuf \in Buffers
  BY DEF EmptyBuf, Buffers, Buffer
<1>3. /\ rb = [c \in Cpus |-> EmptyBuf] /\ thr = [c \in Cpus |-> NewReader]
      /\ pdu = <<>> /\ log = <<>> /\ inputs = 0 /\ last = 0 /\ late = FALSE /\ misread = FALSE
      /\ switch_file = [c \in Cpus |-> FALSE] /\ stop_threads = FALSE
  BY DEF Init
<1>4. ShapeInv
  <2>1. rb \in [Cpus -> Buffers] /\ thr \in [Cpus -> ReaderState]
    BY <1>1, <1>2, <1>3
  <2>2. /\ pdu \in Seq(Nat) /\ Len(pdu) <= inputs /\ inputs \in 0 .. MaxInputs
        /\ log \in Seq(Entry)
    BY <1>3, RelayAssumption
  <2>3. switch_file \in [Cpus -> BOOLEAN] /\ stop_threads \in BOOLEAN
    BY <1>3
  <2> QED
    BY <1>3, <2>1, <2>2, <2>3 DEF ShapeInv
<1>5. \A c \in Cpus : thr[c] = NewReader
  BY <1>3
<1>6. TextInv
  BY <1>1, <1>5 DEF TextInv, At, Ready
<1>7. \A c \in Cpus : Held(c) = <<>>
  <2>1. \A c \in Cpus : rb[c].subs = <<>> /\ rb[c].cur = <<>>
    BY <1>3 DEF EmptyBuf
  <2>2. <<>> \o <<>> = <<>>
    OBVIOUS
  <2> QED
    BY <2>1, <2>2, AvailNone DEF Held
<1>8. \A c \in Cpus : Heads(Held(c)) = {} /\ Once(Held(c))
  BY <1>7, HeadsNone
<1>9. Message = {}
  BY <1>3 DEF Message
<1>10. \A c \in Cpus : Seqno(c) = 0 /\ ~ OnTurn(c)
  BY <1>1, <1>5 DEF Seqno, OnTurn, At
<1>11. PlaceInv
  BY <1>8, <1>9, <1>10 DEF PlaceInv
<1>12. TurnInv
  <2>1. Len(log) = 0 /\ Len(pdu) = 0 /\ last = 0
    BY <1>3
  <2> QED
    BY <1>8, <1>10, <2>1 DEF TurnInv
<1> QED
  BY <1>4, <1>6, <1>11, <1>12 DEF OrderInv

(* A step that changes nothing keeps it.                                    *)
LEMMA StutterOrder ==
    ASSUME OrderInv, UNCHANGED vars
    PROVE  OrderInv'
<1>1. UNCHANGED <<rb, pdu, log, inputs, thr, last, stop_threads, switch_file, late, misread>>
  BY DEF vars, kernel, output, history
<1>2. rb' \in [Cpus -> Buffers] /\ thr' \in [Cpus -> ReaderState]
  BY <1>1 DEF OrderInv, ShapeInv
<1>3. \A d \in Cpus : Woken(d)
  BY <1>1, <1>2 DEF Woken
<1>4. \A d \in Cpus : Heads(Held(d))' = Heads(Held(d)) /\ Once(Held(d))'
  BY <1>1, SameBuffers DEF OrderInv
<1> QED
  BY <1>1, <1>2, <1>3, <1>4, Shapes, WakeOrder

(* Every step of a reader, a handler, the timer or the main thread keeps it. *)
LEMMA NextOrder ==
    ASSUME OrderInv, HandlerInv, [Next]_vars
    PROVE  OrderInv'
<1>1. ASSUME NEW c \in Cpus, Reader(c) PROVE OrderInv'
  BY <1>1, PpollOrder, SignalledOrder, InterruptedOrder, HeaderOrder, DrainOrder, BodyOrder,
     WaitOrder, SwitchOrder, OpenOrder, WriteOrder, FailOrder, UpdateOrder, Zenon
     DEF Reader
<1>2. ASSUME NEW c \in Cpus, NEW len \in 1 .. MaxBody, __stp_print_flush(c, len)
      PROVE  OrderInv'
  BY <1>2, FlushOrder
<1>3. ASSUME wakeup_timer \/ data_fs_stop \/ sigusr2 \/ main_signalled \/ close_relayfs
      PROVE  OrderInv'
  BY <1>3, TimerOrder, StopOrder, SignalOrder
<1> QED
  BY <1>1, <1>2, <1>3, HandlerOrder, StutterOrder, Zenon DEF Next

(* Nobody is in the handler at first.                                       *)
LEMMA InitHandler ==
    ASSUME Init
    PROVE  HandlerInv
<1>1. hnd = [t \in Threads |-> NoHandler]
  BY DEF Init
<1>2. NoHandler \in [at : HandlerPcs, i : Cpus] /\ NoHandler.at = "idle"
  BY RelayAssumption DEF NoHandler, HandlerPcs, Cpus
<1>3. Cpus \subseteq Threads
  BY DEF Threads
<1> QED
  BY <1>1, <1>2, <1>3 DEF HandlerInv

(* A reader enters it out of ppoll, and does nothing else while it is there. *)
LEMMA ReaderHandler ==
    ASSUME OrderInv, HandlerInv, NEW c \in Cpus, Reader(c)
    PROVE  HandlerInv'
<1>1. thr \in [Cpus -> ReaderState]
  BY DEF OrderInv, ShapeInv
<1>2. CASE ppoll_signalled(c)
  <2>1. /\ thr' = [thr EXCEPT ![c].sig = FALSE, ![c].pc = "handler"]
        /\ hnd' = [hnd EXCEPT ![c] = Entered]
    BY <1>2 DEF ppoll_signalled
  <2>2. thr'[c].pc = "handler" /\ \A d \in Cpus \ {c} : thr'[d] = thr[d]
    BY <1>1, <2>1 DEF ReaderState
  <2>3. Entered \in [at : HandlerPcs, i : Cpus]
    BY RelayAssumption DEF Entered, HandlerPcs, Cpus
  <2>4. hnd' \in [Threads -> [at : HandlerPcs, i : Cpus]] /\ \A d \in Cpus \ {c} : hnd'[d] = hnd[d]
    BY <2>1, <2>3 DEF HandlerInv, Threads
  <2> QED
    BY <2>2, <2>4 DEF HandlerInv, At
<1>3. CASE ~ ppoll_signalled(c)
  <2>1. hnd' = hnd /\ ~ At(c, "handler")
    BY <1>3 DEF Reader, ppoll, interrupted, read_header, drain, read_body, wait_turn,
       wait_timeout, switch_outfile, open_outfile, write, write_fails, update_last,
       signalling, At
  <2>2. \E t : thr' = [thr EXCEPT ![c] = t]
    BY <1>3 DEF Reader, ppoll, interrupted, read_header, drain, read_body, wait_turn,
       wait_timeout, switch_outfile, open_outfile, write, write_fails, update_last,
       Goto, ToWrite
  <2>3. \A d \in Cpus \ {c} : thr'[d] = thr[d]
    BY <1>1, <2>2
  <2> QED
    BY <2>1, <2>3 DEF HandlerInv, At
<1> QED
  BY <1>2, <1>3

(* A thread goes through the handler.                                       *)
LEMMA HandlerSteps ==
    ASSUME OrderInv, HandlerInv, NEW t \in Threads, switchfile_handler(t)
    PROVE  HandlerInv'
<1> DEFINE S == [at : HandlerPcs, i : Cpus]
           i == hnd[t].i
<1>1. thr \in [Cpus -> ReaderState] /\ hnd \in [Threads -> S] /\ i \in Cpus /\ Cpus \subseteq Threads
  BY DEF OrderInv, ShapeInv, HandlerInv, Threads
<1>2. [at |-> "return", i |-> 0] \in S /\ [at |-> "set", i |-> 0] \in S /\ NoHandler \in S
  BY RelayAssumption DEF NoHandler, HandlerPcs, Cpus
<1>3. i + 1 < NCpus => [at |-> "check", i |-> i + 1] \in S /\ [at |-> "set", i |-> i + 1] \in S
  BY <1>1, RelayAssumption DEF HandlerPcs, Cpus
<1>4. hnd' \in [Threads -> S] /\ \A d \in Cpus \ {t} : hnd'[d] = hnd[d]
  <2>1. CASE handler_check(t)
    BY <1>1, <1>2, <1>3, <2>1 DEF handler_check
  <2>2. CASE handler_set(t)
    <3> DEFINE l == IF i = t THEN "return" ELSE "kill"
    <3>1. l \in HandlerPcs /\ hnd' = [hnd EXCEPT ![t] = [@ EXCEPT !.at = l]]
      BY <2>2 DEF handler_set, HandlerPcs
    <3> HIDE DEF l
    <3>2. [hnd[t] EXCEPT !.at = l] \in S
      BY <1>1, <3>1
    <3> QED
      BY <1>1, <3>1, <3>2
  <2>3. CASE handler_kill(t)
    BY <1>1, <1>2, <1>3, <2>3 DEF handler_kill
  <2>4. CASE handler_return(t)
    BY <1>1, <1>2, <2>4 DEF handler_return
  <2> QED
    BY <2>1, <2>2, <2>3, <2>4 DEF switchfile_handler
<1>5. hnd[t].at # "idle"
  BY DEF switchfile_handler, handler_check, handler_set, handler_kill, handler_return
<1>6. CASE handler_check(t) \/ handler_set(t) \/ handler_kill(t)
  <2>1. thr' = thr \/ thr' = [thr EXCEPT ![i] = pthread_kill(thr[i])]
    BY <1>6 DEF handler_check, handler_set, handler_kill
  <2>2. \A d \in Cpus : Woken(d)
    BY <1>1, <2>1, SignalWakes, Untouched
  <2>3. \A d \in Cpus : At(d, "handler") => At(d, "handler")'
    BY <2>2 DEF Woken, At
  <2> QED
    BY <1>4, <1>5, <2>3 DEF HandlerInv
<1>7. CASE handler_return(t)
  <2>1. \A d \in Cpus \ {t} : thr'[d] = thr[d]
    BY <1>7 DEF handler_return
  <2>2. t \in Cpus => hnd'[t].at = "idle"
    BY <1>1, <1>7 DEF handler_return, NoHandler
  <2> QED
    BY <1>4, <2>1, <2>2 DEF HandlerInv, At
<1> QED
  BY <1>6, <1>7 DEF switchfile_handler

(* So does every step.                                                      *)
LEMMA NextHandler ==
    ASSUME OrderInv, HandlerInv, [Next]_vars
    PROVE  HandlerInv'
<1>1. ASSUME hnd' = hnd, \A d \in Cpus : Woken(d) PROVE HandlerInv'
  <2>1. \A d \in Cpus : At(d, "handler") => At(d, "handler")'
    BY <1>1 DEF Woken, At
  <2> QED
    BY <1>1, <2>1 DEF HandlerInv
<1>2. ASSUME NEW c \in Cpus, NEW len \in 1 .. MaxBody, __stp_print_flush(c, len)
      PROVE  HandlerInv'
  <2>1. hnd' = hnd /\ thr' = thr
    BY <1>2 DEF __stp_print_flush, signalling
  <2> QED
    BY <1>1, <2>1, Untouched
<1>3. ASSUME wakeup_timer \/ data_fs_stop PROVE HandlerInv'
  <2>1. hnd' = hnd /\ \E S : Wake(S)
    BY <1>3 DEF wakeup_timer, data_fs_stop, signalling
  <2> QED
    BY <1>1, <2>1, WakeWakes
<1>4. ASSUME sigusr2 \/ close_relayfs PROVE HandlerInv'
  <2>1. hnd' = hnd /\ (thr' = thr \/ thr' = [c \in Cpus |-> pthread_kill(thr[c])])
    BY <1>4 DEF sigusr2, close_relayfs, signalling
  <2> QED
    BY <1>1, <2>1, SignalWakes, Untouched
<1>5. ASSUME main_signalled PROVE HandlerInv'
  <2>1. thr' = thr /\ hnd' = [hnd EXCEPT ![Main] = Entered]
    BY <1>5 DEF main_signalled
  <2>2. Main \in Threads /\ Main \notin Cpus /\ Cpus \subseteq Threads
    BY RelayAssumption DEF Main, Threads, Cpus
  <2>3. Entered \in [at : HandlerPcs, i : Cpus]
    BY RelayAssumption DEF Entered, HandlerPcs, Cpus
  <2> QED
    BY <2>1, <2>2, <2>3 DEF HandlerInv, At
<1>6. ASSUME UNCHANGED vars PROVE HandlerInv'
  <2>1. hnd' = hnd /\ thr' = thr
    BY <1>6 DEF vars, signalling
  <2> QED
    BY <1>1, <2>1, Untouched
<1> QED
  BY <1>2, <1>3, <1>4, <1>5, <1>6, ReaderHandler, HandlerSteps, Zenon DEF Next

(* A thread that is in switchfile_handler is the main thread, or a reader out
   of ppoll; no reader goes on before its handler has returned.             *)
THEOREM HandlersReturn == Spec => [](OrderInv /\ HandlerInv)
<1>1. Init => OrderInv /\ HandlerInv
  BY InitOrder, InitHandler
<1>2. OrderInv /\ HandlerInv /\ [Next]_vars => OrderInv' /\ HandlerInv'
  BY NextOrder, NextHandler
<1> QED
  BY <1>1, <1>2, PTL DEF Spec

(* In every behaviour a header is in one buffer or with one reader, and only
   one reader at a time is on turn, as long as nobody gave up waiting or took
   something else for a header.                                             *)
THEOREM TurnsTaken == Spec => []OrderInv
BY HandlersReturn, PTL

(* Only one reader at a time is between its turn and the update of
   last_sequence_number, as long as nobody gave up waiting or took something
   else for a header.                                                       *)
WritesAlone == ~ late /\ ~ misread => \A c, d \in Cpus : OnTurn(c) /\ OnTurn(d) => c = d

(* So the writes of two readers never overlap, although none of them is done
   under a mutex that the readers share.                                    *)
THEOREM OneWriter == Spec => []WritesAlone
<1>1. ASSUME OrderInv PROVE WritesAlone
  <2>1. ASSUME ~ Astray, NEW c \in Cpus, NEW d \in Cpus, OnTurn(c), OnTurn(d) PROVE c = d
    <3>1. Seqno(d) = last + 1
      BY <1>1, <2>1 DEF OrderInv, TurnInv
    <3> QED
      BY <1>1, <2>1, <3>1, OneOnTurn DEF OrderInv
  <2> QED
    BY <2>1 DEF WritesAlone, Astray
<1> QED
  BY <1>1, TurnsTaken, PTL

(* The readers of all cpus together write the messages in the order in which
   the handlers took their sequence numbers, for any number of cpus,
   sub-buffers, messages and file switches, although a reader writes after it
   has released the mutex of last_sequence_number; unless some reader gives up
   waiting for its turn, or takes something else for a header.              *)
THEOREM OutputInOrder == Spec => []OrderKept
<1>1. OrderInv => OrderKept
  BY DEF OrderInv, TurnInv, OrderKept, InSequence, Astray
<1> QED
  BY <1>1, TurnsTaken, PTL

-----------------------------------------------------------------------------
(* Whole messages in a sequence of units.                                   *)

(* Behind the header h[i] is the text of its message, of the length that p
   says, and behind that the next header.                                   *)
WholeAt(p, h, i) ==
  LET n == p[h[i].m]
  IN  /\ i + n <= Len(h)
      /\ \A j \in 0 .. n : h[i + j].m = h[i].m /\ h[i + j].at = j
      /\ i + n < Len(h) => h[i + n + 1].at = 0

(* All messages in h are whole, but for the one in front, of which k units
   are left.                                                                *)
Framed(p, h, k) ==
  /\ k <= Len(h)
  /\ k < Len(h) => h[k + 1].at = 0
  /\ \A i \in 1 .. Len(h) : h[i].at = 0 => WholeAt(p, h, i)

(* p has the lengths of the messages in h.                                  *)
Sized(p, h) == \A i \in 1 .. Len(h) : h[i].at = 0 => p[h[i].m] \in Nat

(* h is g and behind it the first n units of message m.                     *)
Grown(h, g, m, n) ==
  /\ Len(h) = Len(g) + n
  /\ \A i \in 1 .. Len(g) : h[i] = g[i]
  /\ \A j \in 1 .. n : h[Len(g) + j].m = m /\ h[Len(g) + j].at = j - 1

(* What is taken off in front does not break the messages behind it.        *)
LEMMA WholeRest ==
    ASSUME NEW p, NEW h \in Seq(Piece), NEW g \in Seq(Piece), NEW n \in Nat, n <= Len(h),
           Rest(g, h, n), Sized(p, h),
           \A i \in 1 .. Len(h) : h[i].at = 0 => WholeAt(p, h, i)
    PROVE  \A i \in 1 .. Len(g) : g[i].at = 0 => WholeAt(p, g, i)
<1> SUFFICES ASSUME NEW i \in 1 .. Len(g), g[i].at = 0 PROVE WholeAt(p, g, i)
  OBVIOUS
<1>1. Len(h) \in Nat /\ Len(g) \in Nat /\ Len(g) = Len(h) - n
  BY DEF Rest
<1>2. i + n \in 1 .. Len(h) /\ g[i] = h[i + n]
  BY <1>1 DEF Rest
<1> DEFINE l == p[g[i].m]
<1>3. WholeAt(p, h, i + n) /\ l \in Nat
  BY <1>2 DEF Sized
<1>4. /\ i + n + l <= Len(h)
      /\ \A j \in 0 .. l : h[i + n + j].m = g[i].m /\ h[i + n + j].at = j
      /\ i + n + l < Len(h) => h[i + n + l + 1].at = 0
  BY <1>2, <1>3 DEF WholeAt
<1> HIDE DEF l
<1>5. i + l <= Len(g) /\ i \in Nat
  BY <1>1, <1>3, <1>4
<1>6. ASSUME NEW j \in 0 .. l PROVE g[i + j].m = g[i].m /\ g[i + j].at = j
  <2>1. i + j \in 1 .. Len(g) /\ (i + j) + n = i + n + j
    BY <1>1, <1>3, <1>5
  <2>2. g[i + j] = h[(i + j) + n]
    BY <2>1 DEF Rest
  <2> QED
    BY <1>4, <2>1, <2>2
<1>7. ASSUME i + l < Len(g) PROVE g[i + l + 1].at = 0
  <2>1. i + l + 1 \in 1 .. Len(g) /\ (i + l + 1) + n = i + n + l + 1 /\ i + n + l < Len(h)
    BY <1>1, <1>3, <1>5, <1>7
  <2>2. g[i + l + 1] = h[(i + l + 1) + n]
    BY <2>1 DEF Rest
  <2> QED
    BY <1>4, <2>1, <2>2
<1> QED
  BY <1>5, <1>6, <1>7 DEF WholeAt, l

(* Where the frames are whole the first unit is a header, and behind it is
   the text that the reader is to collect.                                  *)
LEMMA HeaderTaken ==
    ASSUME NEW p, NEW h \in Seq(Piece), NEW g \in Seq(Piece), Len(h) > 0,
           Rest(g, h, 1), Sized(p, h), Framed(p, h, 0)
    PROVE  LET n == p[h[1].m]
           IN  /\ h[1].at = 0 /\ n \in Nat /\ Framed(p, g, n)
               /\ \A j \in 1 .. n : g[j].m = h[1].m /\ g[j].at = j
<1> DEFINE n == p[h[1].m]
<1>1. Len(h) \in Nat /\ Len(g) \in Nat /\ Len(g) = Len(h) - 1 /\ 1 \in 1 .. Len(h)
  BY DEF Rest
<1>2. h[1].at = 0
  BY <1>1 DEF Framed
<1>3. n \in Nat /\ WholeAt(p, h, 1)
  BY <1>1, <1>2 DEF Framed, Sized
<1>4. /\ 1 + n <= Len(h)
      /\ \A j \in 0 .. n : h[1 + j].m = h[1].m /\ h[1 + j].at = j
      /\ 1 + n < Len(h) => h[1 + n + 1].at = 0
  BY <1>3 DEF WholeAt
<1> HIDE DEF n
<1>5. \A i \in 1 .. Len(g) : g[i] = h[i + 1]
  BY DEF Rest
<1>6. ASSUME NEW j \in 1 .. n PROVE g[j].m = h[1].m /\ g[j].at = j
  <2>1. j \in 1 .. Len(g) /\ j \in 0 .. n /\ j + 1 = 1 + j
    BY <1>1, <1>3, <1>4
  <2> QED
    BY <1>4, <1>5, <2>1
<1>7. n <= Len(g) /\ (n < Len(g) => g[n + 1].at = 0)
  <2>1. n <= Len(g)
    BY <1>1, <1>3, <1>4
  <2>2. ASSUME n < Len(g) PROVE g[n + 1].at = 0
    <3>1. n + 1 \in 1 .. Len(g) /\ (n + 1) + 1 = 1 + n + 1 /\ 1 + n < Len(h)
      BY <1>1, <1>3, <2>2
    <3> QED
      BY <1>4, <1>5, <3>1
  <2> QED
    BY <2>1, <2>2
<1>8. \A i \in 1 .. Len(g) : g[i].at = 0 => WholeAt(p, g, i)
  <2>1. 1 \in Nat /\ 1 <= Len(h)
    BY <1>1
  <2> QED
    BY <2>1, WholeRest DEF Framed
<1> QED
  BY <1>2, <1>3, <1>6, <1>7, <1>8 DEF Framed, n

(* After the text in front is the next header.                              *)
LEMMA TextTaken ==
    ASSUME NEW p, NEW h \in Seq(Piece), NEW g \in Seq(Piece), NEW k \in Nat,
           Rest(g, h, k), Sized(p, h), Framed(p, h, k)
    PROVE  Framed(p, g, 0)
<1>1. Len(h) \in Nat /\ Len(g) \in Nat /\ Len(g) = Len(h) - k /\ k <= Len(h)
  BY DEF Rest, Framed
<1>2. \A i \in 1 .. Len(g) : g[i].at = 0 => WholeAt(p, g, i)
  BY <1>1, WholeRest DEF Framed
<1>3. ASSUME 0 < Len(g) PROVE g[0 + 1].at = 0
  <2>1. 1 \in 1 .. Len(g) /\ k < Len(h) /\ 1 + k = k + 1 /\ 0 + 1 = 1
    BY <1>1, <1>3
  <2>2. g[1] = h[1 + k]
    BY <2>1 DEF Rest
  <2> QED
    BY <2>1, <2>2 DEF Framed
<1> QED
  BY <1>1, <1>2, <1>3 DEF Framed

(* A whole message behind whole messages.                                   *)
LEMMA MessageAdded ==
    ASSUME NEW p, NEW q, NEW h \in Seq(Piece), NEW g \in Seq(Piece), NEW k \in Nat,
           NEW m, NEW len \in Nat, Grown(g, h, m, len + 1), Sized(p, h), Framed(p, h, k),
           \A i \in 1 .. Len(h) : h[i].at = 0 => q[h[i].m] = p[h[i].m], q[m] = len
    PROVE  Framed(q, g, k)
<1>1. Len(h) \in Nat /\ Len(g) \in Nat /\ Len(g) = Len(h) + (len + 1)
  BY DEF Grown
<1>2. \A i \in 1 .. Len(h) : g[i] = h[i]
  BY DEF Grown
<1>3. \A j \in 1 .. len + 1 : g[Len(h) + j].m = m /\ g[Len(h) + j].at = j - 1
  BY DEF Grown
<1>4. g[Len(h) + 1].at = 0 /\ g[Len(h) + 1].m = m
  <2>1. 1 \in 1 .. len + 1
    OBVIOUS
  <2> QED
    BY <1>3, <2>1
<1>5. k <= Len(g) /\ (k < Len(g) => g[k + 1].at = 0)
  <2>1. k <= Len(h) /\ (k < Len(h) => h[k + 1].at = 0)
    BY DEF Framed
  <2>2. CASE k < Len(h)
    <3>1. k + 1 \in 1 .. Len(h)
      BY <1>1, <2>2
    <3> QED
      BY <1>1, <1>2, <2>1, <2>2, <3>1
  <2>3. CASE k = Len(h)
    BY <1>1, <1>4, <2>3
  <2> QED
    BY <1>1, <2>1, <2>2, <2>3
<1>6. ASSUME NEW i \in 1 .. Len(g), g[i].at = 0 PROVE WholeAt(q, g, i)
  <2>1. CASE i <= Len(h)
    <3>1. i \in 1 .. Len(h) /\ g[i] = h[i] /\ h[i].at = 0
      BY <1>1, <1>2, <1>6, <2>1
    <3> DEFINE n == p[h[i].m]
    <3>2. n \in Nat /\ q[g[i].m] = n /\ WholeAt(p, h, i)
      BY <3>1 DEF Sized, Framed
    <3>3. /\ i + n <= Len(h)
          /\ \A j \in 0 .. n : h[i + j].m = h[i].m /\ h[i + j].at = j
          /\ i + n < Len(h) => h[i + n + 1].at = 0
      BY <3>2 DEF WholeAt
    <3> HIDE DEF n
    <3>4. i \in Nat /\ i + n <= Len(g)
      BY <1>1, <3>2, <3>3
    <3>5. ASSUME NEW j \in 0 .. n PROVE g[i + j].m = g[i].m /\ g[i + j].at = j
      <4>1. i + j \in 1 .. Len(h)
        BY <1>1, <3>1, <3>2, <3>3
      <4> QED
        BY <1>2, <3>1, <3>3, <4>1
    <3>6. g[i + n + 1].at = 0
      <4>1. CASE i + n < Len(h)
        <5>1. i + n + 1 \in 1 .. Len(h)
          BY <1>1, <3>1, <3>2, <4>1
        <5> QED
          BY <1>2, <3>3, <4>1, <5>1
      <4>2. CASE i + n = Len(h)
        BY <1>4, <4>2
      <4> QED
        BY <1>1, <3>2, <3>3, <3>4, <4>1, <4>2
    <3> QED
      BY <3>2, <3>4, <3>5, <3>6 DEF WholeAt
  <2>2. CASE i > Len(h)
    <3> DEFINE a == i - Len(h)
    <3>1. a \in 1 .. len + 1 /\ i = Len(h) + a
      BY <1>1, <2>2
    <3> HIDE DEF a
    <3>2. a = 1 /\ g[i].m = m
      BY <1>3, <1>6, <3>1
    <3>3. i = Len(h) + 1 /\ i + len = Len(g)
      BY <1>1, <3>1, <3>2
    <3>4. ASSUME NEW j \in 0 .. len PROVE g[i + j].m = m /\ g[i + j].at = j
      <4>1. j + 1 \in 1 .. len + 1 /\ i + j = Len(h) + (j + 1) /\ (j + 1) - 1 = j
        BY <1>1, <3>3
      <4> QED
        BY <1>3, <4>1
    <3> QED
      BY <1>1, <3>2, <3>3, <3>4 DEF WholeAt
  <2> QED
    BY <1>1, <2>1, <2>2
<1> QED
  BY <1>5, <1>6 DEF Framed

(* More of the message behind the first part of it.                         *)
LEMMA GrowsOn ==
    ASSUME NEW f, NEW h, NEW g, NEW m, NEW n \in Nat, NEW x, Len(g) \in Nat, Len(x) \in Nat,
           Grown(h, g, m, n), Joins(f, h, x),
           \A j \in 1 .. Len(x) : x[j].m = m /\ x[j].at = n + j - 1
    PROVE  Grown(f, g, m, n + Len(x))
<1>1. Len(h) = Len(g) + n /\ Len(f) = Len(g) + (n + Len(x))
  BY DEF Grown, Joins
<1>2. ASSUME NEW i \in 1 .. Len(g) PROVE f[i] = g[i]
  <2>1. i \in 1 .. Len(h)
    BY <1>1
  <2> QED
    BY <2>1 DEF Grown, Joins
<1>3. ASSUME NEW j \in 1 .. n + Len(x) PROVE f[Len(g) + j].m = m /\ f[Len(g) + j].at = j - 1
  <2>1. CASE j <= n
    <3>1. j \in 1 .. n /\ Len(g) + j \in 1 .. Len(h)
      BY <1>1, <2>1
    <3> QED
      BY <3>1 DEF Grown, Joins
  <2>2. CASE j > n
    <3> DEFINE i == j - n
    <3>1. i \in 1 .. Len(x) /\ Len(g) + j = Len(h) + i /\ n + i - 1 = j - 1
      BY <1>1, <2>2
    <3> HIDE DEF i
    <3>2. f[Len(h) + i] = x[i]
      BY <3>1 DEF Joins
    <3> QED
      BY <3>1, <3>2
  <2> QED
    BY <2>1, <2>2
<1> QED
  BY <1>1, <1>2, <1>3 DEF Grown

(* A read(2) of n units takes these and leaves the rest.                    *)
LEMMA ReadRest ==
    ASSUME NEW b \in Buffers, NEW n \in 0 .. Len(Flat(b))
    PROVE  LET t == Consume(SwitchOut(b), n)
           IN  t \in Buffers /\ Rest(Flat(t), Flat(b), n)
<1> DEFINE o == SwitchOut(b)
           g == Flat(b)
           t == Consume(o, n)
<1>1. o \in Buffers /\ o.cur = <<>> /\ Avail(o.subs) = g
  BY SwitchOutFlat
<1>2. g \in Seq(Piece) /\ Len(g) \in Nat /\ n \in 0 .. Len(g)
  BY FlatType
<1> HIDE DEF o, g
<1>3. o.subs \in Seq(Seq(Piece)) /\ o.full \in BOOLEAN
  BY <1>1, FlatType
<1>4. PICK q \in Seq(Seq(Piece)) : t = [o EXCEPT !.subs = q] /\ Rest(Avail(q), g, n)
  <2>1. n \in 0 .. Len(Avail(o.subs))
    BY <1>1, <1>2
  <2>2. \E q \in Seq(Seq(Piece)) : /\ Consume(o, n) = [o EXCEPT !.subs = q]
                                   /\ Rest(Avail(q), Avail(o.subs), n)
    BY <1>3, <2>1, ConsumeRest
  <2> QED
    BY <1>1, <2>2
<1> HIDE DEF t
<1>5. t \in Buffers /\ t.subs = q /\ t.cur = <<>>
  <2>1. o \in Buffer
    BY <1>1 DEF Buffers
  <2>2. t \in Buffer /\ t.subs = q /\ t.cur = <<>>
    BY <1>1, <1>4, <2>1 DEF Buffer
  <2> QED
    BY <2>2 DEF Buffers
<1>6. Flat(t) = Avail(q)
  BY <1>5, FlatType
<1> QED
  BY <1>4, <1>5, <1>6 DEF t, o, g

(* So far the loop has copied the units of m before s.next behind g, at least
   n of them unless it is done or has given up.                             *)
Copied(s, g, m, len, n) ==
  /\ s \in CopyState /\ s.next <= len + 1
  /\ Grown(Flat(s.buf), g, m, s.next)
  /\ s.failed \/ s.next > len \/ s.next >= n

(* A round of the loop copies one unit at least, or gives up.               *)
LEMMA CopyStepGrows ==
    ASSUME NEW s, NEW g \in Seq(Piece), NEW m \in Nat, NEW len \in Nat, NEW n \in Nat,
           Copied(s, g, m, len, n)
    PROVE  Copied(CopyStep(s, m, len), g, m, len, n + 1)
<1> DEFINE t == CopyStep(s, m, len)
           b == s.buf
           r == write_reserve(b, len - s.next + 1)
<1>1. b \in Buffers /\ s.next \in Nat \ {0} /\ s.failed \in BOOLEAN /\ s.next <= len + 1
  BY DEF CopyState, Copied
<1>2. t \in CopyState
  BY CopyStepAdds DEF Copied
<1>3. Grown(Flat(b), g, m, s.next) /\ Len(g) \in Nat
  BY DEF Copied
<1>4. CASE s.failed \/ s.next > len
  <2>1. t = s
    BY <1>4 DEF CopyStep
  <2> QED
    BY <1>1, <1>4, <2>1 DEF Copied
<1>5. ASSUME ~(s.failed \/ s.next > len)
      PROVE  Copied(t, g, m, len, n + 1)
  <2>1. len - s.next + 1 \in Nat /\ s.next >= n
    BY <1>1, <1>5 DEF Copied
  <2>2. /\ r.buf \in Buffers /\ Flat(r.buf) = Flat(b) /\ r.k \in 0 .. (len - s.next + 1)
        /\ r.k > 0 => ~ r.buf.full
    BY <1>1, <2>1, ReserveFlat
  <2>3. t = IF r.k = 0 THEN [buf |-> r.buf, next |-> s.next, failed |-> TRUE]
            ELSE [buf |-> Fill(r.buf, Units(m, s.next, s.next + r.k - 1)),
                  next |-> s.next + r.k, failed |-> FALSE]
    BY <1>5 DEF CopyStep
  <2> HIDE DEF r, t, b
  <2>4. CASE r.k = 0
    <3>1. t.buf = r.buf /\ t.next = s.next /\ t.failed
      BY <2>3, <2>4
    <3> QED
      BY <1>1, <1>2, <1>3, <2>2, <3>1 DEF Copied
  <2>5. CASE r.k # 0
    <3> DEFINE from == s.next
               to == s.next + r.k - 1
               x == Units(m, from, to)
               c == Fill(r.buf, x)
    <3>1. /\ r.k \in Nat /\ r.k > 0 /\ ~ r.buf.full /\ s.next + r.k <= len + 1
          /\ from \in Nat /\ to \in Int /\ to >= from - 1 /\ to - from + 1 = r.k
      <4> DEFINE p == s.next
                 a == r.k
      <4>1. p \in Nat /\ a \in 0 .. (len - p + 1) /\ a # 0
        BY <1>1, <2>2, <2>5, Zenon
      <4>2. a > 0 => ~ r.buf.full
        BY <2>2, Zenon
      <4> HIDE DEF p, a
      <4>3. /\ a \in Nat /\ a > 0 /\ p + a <= len + 1
            /\ p + a - 1 \in Int /\ p + a - 1 >= p - 1 /\ (p + a - 1) - p + 1 = a
        BY <4>1
      <4> QED
        BY <4>1, <4>2, <4>3, Zenon DEF p, a
    <3>2. t.buf = c /\ t.next = s.next + r.k /\ ~ t.failed
      BY <2>3, <2>5
    <3> HIDE DEF to
    <3>3. /\ x \in Seq(Piece) /\ Len(x) = to - from + 1
          /\ \A j \in 1 .. Len(x) : x[j].m = m /\ x[j].at = from + j - 1
      <4>1. from \in Nat /\ to \in Int /\ to >= from - 1
        BY <3>1
      <4> HIDE DEF from
      <4>2. /\ Units(m, from, to) \in Seq(Piece) /\ Len(Units(m, from, to)) = to - from + 1
            /\ \A j \in 1 .. Len(Units(m, from, to)) :
                 /\ Units(m, from, to)[j].m = m
                 /\ Units(m, from, to)[j].at = from + j - 1
        BY <4>1, UnitsAre, Zenon
      <4> QED
        BY <4>2, Zenon
    <3> HIDE DEF x
    <3>4. c \in Buffers /\ Joins(Flat(c), Flat(b), x)
      BY <2>2, <3>1, <3>3, FillFlat
    <3> HIDE DEF c
    <3>5. Len(x) = r.k
      BY <3>1, <3>3
    <3>6. Grown(Flat(c), g, m, s.next + Len(x))
      BY <1>1, <1>3, <3>1, <3>3, <3>4, <3>5, GrowsOn
    <3>7. Grown(Flat(t.buf), g, m, t.next) /\ t.next <= len + 1 /\ t.next >= n + 1
      <4>1. s.next + r.k >= n + 1
        <5> DEFINE p == s.next
                   a == r.k
        <5>1. p \in Nat /\ a \in Nat /\ a > 0 /\ p >= n
          BY <1>1, <2>1, <3>1, Zenon
        <5> HIDE DEF p, a
        <5>2. p + a >= n + 1
          BY <5>1
        <5> QED
          BY <5>2 DEF p, a
      <4>2. t.next = s.next + Len(x) /\ t.next <= len + 1 /\ t.next >= n + 1
        BY <3>1, <3>2, <3>5, <4>1, Zenon
      <4> QED
        BY <3>2, <3>6, <4>2, Zenon
    <3> QED
      BY <1>2, <3>7 DEF Copied
  <2> QED
    BY <2>4, <2>5
<1> QED
  BY <1>4, <1>5

(* The loop copies the whole text, or gives up.                             *)
LEMMA CopyRestGrows ==
    ASSUME NEW st, NEW g \in Seq(Piece), NEW m \in Nat, NEW len \in Nat,
           Copied(st, g, m, len, 1)
    PROVE  LET t == CopyRest(st, m, len)
           IN  /\ t \in CopyState
               /\ ~ t.failed => Grown(Flat(t.buf), g, m, len + 1)
<1>1. st \in CopyState
  BY DEF Copied
<1>2. PICK f : Copies(f, st, m, len)
  BY <1>1, CopySteps
<1> DEFINE T == {i \in 0 .. len : Copied(f[i], g, m, len, i + 1)}
<1>3. 0 \in T
  <2>1. f[0] = st /\ 0 \in 0 .. len /\ 0 + 1 = 1
    BY <1>2 DEF Copies
  <2> QED
    BY <2>1
<1>4. ASSUME NEW i \in T, i < len PROVE i + 1 \in T
  <2>1. i + 1 \in 0 .. len /\ i + 1 \in 1 .. len /\ (i + 1) - 1 = i /\ i + 1 \in Nat
    BY <1>4
  <2>2. f[i + 1] = CopyStep(f[i], m, len)
    BY <1>2, <2>1 DEF Copies
  <2>3. Copied(f[i], g, m, len, i + 1)
    OBVIOUS
  <2>4. Copied(f[i + 1], g, m, len, (i + 1) + 1)
    BY <2>1, <2>2, <2>3, CopyStepGrows
  <2> QED
    BY <2>1, <2>4
<1> HIDE DEF T
<1>5. \A i \in 0 .. len : i \in T
  BY <1>3, <1>4, UpTo
<1>6. Copied(f[len], g, m, len, len + 1) /\ CopyRest(st, m, len) = f[len]
  <2>1. len \in T
    BY <1>5
  <2> QED
    BY <1>2, <2>1 DEF T, Copies
<1> DEFINE t == CopyRest(st, m, len)
<1>7. Copied(t, g, m, len, len + 1)
  BY <1>6
<1> HIDE DEF t
<1>8. t \in CopyState /\ t.next \in Nat /\ t.next <= len + 1 /\ (t.failed \/ t.next >= len + 1)
  <2>1. /\ t \in CopyState /\ t.next <= len + 1
        /\ t.failed \/ t.next > len \/ t.next >= len + 1
    BY <1>7 DEF Copied
  <2>2. t.next \in Nat
    BY <2>1 DEF CopyState
  <2> QED
    BY <2>1, <2>2
<1>9. ~ t.failed => t.next = len + 1
  BY <1>8
<1> QED
  BY <1>7, <1>8, <1>9 DEF Copied, t

(* A flush that is not counted as a failure adds the whole message.         *)
LEMMA FlushGrows ==
    ASSUME NEW b \in Buffers, NEW m \in Nat, NEW len \in Nat, write_reserve(b, 1 + len).k > 1
    PROVE  LET r == write_reserve(b, 1 + len)
               st == CopyRest([buf |-> Fill(r.buf, Units(m, 0, r.k - 1)),
                               next |-> r.k, failed |-> FALSE], m, len)
           IN  /\ st \in CopyState
               /\ ~ st.failed => Grown(Flat(st.buf), Flat(b), m, len + 1)
<1> DEFINE r == write_reserve(b, 1 + len)
           x == Units(m, 0, r.k - 1)
           f == Fill(r.buf, x)
           s == [buf |-> f, next |-> r.k, failed |-> FALSE]
           st == CopyRest(s, m, len)
           g == Flat(b)
<1>1. /\ r.buf \in Buffers /\ Flat(r.buf) = g /\ r.k \in 0 .. 1 + len
      /\ r.k > 0 => ~ r.buf.full
  <2>1. 1 + len \in Nat
    OBVIOUS
  <2> QED
    BY <2>1, ReserveFlat
<1>2. r.k > 1
  OBVIOUS
<1> HIDE DEF r
<1>3. r.k \in Nat /\ ~ r.buf.full
  BY <1>1, <1>2
<1>4. x \in Seq(Piece) /\ Len(x) = r.k /\ \A j \in 1 .. Len(x) : x[j].m = m /\ x[j].at = 0 + j - 1
  <2> DEFINE to == r.k - 1
             z == 0
  <2>1. to \in Int /\ z \in Nat /\ to >= z - 1
    BY <1>2, <1>3
  <2> HIDE DEF to, z
  <2>2. /\ Units(m, z, to) \in Seq(Piece) /\ Len(Units(m, z, to)) = to - z + 1
        /\ \A j \in 1 .. Len(Units(m, z, to)) :
             /\ Units(m, z, to)[j].m = m
             /\ Units(m, z, to)[j].at = z + j - 1
    BY <2>1, UnitsAre, Zenon
  <2>3. /\ x \in Seq(Piece) /\ Len(x) = (r.k - 1) - 0 + 1
        /\ \A j \in 1 .. Len(x) : x[j].m = m /\ x[j].at = 0 + j - 1
    BY <2>2, Zenon DEF to, z
  <2> HIDE DEF x
  <2> QED
    BY <1>3, <2>3
<1> HIDE DEF x
<1>5. f \in Buffers /\ Joins(Flat(f), g, x)
  BY <1>1, <1>3, <1>4, FillFlat
<1> HIDE DEF f
<1>6. g \in Seq(Piece) /\ Len(g) \in Nat
  <2>1. g \in Seq(Piece)
    BY FlatType
  <2> HIDE DEF g
  <2> QED
    BY <2>1
<1> HIDE DEF g
<1>7. Grown(g, g, m, 0)
  BY <1>6 DEF Grown
<1>8. Grown(Flat(f), g, m, r.k)
  <2>1. Grown(Flat(f), g, m, 0 + Len(x))
    BY <1>3, <1>4, <1>5, <1>6, <1>7, GrowsOn
  <2> QED
    BY <1>3, <1>4, <2>1
<1>9. s \in CopyState /\ s.buf = f /\ s.next = r.k /\ ~ s.failed
  BY <1>2, <1>3, <1>5 DEF CopyState
<1> HIDE DEF s
<1>10. Copied(s, g, m, len, 1)
  <2>1. s.next <= len + 1 /\ s.next >= 1
    BY <1>1, <1>2, <1>3, <1>9
  <2> QED
    BY <1>8, <1>9, <2>1 DEF Copied
<1>11. st \in CopyState /\ (~ st.failed => Grown(Flat(st.buf), g, m, len + 1))
  BY <1>6, <1>10, CopyRestGrows
<1> HIDE DEF st
<1> QED
  BY <1>11 DEF st, s, f, x, r, g

-----------------------------------------------------------------------------
(* The invariant behind NoSilentLoss.                                       *)

(* A reader that has no message in its hands.                               *)
Idle(t) ==
  \/ t.pc \in {"poll", "asleep", "handler", "eintr", "hdr", "drain", "done"}
  \/ t.pc \in {"close", "open"} /\ t.to = "hdr"
Busy(t) == Idle(t) <=> t.hdr.seq = 0

(* How many units in front of the buffer reader t is to collect.            *)
Owed(t) == IF t.pc = "body" THEN t.hdr.len ELSE 0

(* The message of reader t: its text is the first thing in the buffer h, or
   all of it has been read.                                                 *)
Handed(p, t, h) ==
  t.hdr.seq # 0 =>
    /\ t.hdr.seq \in 1 .. Len(p) /\ t.hdr.len = p[t.hdr.seq]
    /\ t.pc = "body" => /\ t.got = <<>>
                        /\ \A j \in 1 .. t.hdr.len : h[j].m = t.hdr.seq /\ h[j].at = j
    /\ t.pc # "body" => t.got = Units(t.hdr.seq, 1, t.hdr.len) /\ t.rc = t.hdr.len

FrameInv == \A c \in Cpus :
  Busy(thr[c]) /\ Framed(pdu, Held(c), Owed(thr[c])) /\ Handed(pdu, thr[c], Held(c))

(* What is in the output is whole, there once, and nowhere else.            *)
Logged(p, e) == e.seq \in 1 .. Len(p) /\ e.text = Units(e.seq, 1, p[e.seq])
LoggedInv ==
  /\ \A i \in 1 .. Len(log) : Logged(pdu, log[i])
  /\ \A i \in 1 .. Len(log) : \A c \in Cpus : log[i].seq \notin Heads(Held(c))
  /\ \A i \in 1 .. Len(log) : \A c \in Cpus : Seqno(c) = log[i].seq => At(c, "update")
  /\ \A i, j \in 1 .. Len(log) : log[i].seq = log[j].seq => i = j

(* Every message is somewhere.                                              *)
Present(s) ==
  \/ \E c \in Cpus : s \in Heads(Held(c))
  \/ \E c \in Cpus : Seqno(c) = s /\ ~ At(c, "update")
  \/ \E i \in 1 .. Len(log) : log[i].seq = s
PresentInv == \A s \in Message : Present(s)

Clean == failures = 0 /\ ~ resync
LossInv ==
  /\ failures \in Nat /\ resync \in BOOLEAN /\ \A s \in Message : pdu[s] > 0
  /\ failures = 0 => ~ misread /\ FrameInv
  /\ Clean => LoggedInv /\ PresentInv

-----------------------------------------------------------------------------
(* What a step does to the messages.                                        *)

(* It leaves the buffer and the message of cpu d alone.                     *)
Kept(d) ==
  /\ Held(d)' = Held(d) /\ thr'[d].hdr = thr[d].hdr /\ thr'[d].got = thr[d].got
  /\ thr'[d].rc = thr[d].rc
  /\ thr'[d].pc = "body" <=> thr[d].pc = "body"
  /\ thr'[d].pc = "update" <=> thr[d].pc = "update"

(* The header of d, and what is in its buffer, are as they were.            *)
LEMMA KeptIs ==
    ASSUME NEW d \in Cpus, Kept(d), misread' = misread
    PROVE  /\ Owed(thr'[d]) = Owed(thr[d]) /\ Seqno(d)' = Seqno(d)
           /\ Heads(Held(d))' = Heads(Held(d))
           /\ At(d, "update")' <=> At(d, "update")
           /\ \A p : Framed(p, Held(d), Owed(thr[d])) => Framed(p, Held(d)', Owed(thr'[d]))
           /\ \A p : Handed(p, thr[d], Held(d)) => Handed(p, thr'[d], Held(d)')
<1>1. Owed(thr'[d]) = Owed(thr[d]) /\ Seqno(d)' = Seqno(d) /\ (At(d, "update")' <=> At(d, "update"))
  BY DEF Kept, Owed, Seqno, At
<1>2. Held(d)' = Held(d)
  BY DEF Kept
<1>3. Heads(Held(d))' = Heads(Held(d))
  BY <1>2 DEF Heads
<1>4. \A p : Framed(p, Held(d), Owed(thr[d])) => Framed(p, Held(d)', Owed(thr'[d]))
  BY <1>1, <1>2
<1>5. \A p : Handed(p, thr[d], Held(d)) => Handed(p, thr'[d], Held(d)')
  BY <1>2 DEF Kept, Handed
<1> QED
  BY <1>1, <1>3, <1>4, <1>5

(* Once a failure was counted nothing is said any more.                     *)
LEMMA Counted ==
    ASSUME failures' \in Nat, failures' > 0, resync' \in BOOLEAN, \A s \in Message' : pdu'[s] > 0
    PROVE  LossInv'
BY DEF LossInv, Clean

(* No message moves, unless the step itself counts a loss.                  *)
LEMMA NoneMoves ==
    ASSUME LossInv, UNCHANGED <<pdu, log, failures, resync, misread>>,
           failures = 0 => \A d \in Cpus : Busy(thr'[d]) /\ Kept(d)
    PROVE  LossInv'
<1>1. ASSUME failures = 0
      PROVE  \A d \in Cpus : /\ Seqno(d)' = Seqno(d) /\ Heads(Held(d))' = Heads(Held(d))
                             /\ At(d, "update")' <=> At(d, "update")
  BY <1>1, KeptIs
<1>2. ASSUME failures = 0 PROVE ~ misread' /\ FrameInv'
  <2>1. ASSUME NEW d \in Cpus
        PROVE  Framed(pdu', Held(d)', Owed(thr'[d])) /\ Handed(pdu', thr'[d], Held(d)')
    BY <1>2, KeptIs DEF LossInv, FrameInv
  <2> QED
    BY <1>2, <2>1 DEF LossInv, FrameInv
<1>3. ASSUME Clean PROVE LoggedInv' /\ PresentInv'
  <2>1. failures = 0 /\ LoggedInv /\ PresentInv
    BY <1>3 DEF LossInv, Clean
  <2>2. LoggedInv'
    BY <1>1, <2>1 DEF LoggedInv
  <2>3. PresentInv'
    <3>1. \A s : Present(s) => Present(s)'
      BY <1>1, <2>1 DEF Present
    <3>2. Message' = Message
      BY DEF Message
    <3> QED
      BY <2>1, <3>1, <3>2 DEF PresentInv
  <2> QED
    BY <2>2, <2>3
<1>4. \A s \in Message' : pdu'[s] > 0
  BY DEF LossInv, Message
<1> QED
  BY <1>2, <1>3, <1>4 DEF LossInv, Clean

(* What is known of the messages in the buffers.                            *)
LEMMA SizedBuffers ==
    ASSUME OrderInv, NEW c \in Cpus
    PROVE  /\ Held(c) \in Seq(Piece) /\ Len(Held(c)) \in Nat /\ Sized(pdu, Held(c))
           /\ pdu \in Seq(Nat) /\ Len(pdu) \in Nat
           /\ \A i \in 1 .. Len(Held(c)) : Held(c)[i].at = 0 => Held(c)[i].m \in 1 .. Len(pdu)
<1>1. Held(c) \in Seq(Piece) /\ Len(Held(c)) \in Nat
  BY BufferOf DEF OrderInv
<1>2. pdu \in Seq(Nat)
  BY DEF OrderInv, ShapeInv
<1>3. Len(pdu) \in Nat /\ \A m \in 1 .. Len(pdu) : pdu[m] \in Nat
  BY <1>2
<1>4. Heads(Held(c)) \subseteq 1 .. Len(pdu)
  BY DEF OrderInv, PlaceInv, Message
<1>5. \A i \in 1 .. Len(Held(c)) : Held(c)[i].at = 0 => Held(c)[i].m \in 1 .. Len(pdu)
  BY <1>4 DEF Heads
<1> QED
  BY <1>1, <1>2, <1>3, <1>5 DEF Sized

(* A header that is taken off was among those taken.                        *)
LEMMA HeadsTaken ==
    ASSUME NEW h \in Seq(Piece), NEW g \in Seq(Piece), NEW n \in Nat, n <= Len(h), Rest(g, h, n),
           NEW x \in Heads(h)
    PROVE  x \in Heads(g) \/ \E i \in 1 .. n : h[i].at = 0 /\ h[i].m = x
<1>1. PICK i \in 1 .. Len(h) : h[i].at = 0 /\ h[i].m = x
  BY DEF Heads
<1>2. Len(h) \in Nat /\ Len(g) \in Nat /\ Len(g) = Len(h) - n
  BY DEF Rest
<1>3. CASE i <= n
  <2>1. i \in 1 .. n
    BY <1>2, <1>3
  <2> QED
    BY <1>1, <2>1
<1>4. CASE i > n
  <2> DEFINE j == i - n
  <2>1. j \in 1 .. Len(g) /\ j + n = i
    BY <1>2, <1>4
  <2> HIDE DEF j
  <2>2. g[j] = h[i]
    BY <2>1 DEF Rest
  <2> QED
    BY <1>1, <2>1, <2>2 DEF Heads
<1> QED
  BY <1>2, <1>3, <1>4

(* Two sequences of units are the same if their units are.                  *)
LEMMA SameUnits ==
    ASSUME NEW x \in Seq(Piece), NEW y \in Seq(Piece), Len(x) = Len(y),
           \A i \in 1 .. Len(x) : x[i].m = y[i].m /\ x[i].at = y[i].at
    PROVE  x = y
<1>1. Len(x) \in Nat
  OBVIOUS
<1>2. ASSUME NEW i \in 1 .. Len(x) PROVE x[i] = y[i]
  <2>1. x[i] \in Piece /\ y[i] \in Piece
    BY <1>1
  <2>2. x[i].m = y[i].m /\ x[i].at = y[i].at
    OBVIOUS
  <2>3. \A u \in Piece : u = [m |-> u.m, at |-> u.at]
    BY DEF Piece
  <2>4. x[i] = [m |-> x[i].m, at |-> x[i].at] /\ y[i] = [m |-> y[i].m, at |-> y[i].at]
    BY <2>1, <2>3, Zenon
  <2> QED
    BY <2>2, <2>4, Zenon
<1>3. x = [i \in 1 .. Len(x) |-> x[i]] /\ y = [i \in 1 .. Len(y) |-> y[i]]
  OBVIOUS
<1>4. [i \in 1 .. Len(x) |-> x[i]] = [i \in 1 .. Len(y) |-> y[i]]
  BY <1>2
<1> QED
  BY <1>3, <1>4, Zenon

(* A part of a sequence.                                                    *)
LEMMA PartIs ==
    ASSUME NEW h \in Seq(Piece), NEW a \in Nat, a > 0, NEW n \in Nat, a + n <= Len(h) + 1
    PROVE  LET x == SubSeq(h, a, a + n - 1)
           IN  x \in Seq(Piece) /\ Len(x) = n /\ \A j \in 1 .. n : x[j] = h[a + j - 1]
<1>1. Len(h) \in Nat
  OBVIOUS
<1> DEFINE x == SubSeq(h, a, a + n - 1)
<1>2. x \in Seq(Piece) /\ Len(x) = n /\ \A j \in 1 .. n : x[j] = h[a + j - 1]
  BY <1>1
<1> QED
  BY <1>2

(* The text of a message where all of it is in front.                       *)
LEMMA TextIs ==
    ASSUME NEW h \in Seq(Piece), NEW s \in Nat, NEW n \in Nat, n <= Len(h),
           \A j \in 1 .. n : h[j].m = s /\ h[j].at = j
    PROVE  SubSeq(h, 1, n) = Units(s, 1, n)
<1> DEFINE x == SubSeq(h, 1, n)
           y == Units(s, 1, n)
<1>1. x \in Seq(Piece) /\ Len(x) = n /\ \A j \in 1 .. n : x[j] = h[j]
  BY Len(h) \in Nat
<1>2. y \in Seq(Piece) /\ Len(y) = n /\ \A j \in 1 .. n : y[j].m = s /\ y[j].at = j
  <2> DEFINE one == 1
  <2>1. one \in Nat /\ n \in Int /\ n >= one - 1
    OBVIOUS
  <2> HIDE DEF one
  <2>2. /\ Units(s, one, n) \in Seq(Piece) /\ Len(Units(s, one, n)) = n - one + 1
        /\ \A j \in 1 .. Len(Units(s, one, n)) :
             Units(s, one, n)[j].m = s /\ Units(s, one, n)[j].at = one + j - 1
    BY <2>1, UnitsAre, Zenon
  <2>3. /\ y \in Seq(Piece) /\ Len(y) = n - 1 + 1
        /\ \A j \in 1 .. Len(y) : y[j].m = s /\ y[j].at = 1 + j - 1
    BY <2>2, Zenon DEF one
  <2> HIDE DEF y
  <2> QED
    BY <2>3
<1> HIDE DEF x, y
<1>3. \A i \in 1 .. Len(x) : x[i].m = y[i].m /\ x[i].at = y[i].at
  BY <1>1, <1>2
<1>4. x = y
  BY <1>1, <1>2, <1>3, SameUnits
<1> QED
  BY <1>4 DEF x, y

-----------------------------------------------------------------------------
(* The steps one by one.                                                    *)

(* Where a reader is, and whether it has a message.                         *)
LEMMA ReaderOf ==
    ASSUME OrderInv, LossInv, NEW c \in Cpus
    PROVE  /\ thr[c] \in ReaderState /\ (failures = 0 => Busy(thr[c]))
           /\ thr[c].to = "hdr" \/ thr[c].pc \in {"close", "open"}
           /\ thr[c].to \in {"hdr", "write"}
<1>1. thr[c] \in ReaderState
  BY Shapes
<1> QED
  BY <1>1 DEF LossInv, FrameInv, OrderInv, TextInv, At, ReaderState

(* A buffer that does not change holds the same.                            *)
LEMMA SameHeld ==
    ASSUME NEW d, rb'[d] = rb[d]
    PROVE  Held(d)' = Held(d)
BY DEF Held

(* A reader goes from one place to another, with the message that it has, and
   nothing else changes that matters here.                                  *)
LEMMA GoesAlone ==
    ASSUME OrderInv, LossInv, NEW c \in Cpus, NEW t \in ReaderState, thr' = [thr EXCEPT ![c] = t],
           t.hdr = thr[c].hdr, t.got = thr[c].got, t.rc = thr[c].rc, failures = 0 => Busy(t),
           t.pc \notin {"body", "update"}, thr[c].pc \notin {"body", "update"},
           UNCHANGED <<pdu, log, rb, failures, resync, misread>>
    PROVE  LossInv'
<1>1. thr'[c] = t /\ \A d \in Cpus \ {c} : thr'[d] = thr[d]
  BY OneReader DEF OrderInv
<1>2. failures = 0 => \A d \in Cpus : Busy(thr'[d])
  BY <1>1 DEF LossInv, FrameInv
<1>3. \A d \in Cpus : Held(d)' = Held(d)
  BY DEF Held
<1>4. \A d \in Cpus : Kept(d)
  BY <1>1, <1>3 DEF Kept
<1> QED
  BY <1>2, <1>4, NoneMoves

(* A reader without a message goes where it needs none.                     *)
LEMMA IdleGoes ==
    ASSUME OrderInv, LossInv, NEW c \in Cpus, NEW l \in ReaderPcs, NEW s \in BOOLEAN,
           thr' = [thr EXCEPT ![c].sig = s, ![c].pc = l],
           thr[c].pc \in {"poll", "asleep", "handler", "eintr"},
           l \in {"asleep", "handler", "eintr", "hdr", "close", "done"},
           UNCHANGED <<pdu, log, rb, failures, resync, misread>>
    PROVE  LossInv'
<1>1. /\ thr[c] \in ReaderState /\ (failures = 0 => Busy(thr[c]))
      /\ thr[c].to = "hdr" \/ thr[c].pc \in {"close", "open"}
  BY ReaderOf
<1>2. thr[c].to = "hdr" /\ (failures = 0 => thr[c].hdr.seq = 0)
  BY <1>1 DEF Busy, Idle
<1> DEFINE t == [thr[c] EXCEPT !.sig = s, !.pc = l]
<1>3. thr' = [thr EXCEPT ![c] = t]
  OBVIOUS
<1>4. /\ t \in ReaderState /\ t.pc = l /\ t.to = thr[c].to
      /\ t.hdr = thr[c].hdr /\ t.got = thr[c].got /\ t.rc = thr[c].rc
  BY <1>1 DEF ReaderState
<1> HIDE DEF t
<1>5. failures = 0 => Busy(t)
  BY <1>2, <1>4 DEF Busy, Idle
<1>6. t.pc \notin {"body", "update"} /\ thr[c].pc \notin {"body", "update"}
  BY <1>4
<1> QED
  BY <1>3, <1>4, <1>5, <1>6, GoesAlone

(* ppoll, with or without a signal, and what comes after EINTR.             *)
LEMMA PpollLoss ==
    ASSUME OrderInv, LossInv, NEW c \in Cpus, ppoll(c) \/ ppoll_signalled(c) \/ interrupted(c)
    PROVE  LossInv'
<1>1. UNCHANGED <<rb, pdu, log, failures, resync, misread>>
  BY DEF ppoll, ppoll_signalled, interrupted, kernel, output, history
<1>2. thr[c].pc \in {"poll", "asleep", "handler", "eintr"}
  BY DEF ppoll, ppoll_signalled, interrupted, At
<1>3. thr \in [Cpus -> ReaderState] /\ thr[c].sig \in BOOLEAN /\ thr[c] \in ReaderState
  BY Shapes DEF OrderInv, ShapeInv, ReaderState
<1>4. \E s \in BOOLEAN, l \in {"asleep", "handler", "eintr", "hdr", "close", "done"} :
        thr' = [thr EXCEPT ![c].sig = s, ![c].pc = l]
  <2>1. CASE ppoll(c) \/ interrupted(c)
    <3>1. PICK l \in {"asleep", "handler", "eintr", "hdr", "close", "done"} :
            thr' = [thr EXCEPT ![c].pc = l]
      BY <2>1 DEF ppoll, interrupted, Goto
    <3>2. [thr[c] EXCEPT !.pc = l] = [thr[c] EXCEPT !.sig = thr[c].sig, !.pc = l]
      BY <1>3 DEF ReaderState
    <3>3. thr' = [thr EXCEPT ![c] = [thr[c] EXCEPT !.pc = l]]
      BY <3>1
    <3>4. thr' = [thr EXCEPT ![c] = [thr[c] EXCEPT !.sig = thr[c].sig, !.pc = l]]
      BY <3>2, <3>3
    <3> DEFINE s == thr[c].sig
    <3>5. thr' = [thr EXCEPT ![c].sig = s, ![c].pc = l]
      BY <3>4
    <3> QED
      BY <1>3, <3>5
  <2>2. CASE ppoll_signalled(c)
    BY <2>2 DEF ppoll_signalled
  <2> QED
    BY <2>1, <2>2
<1>5. PICK s \in BOOLEAN, l \in {"asleep", "handler", "eintr", "hdr", "close", "done"} :
        thr' = [thr EXCEPT ![c].sig = s, ![c].pc = l]
  BY <1>4
<1>6. l \in ReaderPcs
  BY DEF ReaderPcs
<1> QED
  BY <1>1, <1>2, <1>5, <1>6, IdleGoes

(* The wait for the turn ends, by the turn or by the timeout.               *)
LEMMA WaitLoss ==
    ASSUME OrderInv, LossInv, NEW c \in Cpus, wait_turn(c) \/ wait_timeout(c)
    PROVE  LossInv'
<1>1. /\ UNCHANGED <<rb, pdu, log, failures, resync, misread>>
      /\ thr[c].pc = "wait" /\ ToWrite(c)
  BY DEF wait_turn, wait_timeout, kernel, output, history, At
<1>2. thr[c] \in ReaderState /\ (failures = 0 => Busy(thr[c]))
  BY ReaderOf
<1> DEFINE t == [thr[c] EXCEPT !.to = IF switch_file[c] THEN "write" ELSE "hdr",
                               !.pc = IF switch_file[c] THEN "close" ELSE "write"]
<1>3. thr' = [thr EXCEPT ![c] = t]
  BY <1>1 DEF ToWrite
<1>4. /\ t \in ReaderState /\ t.hdr = thr[c].hdr /\ t.got = thr[c].got /\ t.rc = thr[c].rc
      /\ t.pc = "write" \/ (t.pc = "close" /\ t.to = "write")
  BY <1>2 DEF ReaderState, ReaderPcs
<1> HIDE DEF t
<1>5. failures = 0 => Busy(t)
  BY <1>1, <1>2, <1>4 DEF Busy, Idle
<1> QED
  BY <1>1, <1>3, <1>4, <1>5, GoesAlone

(* The two halves of switch_outfile.                                        *)
LEMMA SwitchLoss ==
    ASSUME OrderInv, LossInv, NEW c \in Cpus, switch_outfile(c) \/ open_outfile(c)
    PROVE  LossInv'
<1>1. UNCHANGED <<rb, pdu, log, failures, resync, misread>>
  BY DEF switch_outfile, open_outfile, kernel, output, history
<1>2. thr[c] \in ReaderState /\ (failures = 0 => Busy(thr[c])) /\ thr[c].to \in {"hdr", "write"}
  BY ReaderOf
<1>3. CASE switch_outfile(c)
  <2> DEFINE t == [thr[c] EXCEPT !.pc = "open"]
  <2>1. thr' = [thr EXCEPT ![c] = t] /\ thr[c].pc = "close"
    BY <1>3 DEF switch_outfile, Goto, At
  <2>2. /\ t \in ReaderState /\ t.pc = "open" /\ t.hdr = thr[c].hdr /\ t.got = thr[c].got
        /\ t.rc = thr[c].rc /\ t.to = thr[c].to
    BY <1>2 DEF ReaderState, ReaderPcs
  <2> HIDE DEF t
  <2>3. failures = 0 => Busy(t)
    BY <1>2, <2>1, <2>2 DEF Busy, Idle
  <2> QED
    BY <1>1, <2>1, <2>2, <2>3, GoesAlone
<1>4. CASE open_outfile(c)
  <2> DEFINE l == thr[c].to
             n == thr[c].fnum + 1
             t == [thr[c] EXCEPT !.fnum = n, !.to = "hdr", !.pc = l]
  <2>1. thr' = [thr EXCEPT ![c] = t] /\ thr[c].pc = "open"
    BY <1>4 DEF open_outfile, At
  <2>2. /\ l \in ReaderPcs /\ l \in {"hdr", "write"} /\ n \in Nat
        /\ "hdr" \in {"hdr", "write"}
    BY <1>2 DEF ReaderState, ReaderPcs
  <2> HIDE DEF n
  <2>3. failures = 0 => (l = "hdr" <=> thr[c].hdr.seq = 0)
    BY <1>2, <2>1 DEF Busy, Idle
  <2> HIDE DEF l
  <2>4. /\ t \in ReaderState /\ t.hdr = thr[c].hdr /\ t.got = thr[c].got
        /\ t.rc = thr[c].rc /\ t.pc = l
    BY <1>2, <2>2 DEF ReaderState
  <2> HIDE DEF t
  <2>5. failures = 0 => Busy(t)
    BY <2>2, <2>3, <2>4 DEF Busy, Idle
  <2> QED
    BY <1>1, <2>1, <2>2, <2>4, <2>5, GoesAlone
<1> QED
  BY <1>3, <1>4

(* A reader that cannot write ends with its message in its hands.           *)
LEMMA FailLoss ==
    ASSUME OrderInv, LossInv, NEW c \in Cpus, write_fails(c)
    PROVE  LossInv'
<1>1. UNCHANGED <<rb, pdu, log, failures, resync, misread>> /\ thr[c].pc = "write"
  BY DEF write_fails, kernel, output, history, At
<1>2. thr[c] \in ReaderState /\ (failures = 0 => Busy(thr[c]))
  BY ReaderOf
<1> DEFINE t == [thr[c] EXCEPT !.pc = "dead"]
<1>3. thr' = [thr EXCEPT ![c] = t]
  BY DEF write_fails, Goto
<1>4. /\ t \in ReaderState /\ t.pc = "dead" /\ t.hdr = thr[c].hdr /\ t.got = thr[c].got
      /\ t.rc = thr[c].rc
  BY <1>2 DEF ReaderState, ReaderPcs
<1> HIDE DEF t
<1>5. failures = 0 => Busy(t)
  BY <1>1, <1>2, <1>4 DEF Busy, Idle
<1> QED
  BY <1>1, <1>3, <1>4, <1>5, GoesAlone

(* Readers are woken, and no buffer holds anything else than before.        *)
LEMMA WakeLoss ==
    ASSUME OrderInv, LossInv, \A d \in Cpus : Woken(d), \A d \in Cpus : Held(d)' = Held(d),
           UNCHANGED <<pdu, log, failures, resync, misread>>
    PROVE  LossInv'
<1>1. ASSUME NEW d \in Cpus PROVE (failures = 0 => Busy(thr'[d])) /\ Kept(d)
  <2>1. failures = 0 => Busy(thr[d])
    BY DEF LossInv, FrameInv
  <2>2. failures = 0 => Busy(thr'[d])
    BY <2>1 DEF Woken, Busy, Idle, At
  <2>3. Kept(d)
    BY DEF Woken, Kept, At
  <2> QED
    BY <2>2, <2>3
<1> QED
  BY <1>1, NoneMoves

(* The timer and the signals from outside.                                  *)
LEMMA OtherLoss ==
    ASSUME OrderInv, LossInv, wakeup_timer \/ sigusr2 \/ main_signalled \/ close_relayfs
    PROVE  LossInv'
<1>1. UNCHANGED <<rb, pdu, log, failures, resync, misread>>
  BY DEF wakeup_timer, sigusr2, main_signalled, close_relayfs, kernel, output, history
<1>2. \A d \in Cpus : Woken(d)
  <2>1. CASE wakeup_timer
    BY <2>1, WakeWakes DEF wakeup_timer
  <2>2. CASE sigusr2 \/ main_signalled \/ close_relayfs
    <3>1. thr' = thr \/ thr' = [c \in Cpus |-> pthread_kill(thr[c])]
      BY <2>2 DEF sigusr2, main_signalled, close_relayfs
    <3> QED
      BY <3>1, SignalWakes, Untouched
  <2> QED
    BY <2>1, <2>2
<1>3. \A d \in Cpus : Held(d)' = Held(d)
  BY <1>1, SameHeld
<1> QED
  BY <1>1, <1>2, <1>3, WakeLoss

(* The flush when the transport stops.                                      *)
LEMMA StopLoss ==
    ASSUME OrderInv, LossInv, data_fs_stop
    PROVE  LossInv'
<1>1. UNCHANGED <<pdu, log, failures, resync, misread>>
  BY DEF data_fs_stop, output, history
<1>2. \A d \in Cpus : Woken(d)
  BY WakeWakes DEF data_fs_stop
<1>3. \A d \in Cpus : rb'[d] = switch_subbuf(rb[d])
  BY DEF data_fs_stop
<1>4. ASSUME NEW d \in Cpus PROVE Held(d)' = Held(d)
  <2>1. rb[d] \in Buffers
    BY BufferOf DEF OrderInv
  <2>2. Held(d)' = Flat(switch_subbuf(rb[d])) /\ Held(d) = Flat(rb[d])
    BY <1>3 DEF Held, Flat
  <2> QED
    BY <2>1, <2>2, SwitchFlat
<1> QED
  BY <1>1, <1>2, <1>4, WakeLoss

(* A thread goes through switchfile_handler.                                *)
LEMMA HandlerLoss ==
    ASSUME OrderInv, HandlerInv, LossInv, NEW t \in Threads, switchfile_handler(t)
    PROVE  LossInv'
<1>1. UNCHANGED <<rb, pdu, log, failures, resync, misread>>
  BY DEF switchfile_handler, handler_check, handler_set, handler_kill, handler_return,
         kernel, output, history
<1>2. hnd[t].i \in Cpus /\ thr \in [Cpus -> ReaderState]
  BY DEF HandlerInv, OrderInv, ShapeInv
<1>3. \A d \in Cpus : Held(d)' = Held(d)
  BY <1>1, SameHeld
<1>4. CASE handler_check(t) \/ handler_set(t) \/ handler_kill(t)
  <2>1. thr' = thr \/ thr' = [thr EXCEPT ![hnd[t].i] = pthread_kill(thr[hnd[t].i])]
    BY <1>4 DEF handler_check, handler_set, handler_kill
  <2>2. \A d \in Cpus : Woken(d)
    BY <1>2, <2>1, SignalWakes, Untouched
  <2> QED
    BY <1>1, <1>3, <2>2, WakeLoss
<1>5. CASE handler_return(t) /\ t \in Cpus
  <2>1. thr[t].pc = "handler" /\ thr[t] \in ReaderState /\ thr[t].sig \in BOOLEAN
    BY <1>2, <1>5 DEF handler_return, HandlerInv, At, ReaderState
  <2> DEFINE s == thr[t].sig
  <2>2. [thr[t] EXCEPT !.pc = "eintr"] = [thr[t] EXCEPT !.sig = s, !.pc = "eintr"]
    BY <2>1 DEF ReaderState
  <2>3. thr' = [thr EXCEPT ![t] = [thr[t] EXCEPT !.pc = "eintr"]]
    BY <1>2, <1>5 DEF handler_return
  <2>4. thr' = [thr EXCEPT ![t] = [thr[t] EXCEPT !.sig = s, !.pc = "eintr"]]
    BY <2>2, <2>3
  <2>5. thr' = [thr EXCEPT ![t].sig = s, ![t].pc = "eintr"] /\ s \in BOOLEAN
    BY <2>1, <2>4
  <2> HIDE DEF s
  <2>6. "eintr" \in ReaderPcs
    BY DEF ReaderPcs
  <2> QED
    BY <1>1, <1>5, <2>1, <2>5, <2>6, IdleGoes
<1>6. CASE handler_return(t) /\ t \notin Cpus
  <2>1. thr' = thr
    BY <1>2, <1>6 DEF handler_return
  <2> QED
    BY <1>1, <1>3, <2>1, Untouched, WakeLoss
<1> QED
  BY <1>4, <1>5, <1>6 DEF switchfile_handler

(* A step that changes nothing.                                             *)
LEMMA StutterLoss ==
    ASSUME OrderInv, LossInv, UNCHANGED vars
    PROVE  LossInv'
<1>1. UNCHANGED <<rb, pdu, log, failures, resync, misread, thr>>
  BY DEF vars, kernel, output, history
<1>2. \A d \in Cpus : Woken(d)
  BY <1>1, Untouched
<1>3. \A d \in Cpus : Held(d)' = Held(d)
  BY <1>1, SameHeld
<1> QED
  BY <1>1, <1>2, <1>3, WakeLoss

(* A reader without a message to tell of starts again.                      *)
LEMMA UpdateLoss ==
    ASSUME OrderInv, LossInv, NEW c \in Cpus, update_last(c)
    PROVE  LossInv'
<1> DEFINE t == [thr[c] EXCEPT !.pc = LoopPc, !.hdr = NoHdr, !.got = <<>>, !.rc = 0]
<1>1. UNCHANGED <<rb, pdu, log, failures, resync, misread>> /\ At(c, "update")
  BY DEF update_last, kernel, output, history
<1>2. thr' = [thr EXCEPT ![c] = t] /\ LoopPc \in {"done", "poll"}
  BY DEF update_last, LoopPc
<1>3. t \in ReaderState /\ t.hdr.seq = 0 /\ t.pc \in {"done", "poll"}
  <2>1. thr[c] \in ReaderState /\ NoHdr \in [seq : Nat, len : Nat] /\ NoHdr.seq = 0
    BY Shapes DEF NoHdr
  <2>2. LoopPc \in ReaderPcs /\ <<>> \in Seq(Piece) /\ 0 \in Nat
    BY <1>2 DEF ReaderPcs
  <2>3. t \in ReaderState
    BY <2>1, <2>2 DEF ReaderState
  <2>4. t.hdr = NoHdr /\ t.pc = LoopPc
    BY <2>1 DEF ReaderState
  <2> HIDE DEF t
  <2> QED
    BY <1>2, <2>1, <2>3, <2>4
<1> HIDE DEF t
<1>4. /\ thr'[c] = t /\ \A d \in Cpus \ {c} : thr'[d] = thr[d]
  BY <1>1, <1>2, <1>3, OneReader DEF OrderInv
<1>5. \A d \in Cpus : Held(d)' = Held(d)
  BY <1>1 DEF Held
<1>6. \A d \in Cpus \ {c} : Kept(d)
  BY <1>4, <1>5 DEF Kept
<1>7. Seqno(c)' = 0 /\ ~ At(c, "update")' /\ Owed(thr'[c]) = 0 /\ Owed(thr[c]) = 0
  BY <1>1, <1>3, <1>4 DEF Seqno, At, Owed
<1>8. \A d \in Cpus : Heads(Held(d))' = Heads(Held(d))
  BY <1>5 DEF Heads
<1>9. \A d \in Cpus \ {c} : Seqno(d)' = Seqno(d) /\ (At(d, "update")' <=> At(d, "update"))
  BY <1>1, <1>4 DEF Seqno, At
<1>10. ASSUME failures = 0 PROVE ~ misread' /\ FrameInv'
  <2>1. ~ misread /\ FrameInv
    BY <1>10 DEF LossInv
  <2>2. \A d \in Cpus : Busy(thr'[d])
    BY <1>3, <1>4, <2>1 DEF FrameInv, Busy, Idle
  <2>3. ASSUME NEW d \in Cpus \ {c}
        PROVE  Framed(pdu', Held(d)', Owed(thr'[d])) /\ Handed(pdu', thr'[d], Held(d)')
    BY <1>1, <1>6, <2>1, KeptIs DEF FrameInv
  <2>4. Framed(pdu', Held(c)', Owed(thr'[c]))
    BY <1>1, <1>5, <1>7, <2>1 DEF FrameInv
  <2>5. Handed(pdu', thr'[c], Held(c)')
    BY <1>3, <1>4 DEF Handed
  <2> QED
    BY <1>1, <2>1, <2>2, <2>3, <2>4, <2>5 DEF FrameInv
<1>11. ASSUME Clean PROVE LoggedInv' /\ PresentInv'
  <2>1. LoggedInv /\ PresentInv
    BY <1>11 DEF LossInv
  <2>3. LoggedInv'
    <3>1. \A i \in 1 .. Len(log) : log[i].seq # 0
      BY <2>1 DEF LoggedInv, Logged
    <3> QED
      BY <1>1, <1>7, <1>8, <1>9, <2>1, <3>1 DEF LoggedInv
  <2>4. PresentInv'
    <3>1. \A s : Present(s) => Present(s)'
      BY <1>1, <1>8, <1>9 DEF Present
    <3>2. Message' = Message
      BY <1>1 DEF Message
    <3> QED
      BY <2>1, <3>1, <3>2 DEF PresentInv
  <2> QED
    BY <2>3, <2>4
<1>12. failures' \in Nat /\ resync' \in BOOLEAN /\ \A s \in Message' : pdu'[s] > 0
  BY <1>1 DEF LossInv, Message
<1> QED
  BY <1>1, <1>10, <1>11, <1>12 DEF LossInv, Clean

(* The whole text goes to the output.                                       *)
LEMMA WriteLoss ==
    ASSUME OrderInv, LossInv, NEW c \in Cpus, write(c)
    PROVE  LossInv'
<1> DEFINE t == [thr[c] EXCEPT !.pc = "update"]
           s == thr[c].hdr.seq
           e == [seq |-> s, text |-> SubSeq(thr[c].got, 1, thr[c].rc)]
<1>1. /\ UNCHANGED <<rb, pdu, failures, resync, misread>>
      /\ At(c, "write") /\ thr' = [thr EXCEPT ![c] = t]
      /\ thr[c].rc > 0 => log' = Append(log, e)
  BY DEF write, kernel, output, history, Goto
<1>2. thr[c] \in ReaderState /\ (failures = 0 => Busy(thr[c])) /\ log \in Seq(Entry)
  BY ReaderOf DEF OrderInv, ShapeInv
<1>3. /\ t \in ReaderState /\ t.hdr = thr[c].hdr /\ t.got = thr[c].got /\ t.rc = thr[c].rc
      /\ t.pc = "update"
  BY <1>2 DEF ReaderState, ReaderPcs
<1> HIDE DEF t
<1>4. thr'[c] = t /\ \A d \in Cpus \ {c} : thr'[d] = thr[d]
  BY <1>1, <1>3, OneReader DEF OrderInv
<1>5. \A d \in Cpus : Held(d)' = Held(d)
  BY <1>1 DEF Held
<1>6. \A d \in Cpus : Heads(Held(d))' = Heads(Held(d))
  BY <1>5 DEF Heads
<1>7. /\ Seqno(c)' = Seqno(c) /\ At(c, "update")' /\ ~ At(c, "update") /\ Owed(thr'[c]) = 0
      /\ Owed(thr[c]) = 0
  BY <1>1, <1>3, <1>4 DEF Seqno, At, Owed
<1>8. \A d \in Cpus \ {c} : Seqno(d)' = Seqno(d) /\ (At(d, "update")' <=> At(d, "update"))
  BY <1>1, <1>4 DEF Seqno, At
<1>9. failures = 0 => s # 0 /\ Seqno(c) = s
  BY <1>1, <1>2 DEF LossInv, Busy, Idle, At, Seqno
<1>10. ASSUME failures = 0
       PROVE  /\ s \in 1 .. Len(pdu) /\ thr[c].hdr.len = pdu[s]
              /\ thr[c].got = Units(s, 1, pdu[s]) /\ thr[c].rc = pdu[s]
  <2>1. Handed(pdu, thr[c], Held(c)) /\ thr[c].pc # "body"
    BY <1>1, <1>10 DEF LossInv, FrameInv, At
  <2> QED
    BY <1>9, <1>10, <2>1 DEF Handed
<1>11. ASSUME failures = 0 PROVE ~ misread' /\ FrameInv'
  <2>1. ~ misread /\ FrameInv
    BY <1>11 DEF LossInv
  <2>2. \A d \in Cpus : Busy(thr'[d])
    BY <1>3, <1>4, <1>9, <1>11, <2>1 DEF FrameInv, Busy, Idle
  <2>3. ASSUME NEW d \in Cpus \ {c}
        PROVE  Framed(pdu', Held(d)', Owed(thr'[d])) /\ Handed(pdu', thr'[d], Held(d)')
    <3>1. Kept(d)
      BY <1>4, <1>5 DEF Kept
    <3> QED
      BY <1>1, <2>1, <3>1, KeptIs DEF FrameInv
  <2>4. Framed(pdu', Held(c)', Owed(thr'[c]))
    BY <1>1, <1>5, <1>7, <2>1 DEF FrameInv
  <2>5. Handed(pdu', thr'[c], Held(c)')
    BY <1>1, <1>3, <1>4, <1>10, <1>11 DEF Handed
  <2> QED
    BY <1>1, <2>1, <2>2, <2>3, <2>4, <2>5 DEF FrameInv
<1>12. ASSUME Clean PROVE LoggedInv' /\ PresentInv'
  <2>1. failures = 0 /\ LoggedInv /\ PresentInv /\ Seqno(c) = s
    BY <1>9, <1>12 DEF LossInv, Clean
  <2>2. /\ s \in 1 .. Len(pdu) /\ thr[c].hdr.len = pdu[s]
        /\ thr[c].got = Units(s, 1, pdu[s]) /\ thr[c].rc = pdu[s]
    BY <1>10, <2>1
  <2>3. pdu[s] > 0 /\ pdu[s] \in Nat /\ s \in Nat
    <3>1. pdu \in Seq(Nat)
      BY DEF OrderInv, ShapeInv
    <3>2. s \in Message
      BY <2>2 DEF Message
    <3> HIDE DEF s
    <3> QED
      BY <2>2, <3>1, <3>2 DEF LossInv
  <2>4. log' = Append(log, e) /\ Logged(pdu, e)
    <3> DEFINE n == pdu[s]
               x == Units(s, 1, n)
    <3>1. x \in Seq(Piece) /\ Len(x) = n
      <4> DEFINE one == 1
      <4>1. one \in Nat /\ n \in Int /\ n >= one - 1 /\ s \in Nat
        BY <2>3
      <4> HIDE DEF one, n, s
      <4>2. Units(s, one, n) \in Seq(Piece) /\ Len(Units(s, one, n)) = n - one + 1
        BY <4>1, UnitsAre, Zenon
      <4>3. x \in Seq(Piece) /\ Len(x) = n - 1 + 1
        BY <4>2, Zenon DEF one
      <4> HIDE DEF x
      <4> QED
        BY <4>1, <4>3
    <3>2. thr[c].got = x /\ thr[c].rc = n
      BY <2>2
    <3> HIDE DEF x, n
    <3>3. SubSeq(x, 1, n) = x
      BY <3>1
    <3>4. e.seq = s /\ e.text = x
      BY <3>2, <3>3
    <3> HIDE DEF e
    <3>5. Logged(pdu, e)
      BY <2>2, <3>4 DEF Logged, x, n
    <3>6. thr[c].rc > 0
      BY <2>3, <3>2 DEF n
    <3> QED
      BY <1>1, <3>5, <3>6 DEF e
  <2>5. e.seq = s
    OBVIOUS
  <2> HIDE DEF e
  <2>6. /\ Len(log) \in Nat /\ Len(log') = Len(log) + 1
        /\ \A i \in 1 .. Len(log) : log'[i] = log[i]
        /\ log'[Len(log) + 1] = e
    <3>1. log' = Append(log, e)
      BY <2>4
    <3> QED
      BY <1>2, <3>1
  <2>7. \A i \in 1 .. Len(log') : i \in 1 .. Len(log) \/ i = Len(log) + 1
    BY <2>6
  <2>8. \A i \in 1 .. Len(log) : log[i].seq # s
    BY <1>7, <2>1 DEF LoggedInv
  <2>9. /\ \A d \in Cpus : s \notin Heads(Held(d))
        /\ \A d \in Cpus : Seqno(d) = s => d = c
    <3>1. s \in Message
      BY <2>2 DEF Message
    <3> QED
      BY <2>1, <3>1 DEF OrderInv, PlaceInv
  <2> HIDE DEF s
  <2>11. LoggedInv'
    <3>1. \A i \in 1 .. Len(log') : Logged(pdu', log'[i])
      BY <1>1, <2>1, <2>4, <2>6, <2>7 DEF LoggedInv
    <3>2. \A i \in 1 .. Len(log') : \A d \in Cpus : log'[i].seq \notin Heads(Held(d))'
      BY <1>6, <2>1, <2>5, <2>6, <2>7, <2>9 DEF LoggedInv
    <3>3. ASSUME NEW i \in 1 .. Len(log'), NEW d \in Cpus, Seqno(d)' = log'[i].seq
          PROVE  At(d, "update")'
      <4>1. CASE d = c
        BY <1>7, <4>1
      <4>2. CASE d # c
        <5>1. Seqno(d) = log'[i].seq /\ Seqno(d) # s
          BY <1>8, <2>9, <3>3, <4>2
        <5>2. i \in 1 .. Len(log)
          BY <2>5, <2>6, <2>7, <5>1
        <5> QED
          BY <1>8, <2>1, <2>6, <4>2, <5>1, <5>2 DEF LoggedInv
      <4> QED
        BY <4>1, <4>2
    <3>4. \A i, j \in 1 .. Len(log') : log'[i].seq = log'[j].seq => i = j
      BY <2>1, <2>5, <2>6, <2>7, <2>8 DEF LoggedInv
    <3> QED
      BY <3>1, <3>2, <3>3, <3>4 DEF LoggedInv
  <2>12. PresentInv'
    <3>1. ASSUME NEW x, Present(x) PROVE Present(x)'
      <4>1. CASE x = s
        <5>1. Len(log) + 1 \in 1 .. Len(log') /\ log'[Len(log) + 1].seq = x
          BY <2>5, <2>6, <4>1
        <5> QED
          BY <5>1 DEF Present
      <4>2. CASE x # s
        <5>1. CASE \E d \in Cpus : x \in Heads(Held(d))
          BY <1>6, <5>1 DEF Present
        <5>2. CASE \E d \in Cpus : Seqno(d) = x /\ ~ At(d, "update")
          BY <1>8, <2>1, <4>2, <5>2 DEF Present
        <5>3. CASE \E i \in 1 .. Len(log) : log[i].seq = x
          <6>1. PICK i \in 1 .. Len(log) : log[i].seq = x
            BY <5>3
          <6>2. i \in 1 .. Len(log') /\ log'[i].seq = x
            BY <2>6, <6>1
          <6> QED
            BY <6>2 DEF Present
        <5> QED
          BY <3>1, <5>1, <5>2, <5>3 DEF Present
      <4> QED
        BY <4>1, <4>2
    <3>2. Message' = Message
      BY <1>1 DEF Message
    <3> QED
      BY <2>1, <3>1, <3>2 DEF PresentInv
  <2> QED
    BY <2>11, <2>12
<1>13. failures' \in Nat /\ resync' \in BOOLEAN /\ \A x \in Message' : pdu'[x] > 0
  BY <1>1 DEF LossInv, Message
<1> QED
  BY <1>1, <1>11, <1>12, <1>13 DEF LossInv, Clean

(* A reader reads: what leaves its buffer is in its hands afterwards.       *)
LEMMA Takes ==
    ASSUME OrderInv, LossInv, NEW c \in Cpus, NEW t \in ReaderState, thr' = [thr EXCEPT ![c] = t],
           NEW b \in Buffers, rb' = [rb EXCEPT ![c] = b],
           t.pc # "update", thr[c].pc # "update",
           UNCHANGED <<pdu, log, failures, misread>>, resync' \in BOOLEAN, resync => resync',
           failures = 0 => Busy(t) /\ Framed(pdu, Flat(b), Owed(t)) /\ Handed(pdu, t, Flat(b)),
           Clean' => /\ Heads(Flat(b)) \subseteq Heads(Held(c))
                     /\ \A x \in Heads(Held(c)) : x \in Heads(Flat(b)) \/ x = t.hdr.seq
                     /\ \/ Seqno(c) = t.hdr.seq
                        \/ Seqno(c) = 0 /\ t.hdr.seq \in Heads(Held(c))
    PROVE  LossInv'
<1>1. thr'[c] = t /\ \A d \in Cpus \ {c} : thr'[d] = thr[d]
  BY OneReader DEF OrderInv
<1>2. rb'[c] = b /\ \A d \in Cpus \ {c} : rb'[d] = rb[d]
  BY DEF OrderInv, ShapeInv
<1>3. Held(c)' = Flat(b) /\ \A d \in Cpus \ {c} : Held(d)' = Held(d)
  BY <1>2 DEF Held, Flat
<1>4. Heads(Held(c))' = Heads(Flat(b)) /\ \A d \in Cpus \ {c} : Heads(Held(d))' = Heads(Held(d))
  BY <1>3 DEF Heads
<1>5. /\ (~ misread => Seqno(c)' = t.hdr.seq) /\ ~ At(c, "update")' /\ ~ At(c, "update")
      /\ \A d \in Cpus \ {c} : Seqno(d)' = Seqno(d) /\ (At(d, "update")' <=> At(d, "update"))
  BY <1>1 DEF Seqno, At
<1>6. ASSUME failures = 0 PROVE ~ misread' /\ FrameInv'
  <2>1. ~ misread /\ FrameInv
    BY <1>6 DEF LossInv
  <2>2. ASSUME NEW d \in Cpus \ {c}
        PROVE  /\ Busy(thr'[d])
               /\ Framed(pdu', Held(d)', Owed(thr'[d])) /\ Handed(pdu', thr'[d], Held(d)')
    <3>1. Kept(d)
      BY <1>1, <1>3 DEF Kept
    <3> QED
      BY <1>1, <2>1, <3>1, KeptIs DEF FrameInv
  <2>3. /\ Busy(thr'[c])
        /\ Framed(pdu', Held(c)', Owed(thr'[c])) /\ Handed(pdu', thr'[c], Held(c)')
    BY <1>1, <1>3, <1>6
  <2> QED
    BY <2>1, <2>2, <2>3 DEF FrameInv
<1>7. ASSUME Clean' PROVE LoggedInv' /\ PresentInv'
  <2>1. Clean /\ ~ misread /\ LoggedInv /\ PresentInv
    BY <1>7 DEF LossInv, Clean
  <2>3. LoggedInv'
    <3>1. \A i \in 1 .. Len(log) : log[i].seq \notin Heads(Held(c)) /\ Seqno(c) # log[i].seq
      BY <1>5, <2>1 DEF LoggedInv
    <3>2. \A i \in 1 .. Len(log) : t.hdr.seq # log[i].seq
      BY <1>7, <3>1
    <3>3. \A i \in 1 .. Len(log) : Logged(pdu, log[i])
      BY <2>1 DEF LoggedInv
    <3>4. \A i \in 1 .. Len(log) : \A d \in Cpus : log[i].seq \notin Heads(Held(d))'
      BY <1>4, <1>7, <2>1, <3>1 DEF LoggedInv
    <3>5. \A i \in 1 .. Len(log) : \A d \in Cpus : Seqno(d)' = log[i].seq => At(d, "update")'
      BY <1>5, <2>1, <3>2 DEF LoggedInv
    <3> QED
      BY <2>1, <3>3, <3>4, <3>5 DEF LoggedInv
  <2>4. PresentInv'
    <3>1. ASSUME NEW x, x # 0, Present(x) PROVE Present(x)'
      <4>1. CASE x \in Heads(Held(c))
        BY <1>4, <1>5, <1>7, <2>1, <4>1 DEF Present
      <4>2. CASE Seqno(c) = x
        BY <1>5, <1>7, <2>1, <3>1, <4>2 DEF Present
      <4>3. CASE x \notin Heads(Held(c)) /\ Seqno(c) # x
        BY <1>4, <1>5, <3>1, <4>3 DEF Present
      <4> QED
        BY <4>1, <4>2, <4>3
    <3>2. Message' = Message /\ 0 \notin Message
      BY DEF Message
    <3> QED
      BY <2>1, <3>1, <3>2 DEF PresentInv
  <2> QED
    BY <2>3, <2>4
<1>8. failures' \in Nat /\ resync' \in BOOLEAN /\ \A x \in Message' : pdu'[x] > 0
  BY DEF LossInv, Message
<1> QED
  BY <1>6, <1>7, <1>8 DEF LossInv

(* The reader reads n units, and Rest() is what stays.                      *)
LEMMA ReadHeld ==
    ASSUME OrderInv, NEW c \in Cpus, NEW n \in 0 .. Len(Held(c))
    PROVE  LET b == Consume(SwitchOut(rb[c]), n)
           IN  /\ b \in Buffers /\ Rest(Flat(b), Held(c), n) /\ Flat(b) \in Seq(Piece)
               /\ Heads(Flat(b)) \subseteq Heads(Held(c))
               /\ n > 0 /\ Held(c)[1].at = 0 => Held(c)[1].m \in Heads(Held(c))
<1>1. rb[c] \in Buffers /\ Held(c) = Flat(rb[c]) /\ Once(Flat(rb[c]))
  BY BufferOf DEF OrderInv
<1> DEFINE b == Consume(SwitchOut(rb[c]), n)
<1>2. b \in Buffers /\ Rest(Flat(b), Held(c), n)
  BY <1>1, ReadRest
<1>3. /\ Heads(Flat(b)) \subseteq Heads(Held(c))
      /\ n > 0 /\ Held(c)[1].at = 0 => Held(c)[1].m \in Heads(Held(c))
  BY <1>1, ReadBuf
<1> HIDE DEF b
<1>4. Flat(b) \in Seq(Piece)
  BY <1>2, FlatType
<1> QED
  BY <1>2, <1>3, <1>4 DEF b

(* Nothing is in the buffer, or all of it is taken and thrown away.         *)
LEMMA TakesAll ==
    ASSUME OrderInv, LossInv, NEW c \in Cpus,
           rb' = [rb EXCEPT ![c] = Consume(SwitchOut(rb[c]), Len(Held(c)))],
           NEW l \in {"drain", "done", "poll"}, Goto(c, l),
           thr[c].pc \in {"poll", "hdr", "drain"},
           UNCHANGED <<pdu, log, failures, misread>>, resync' \in BOOLEAN, resync => resync',
           ~ resync' => Len(Held(c)) = 0
    PROVE  LossInv'
<1> DEFINE n == Len(Held(c))
           t == [thr[c] EXCEPT !.pc = l]
           b == Consume(SwitchOut(rb[c]), n)
           f == Flat(b)
<1>1. /\ thr[c] \in ReaderState /\ l \in ReaderPcs /\ (failures = 0 => Busy(thr[c]))
  BY ReaderOf DEF ReaderPcs
<1>2. /\ t \in ReaderState /\ t.pc = l /\ t.hdr = thr[c].hdr /\ t.got = thr[c].got
      /\ t.rc = thr[c].rc /\ t.to = thr[c].to
  BY <1>1 DEF ReaderState
<1>3. thr' = [thr EXCEPT ![c] = t] /\ rb' = [rb EXCEPT ![c] = b]
  BY DEF Goto
<1> HIDE DEF t
<1>4. failures = 0 => Busy(t) /\ t.hdr.seq = 0
  BY <1>1, <1>2 DEF Busy, Idle
<1>5. Held(c) \in Seq(Piece) /\ n \in Nat /\ n \in 0 .. n
  <2>1. Held(c) \in Seq(Piece) /\ n \in Nat
    BY SizedBuffers
  <2> HIDE DEF n
  <2> QED
    BY <2>1
<1>6. /\ b \in Buffers /\ Rest(f, Held(c), n) /\ f \in Seq(Piece)
      /\ Heads(f) \subseteq Heads(Held(c))
  BY <1>5, ReadHeld
<1> HIDE DEF b
<1>7. f = <<>>
  <2> HIDE DEF f
  <2> QED
    BY <1>5, <1>6 DEF Rest
<1>8. Owed(t) = 0 /\ t.pc # "update" /\ thr[c].pc # "update"
  BY <1>2 DEF Owed
<1>9. failures = 0 => Busy(t) /\ Framed(pdu, f, Owed(t)) /\ Handed(pdu, t, f)
  <2>1. Framed(pdu, <<>>, 0)
    BY DEF Framed
  <2> HIDE DEF f
  <2> QED
    BY <1>4, <1>7, <1>8, <2>1 DEF Handed
<1>10. ASSUME Clean'
       PROVE  /\ \A x \in Heads(Held(c)) : x \in Heads(f) \/ x = t.hdr.seq
              /\ Seqno(c) = t.hdr.seq
  <2>1. n = 0 /\ failures = 0 /\ ~ misread
    BY <1>10 DEF Clean, LossInv
  <2>2. Heads(Held(c)) = {}
    BY <2>1 DEF Heads
  <2> QED
    BY <1>2, <2>1, <2>2 DEF Seqno
<1> HIDE DEF n, f
<1> QED
  BY <1>2, <1>3, <1>6, <1>8, <1>9, <1>10, Takes DEF f

(* The draining read: what it throws away it is known for.                  *)
LEMMA DrainLoss ==
    ASSUME OrderInv, LossInv, NEW c \in Cpus, drain(c)
    PROVE  LossInv'
<1> DEFINE u == Avail(SwitchOut(rb[c]).subs)
<1>1. u = Held(c) /\ Held(c) \in Seq(Piece) /\ Len(Held(c)) \in Nat
  BY BufferOf DEF OrderInv
<1>2. /\ At(c, "drain") /\ rb' = [rb EXCEPT ![c] = Consume(SwitchOut(rb[c]), Len(u))]
      /\ Goto(c, LoopPc) /\ resync' = (resync \/ u # <<>>)
      /\ UNCHANGED <<pdu, log, failures, misread>>
  BY DEF drain, output
<1> HIDE DEF u
<1>3. LoopPc \in {"drain", "done", "poll"}
  BY DEF LoopPc
<1>4. thr[c].pc \in {"poll", "hdr", "drain"}
  BY <1>2 DEF At
<1>5. resync' \in BOOLEAN /\ (resync => resync') /\ (~ resync' => u = <<>>)
  BY <1>2 DEF LossInv
<1>6. ~ resync' => Len(Held(c)) = 0
  <2>1. Len(<<>>) = 0
    OBVIOUS
  <2> QED
    BY <1>1, <1>5, <2>1
<1> QED
  BY <1>1, <1>2, <1>3, <1>4, <1>5, <1>6, TakesAll

(* The reader takes the header in front, and the text is next.              *)
LEMMA GetsHeader ==
    ASSUME OrderInv, LossInv, NEW c \in Cpus, Len(Held(c)) > 0, Held(c)[1].at = 0,
           rb' = [rb EXCEPT ![c] = Consume(SwitchOut(rb[c]), 1)],
           thr' = [thr EXCEPT ![c].pc = "body", ![c].got = <<>>,
                        ![c].hdr = [seq |-> Held(c)[1].m, len |-> pdu[Held(c)[1].m]]],
           thr[c].pc \in {"poll", "hdr"}, UNCHANGED <<pdu, log, failures, resync, misread>>
    PROVE  LossInv'
<1> DEFINE h == Held(c)
           s == h[1].m
           k == pdu[s]
           g == <<>>
           z == [seq |-> s, len |-> k]
           l == "body"
           t == [thr[c] EXCEPT !.pc = l, !.got = g, !.hdr = z]
           b == Consume(SwitchOut(rb[c]), 1)
           f == Flat(b)
<1>1. /\ h \in Seq(Piece) /\ Len(h) \in Nat /\ Sized(pdu, h) /\ pdu \in Seq(Nat)
      /\ \A i \in 1 .. Len(h) : h[i].at = 0 => h[i].m \in 1 .. Len(pdu)
  BY SizedBuffers
<1>2. 1 \in 0 .. Len(h) /\ 1 \in 1 .. Len(h)
  BY <1>1
<1>3. /\ b \in Buffers /\ Rest(f, h, 1) /\ f \in Seq(Piece) /\ Heads(f) \subseteq Heads(h)
      /\ s \in Heads(h)
  BY <1>2, ReadHeld
<1>4. s \in 1 .. Len(pdu) /\ s \in Nat /\ s # 0 /\ k \in Nat
  <2>1. s \in 1 .. Len(pdu)
    BY <1>1, <1>2
  <2> HIDE DEF s
  <2> QED
    BY <1>1, <2>1
<1>5. /\ thr[c] \in ReaderState /\ (failures = 0 => Busy(thr[c])) /\ l \in ReaderPcs /\ g \in Seq(Piece)
      /\ z \in [seq : Nat, len : Nat] /\ z.seq = s /\ z.len = k
  BY <1>4, ReaderOf DEF ReaderPcs
<1>6. thr' = [thr EXCEPT ![c] = t] /\ rb' = [rb EXCEPT ![c] = b]
  OBVIOUS
<1>7. l = "body" /\ g = <<>> /\ 1 \in Nat /\ 1 <= Len(h) /\ Len(h) > 0 /\ h[1].at = 0
  BY <1>1
<1>8. Held(c) = h /\ h[1].m = s /\ pdu[s] = k
  OBVIOUS
<1> HIDE DEF g, z, l
<1>9. /\ t \in ReaderState /\ t.pc = l /\ t.hdr = z /\ t.got = g
  BY <1>5 DEF ReaderState
<1> HIDE DEF t, b, s, k, h
<1>10. Busy(t) /\ t.pc # "update" /\ thr[c].pc # "update" /\ Owed(t) = k
  BY <1>4, <1>5, <1>7, <1>9 DEF Busy, Idle, Owed
<1>11. failures = 0 => Seqno(c) = 0
  BY <1>5 DEF LossInv, Busy, Idle, Seqno
<1>12. ASSUME failures = 0
       PROVE  /\ Framed(pdu, f, Owed(t)) /\ Handed(pdu, t, f)
              /\ \A x \in Heads(h) : x \in Heads(f) \/ x = t.hdr.seq
  <2>1. Framed(pdu, h, 0)
    <3>1. Owed(thr[c]) = 0
      BY DEF Owed
    <3> QED
      BY <1>8, <1>12, <3>1 DEF LossInv, FrameInv
  <2>2. Framed(pdu, f, k) /\ \A j \in 1 .. k : f[j].m = s /\ f[j].at = j
    <3> HIDE DEF f
    <3> QED
      BY <1>1, <1>3, <1>7, <1>8, <2>1, HeaderTaken
  <2>3. Handed(pdu, t, f)
    BY <1>4, <1>5, <1>7, <1>8, <1>9, <2>2 DEF Handed
  <2>4. ASSUME NEW x \in Heads(h) PROVE x \in Heads(f) \/ x = s
    <3> HIDE DEF f
    <3> DEFINE n == 1
    <3>1. n \in Nat /\ n <= Len(h) /\ Rest(f, h, n)
      BY <1>3, <1>7
    <3>2. \A i \in 1 .. n : i = 1
      OBVIOUS
    <3>3. h \in Seq(Piece) /\ f \in Seq(Piece)
      BY <1>1, <1>3
    <3> HIDE DEF n
    <3>4. x \in Heads(f) \/ \E i \in 1 .. n : h[i].at = 0 /\ h[i].m = x
      BY <3>1, <3>3, HeadsTaken
    <3> QED
      BY <1>8, <3>2, <3>4, Zenon
  <2> QED
    BY <1>5, <1>9, <1>10, <2>2, <2>3, <2>4
<1>13. t.hdr.seq = s
  BY <1>5, <1>9
<1>14. ASSUME Clean'
       PROVE  /\ Heads(f) \subseteq Heads(Held(c))
              /\ \A x \in Heads(Held(c)) : x \in Heads(f) \/ x = t.hdr.seq
              /\ Seqno(c) = 0 /\ t.hdr.seq \in Heads(Held(c))
  <2>1. failures = 0
    BY <1>14 DEF Clean
  <2> QED
    BY <1>3, <1>8, <1>11, <1>12, <1>13, <2>1
<1>15. resync' \in BOOLEAN /\ (resync => resync')
  BY DEF LossInv
<1> QED
  BY <1>3, <1>6, <1>9, <1>10, <1>12, <1>14, <1>15, Takes

(* read(2) of the header: as long as nothing was lost it finds one.         *)
LEMMA HeaderLoss ==
    ASSUME OrderInv, LossInv, NEW c \in Cpus, read_header(c)
    PROVE  LossInv'
<1> DEFINE b == SwitchOut(rb[c])
           u == Avail(b.subs)
           l == IF b.subs = <<>> THEN "drain" ELSE LoopPc
           h == Held(c)
<1>1. u = h /\ h \in Seq(Piece) /\ Len(h) \in Nat
  BY BufferOf DEF OrderInv
<1>2. thr[c].pc \in {"poll", "hdr"}
  BY DEF read_header, At
<1>3. UNCHANGED <<pdu, log, failures, resync>>
  BY DEF read_header, output
<1>4. \/ u = <<>> /\ rb' = [rb EXCEPT ![c] = Consume(b, 0)] /\ Goto(c, l) /\ misread' = misread
      \/ /\ u # <<>> /\ Head(u).at = 0 /\ rb' = [rb EXCEPT ![c] = Consume(b, 1)]
         /\ thr' = [thr EXCEPT ![c].pc = "body", ![c].got = <<>>,
                         ![c].hdr = [seq |-> Head(u).m, len |-> pdu[Head(u).m]]]
         /\ misread' = misread
      \/ u # <<>> /\ Head(u).at > 0
  BY Zenon DEF read_header
<1>5. l \in {"drain", "done", "poll"}
  BY DEF LoopPc
<1>6. /\ (u # <<>> => Len(h) > 0)
      /\ (Len(h) > 0 => Head(u) = h[1] /\ h[1].at \in Nat) /\ (u = <<>> => Len(h) = 0)
  <2> HIDE DEF u, h
  <2>1. Len(h) > 0 => h[1] \in Piece
    BY <1>1
  <2>2. Len(h) > 0 => h[1].at \in Nat
    BY <2>1 DEF Piece
  <2> QED
    BY <1>1, <2>2
<1>7. ASSUME failures = 0, Len(h) > 0 PROVE h[1].at = 0
  <2>1. Framed(pdu, h, 0)
    <3>1. Owed(thr[c]) = 0
      BY <1>2 DEF Owed
    <3> QED
      BY <1>7, <3>1 DEF LossInv, FrameInv
  <2> HIDE DEF h
  <2> QED
    BY <1>7, <2>1 DEF Framed
<1>8. failures \in Nat /\ resync' \in BOOLEAN /\ (resync => resync')
  BY <1>3 DEF LossInv
<1> HIDE DEF u, l, h
<1>9. ASSUME u = <<>>, rb' = [rb EXCEPT ![c] = Consume(b, 0)], Goto(c, l), misread' = misread
      PROVE  LossInv'
  <2>1. Len(h) = 0 /\ thr[c].pc \in {"poll", "hdr", "drain"}
    BY <1>2, <1>6, <1>9
  <2>2. rb' = [rb EXCEPT ![c] = Consume(SwitchOut(rb[c]), Len(Held(c)))]
    BY <1>9, <2>1 DEF h
  <2> QED
    BY <1>3, <1>5, <1>8, <1>9, <2>1, <2>2, TakesAll DEF h
<1>10. ASSUME u # <<>>, Head(u).at > 0 PROVE LossInv'
  <2>1. failures # 0
    BY <1>6, <1>7, <1>10
  <2>2. failures' \in Nat /\ failures' > 0 /\ \A x \in Message' : pdu'[x] > 0
    BY <1>3, <1>8, <2>1 DEF LossInv, Message
  <2> QED
    BY <1>8, <2>2, Counted
<1>11. ASSUME u # <<>>, Head(u).at = 0, rb' = [rb EXCEPT ![c] = Consume(b, 1)],
              thr' = [thr EXCEPT ![c].pc = "body", ![c].got = <<>>,
                         ![c].hdr = [seq |-> Head(u).m, len |-> pdu[Head(u).m]]],
              misread' = misread
       PROVE  LossInv'
  <2>1. Len(h) > 0 /\ Head(u) = h[1]
    BY <1>6, <1>11
  <2> QED
    BY <1>2, <1>3, <1>11, <2>1, GetsHeader DEF h
<1> QED
  BY <1>4, <1>9, <1>10, <1>11

(* read(2) of the text: as long as nothing was lost it gets all of it.      *)
LEMMA BodyLoss ==
    ASSUME OrderInv, LossInv, NEW c \in Cpus, read_body(c)
    PROVE  LossInv'
<1> DEFINE h == Held(c)
           old == thr[c].got
           want == thr[c].hdr.len - Len(old)
           n == IF Len(h) < want THEN Len(h) ELSE want
           g == old \o SubSeq(h, 1, n)
           l == IF n > 0 /\ n < want THEN "body" ELSE "wait"
           t == [thr[c] EXCEPT !.got = g, !.rc = n, !.pc = l]
           b == Consume(SwitchOut(rb[c]), n)
           f == Flat(b)
           s == thr[c].hdr.seq
           len == thr[c].hdr.len
<1>1. Avail(SwitchOut(rb[c]).subs) = h
  BY BufferOf DEF OrderInv
<1>2. /\ thr[c].pc = "body" /\ rb' = [rb EXCEPT ![c] = b]
      /\ thr' = [thr EXCEPT ![c] = t]
      /\ UNCHANGED <<pdu, log, failures, resync, misread>>
  BY <1>1 DEF read_body, output, history, At
<1>3. /\ h \in Seq(Piece) /\ Len(h) \in Nat /\ Sized(pdu, h) /\ pdu \in Seq(Nat)
  BY SizedBuffers
<1>4. /\ thr[c] \in ReaderState /\ old \in Seq(Piece) /\ Len(old) \in Nat /\ (failures = 0 => Busy(thr[c]))
      /\ thr[c].hdr.len \in Nat /\ Len(old) <= thr[c].hdr.len
  BY <1>2, ReaderOf DEF OrderInv, TextInv, At, ReaderState
<1>5. want \in Nat /\ n \in 0 .. Len(h) /\ n \in Nat /\ n <= want
  <2> HIDE DEF old, h
  <2> QED
    BY <1>3, <1>4
<1>6. /\ b \in Buffers /\ Rest(f, h, n) /\ f \in Seq(Piece) /\ Heads(f) \subseteq Heads(h)
  <2> HIDE DEF n
  <2> QED
    BY <1>5, ReadHeld
<1>7. ASSUME failures = 0
      PROVE  /\ old = <<>> /\ n = len /\ l = "wait" /\ Framed(pdu, h, len)
             /\ s \in 1 .. Len(pdu) /\ len = pdu[s] /\ len \in Nat
             /\ \A j \in 1 .. len : h[j].m = s /\ h[j].at = j
  <2>1. Framed(pdu, h, Owed(thr[c])) /\ Handed(pdu, thr[c], h)
    BY <1>7 DEF LossInv, FrameInv
  <2>2. Owed(thr[c]) = len /\ s # 0
    BY <1>2, <1>4, <1>7 DEF Owed, Busy, Idle
  <2>3. /\ old = <<>> /\ s \in 1 .. Len(pdu) /\ len = pdu[s]
        /\ \A j \in 1 .. len : h[j].m = s /\ h[j].at = j
    BY <1>2, <2>1, <2>2 DEF Handed
  <2>4. Framed(pdu, h, len) /\ len <= Len(h) /\ Len(old) = 0
    <3>1. Framed(pdu, h, len)
      BY <2>1, <2>2
    <3> HIDE DEF h, old
    <3> QED
      BY <2>3, <3>1 DEF Framed
  <2>5. want = len /\ n = len
    <3> HIDE DEF h, old
    <3> QED
      BY <1>3, <1>4, <2>4
  <2>6. l = "wait"
    <3> HIDE DEF want, n
    <3> QED
      BY <1>4, <2>5
  <2> QED
    BY <1>4, <2>3, <2>4, <2>5, <2>6
<1>8. l \in ReaderPcs /\ l \in {"body", "wait"}
  BY DEF ReaderPcs
<1>9. g \in Seq(Piece)
  <2> HIDE DEF n, h, old
  <2> QED
    BY <1>3, <1>4, <1>5, MoreText
<1>10. ASSUME failures = 0 PROVE g = Units(s, 1, len)
  <2>1. SubSeq(h, 1, n) = Units(s, 1, len)
    <3> HIDE DEF h, n, s, len
    <3>1. len <= Len(h) /\ s \in Nat
      <4>1. s \in 1 .. Len(pdu) /\ Framed(pdu, h, len)
        BY <1>7, <1>10
      <4> QED
        BY <4>1 DEF Framed
    <3>2. /\ h \in Seq(Piece) /\ len \in Nat /\ n = len
          /\ \A j \in 1 .. len : h[j].m = s /\ h[j].at = j
      BY <1>3, <1>7, <1>10, Zenon
    <3>3. SubSeq(h, 1, len) = Units(s, 1, len)
      BY <3>1, <3>2, TextIs
    <3> QED
      BY <3>2, <3>3, Zenon
  <2> DEFINE y == SubSeq(h, 1, n)
  <2>2. y \in Seq(Piece)
    <3> HIDE DEF h, n
    <3> QED
      BY <1>3, <1>5
  <2>3. g = <<>> \o y
    BY <1>7, <1>10
  <2> HIDE DEF y
  <2>4. <<>> \o y = y
    BY <2>2
  <2> QED
    BY <2>1, <2>3, <2>4 DEF y
<1>11. Held(c) = h /\ (failures = 0 => Seqno(c) = s) /\ thr[c].hdr.seq = s /\ thr[c].hdr.len = len
  BY DEF LossInv, Seqno
<1> HIDE DEF g, l, n, want, old, h
<1>12. /\ t \in ReaderState /\ t.got = g /\ t.rc = n /\ t.pc = l /\ t.hdr = thr[c].hdr
  BY <1>4, <1>5, <1>8, <1>9 DEF ReaderState
<1> HIDE DEF t, b, s, len
<1>13. (failures = 0 => Busy(t)) /\ t.pc # "update" /\ thr[c].pc # "update" /\ t.hdr.seq = s
  BY <1>2, <1>4, <1>8, <1>11, <1>12 DEF Busy, Idle
<1>14. ASSUME failures = 0
       PROVE  /\ Framed(pdu, f, Owed(t)) /\ Handed(pdu, t, f)
              /\ \A x \in Heads(h) : x \in Heads(f) \/ x = t.hdr.seq
  <2>1. Owed(t) = 0 /\ t.pc = "wait" /\ n = len
    BY <1>7, <1>12, <1>14 DEF Owed
  <2> HIDE DEF f
  <2>2. Framed(pdu, f, 0)
    BY <1>3, <1>6, <1>7, <1>14, <2>1, TextTaken
  <2>3. Handed(pdu, t, f)
    BY <1>7, <1>10, <1>11, <1>12, <1>14, <2>1 DEF Handed
  <2>4. ASSUME NEW x \in Heads(h) PROVE x \in Heads(f)
    <3>1. n <= Len(h)
      BY <1>3, <1>5
    <3>2. x \in Heads(f) \/ \E i \in 1 .. n : h[i].at = 0 /\ h[i].m = x
      BY <1>3, <1>5, <1>6, <3>1, HeadsTaken
    <3>3. \A i \in 1 .. n : h[i].at # 0
      BY <1>7, <1>14, <2>1
    <3> QED
      BY <3>2, <3>3
  <2> QED
    BY <2>1, <2>2, <2>3, <2>4
<1>15. ASSUME Clean'
       PROVE  /\ Heads(f) \subseteq Heads(Held(c))
              /\ \A x \in Heads(Held(c)) : x \in Heads(f) \/ x = t.hdr.seq
              /\ Seqno(c) = t.hdr.seq
  <2>1. failures = 0
    BY <1>2, <1>15 DEF Clean
  <2> QED
    BY <1>6, <1>11, <1>13, <1>14, <2>1
<1>16. resync' \in BOOLEAN /\ (resync => resync')
  BY <1>2 DEF LossInv
<1> QED
  BY <1>2, <1>6, <1>12, <1>13, <1>14, <1>15, <1>16, Takes

(* A flush adds a whole message, or is counted as a failure.                *)
LEMMA FlushLoss ==
    ASSUME OrderInv, LossInv, NEW c \in Cpus, NEW len \in 1 .. MaxBody, __stp_print_flush(c, len)
    PROVE  LossInv'
<1> DEFINE r == write_reserve(rb[c], 1 + len)
           m == Len(pdu) + 1
           s == [buf |-> Fill(r.buf, Units(m, 0, r.k - 1)), next |-> r.k, failed |-> FALSE]
           st == CopyRest(s, m, len)
           j == Fill(r.buf, [i \in 1 .. r.k |-> Junk])
<1>1. /\ \/ /\ r.k > 1 /\ rb' = [rb EXCEPT ![c] = st.buf] /\ pdu' = Append(pdu, len)
            /\ failures' = failures + (IF st.failed THEN 1 ELSE 0)
         \/ r.k <= 1 /\ failures' = failures + 1 /\ pdu' = pdu
      /\ UNCHANGED <<thr, log, resync, misread>>
  BY Zenon DEF __stp_print_flush, output, history, count_rest
<1>2. /\ rb[c] \in Buffers /\ Held(c) = Flat(rb[c]) /\ Once(Flat(rb[c]))
      /\ len \in Nat /\ len > 0 /\ m \in Nat /\ pdu \in Seq(Nat) /\ Len(pdu) \in Nat
  <2>1. len \in Nat /\ len > 0
    OBVIOUS
  <2>2. pdu \in Seq(Nat)
    BY DEF OrderInv, ShapeInv
  <2> QED
    BY <2>1, <2>2, BufferOf DEF OrderInv
<1>3. failures \in Nat /\ resync' \in BOOLEAN
  BY <1>1 DEF LossInv
<1>4. ASSUME r.k <= 1, failures' = failures + 1, pdu' = pdu PROVE LossInv'
  <2>1. failures' \in Nat /\ failures' > 0 /\ \A x \in Message' : pdu'[x] > 0
    BY <1>3, <1>4 DEF LossInv, Message
  <2> QED
    BY <1>3, <2>1, Counted
<1>5. ASSUME r.k > 1, rb' = [rb EXCEPT ![c] = st.buf], pdu' = Append(pdu, len),
             failures' = failures + (IF st.failed THEN 1 ELSE 0)
      PROVE  LossInv'
  <2>1. m \notin Heads(Flat(rb[c]))
    <3>1. Heads(Held(c)) \subseteq 1 .. Len(pdu)
      BY DEF OrderInv, PlaceInv, Message
    <3> QED
      BY <1>2, <3>1
  <2>2. st.buf \in Buffers /\ Heads(Flat(st.buf)) = Heads(Held(c)) \cup {m}
    BY <1>2, <1>5, <2>1, FlushBuf
  <2>3. st \in CopyState /\ (~ st.failed => Grown(Flat(st.buf), Held(c), m, len + 1))
    BY <1>2, <1>5, FlushGrows
  <2> HIDE DEF st, r
  <2>4. st.failed \in BOOLEAN
    BY <2>3 DEF CopyState
  <2>5. failures' \in Nat /\ (failures' = 0 => failures = 0 /\ ~ st.failed)
    BY <1>3, <1>5, <2>4
  <2>6. rb'[c] = st.buf /\ \A d \in Cpus \ {c} : rb'[d] = rb[d]
    BY <1>5 DEF OrderInv, ShapeInv
  <2>7. Held(c)' = Flat(st.buf) /\ \A d \in Cpus \ {c} : Held(d)' = Held(d)
    BY <2>6 DEF Held, Flat
  <2>8. /\ Heads(Held(c))' = Heads(Held(c)) \cup {m}
        /\ \A d \in Cpus \ {c} : Heads(Held(d))' = Heads(Held(d))
    BY <2>2, <2>7 DEF Heads
  <2>9. /\ Len(pdu') = m /\ pdu'[m] = len
        /\ \A i \in 1 .. Len(pdu) : pdu'[i] = pdu[i] /\ i \in 1 .. Len(pdu')
    BY <1>2, <1>5
  <2>10. \A i \in 1 .. Len(pdu') : i \in 1 .. Len(pdu) \/ i = m
    BY <1>2, <2>9
  <2> HIDE DEF m
  <2>11. \A x \in Message' : pdu'[x] > 0
    BY <1>2, <2>9, <2>10 DEF LossInv, Message
  <2>12. \A d \in Cpus : Seqno(d)' = Seqno(d) /\ (At(d, "update")' <=> At(d, "update"))
    BY <1>1 DEF Seqno, At
  <2>13. ASSUME failures' = 0 PROVE ~ misread' /\ FrameInv'
    <3>1. ~ misread' /\ FrameInv /\ ~ st.failed
      BY <1>1, <2>5, <2>13 DEF LossInv
    <3>2. FrameInv'
      <4>1. ASSUME NEW d \in Cpus
            PROVE  Framed(pdu', Held(d)', Owed(thr[d])) /\ Handed(pdu', thr[d], Held(d)')
        <5> DEFINE h == Held(d)
                   g == Held(d)'
                   t == thr[d]
                   k == Owed(t)
        <5>1. /\ h \in Seq(Piece) /\ Len(h) \in Nat /\ Sized(pdu, h)
              /\ \A i \in 1 .. Len(h) : h[i].at = 0 => h[i].m \in 1 .. Len(pdu)
          BY SizedBuffers
        <5>2. k \in Nat /\ Framed(pdu, h, k) /\ Handed(pdu, t, h)
          <6>1. t \in ReaderState
            BY Shapes
          <6>2. k \in Nat
            BY <6>1 DEF Owed, ReaderState
          <6> QED
            BY <3>1, <6>2 DEF FrameInv
        <5>3. \A i \in 1 .. Len(h) : h[i].at = 0 => pdu'[h[i].m] = pdu[h[i].m]
          BY <2>9, <5>1
        <5>4. d = c => g \in Seq(Piece) /\ Grown(g, h, m, len + 1)
          BY <2>2, <2>3, <2>7, <3>1, FlatType
        <5>5. d # c => g = h
          BY <2>7
        <5> HIDE DEF h, g
        <5>6. Framed(pdu', g, k)
          <6>1. CASE d = c
            <7> HIDE DEF k
            <7> QED
              BY <1>2, <2>9, <5>1, <5>2, <5>3, <5>4, <6>1, MessageAdded
          <6>2. CASE d # c
            <7>1. \A i \in 1 .. Len(h) : h[i].at = 0 => WholeAt(pdu', h, i)
              BY <5>2, <5>3 DEF Framed, WholeAt
            <7> QED
              BY <5>2, <5>5, <6>2, <7>1 DEF Framed
          <6> QED
            BY <6>1, <6>2
        <5>7. k <= Len(h) /\ \A i \in 1 .. Len(h) : g[i] = h[i]
          <6>1. k <= Len(h)
            BY <5>2 DEF Framed
          <6>2. CASE d = c
            BY <5>4, <6>1, <6>2 DEF Grown
          <6>3. CASE d # c
            BY <5>5, <6>1, <6>3
          <6> QED
            BY <6>2, <6>3
        <5>8. ASSUME t.hdr.seq # 0 PROVE Handed(pdu', t, g)
          <6>1. /\ t.hdr.seq \in 1 .. Len(pdu') /\ t.hdr.len = pdu'[t.hdr.seq]
            BY <2>9, <5>2, <5>8 DEF Handed
          <6>2. ASSUME t.pc = "body"
                PROVE  \A i \in 1 .. t.hdr.len : g[i].m = t.hdr.seq /\ g[i].at = i
            <7>1. k = t.hdr.len
              BY <6>2 DEF Owed
            <7>2. \A i \in 1 .. k : i \in 1 .. Len(h)
              <8> HIDE DEF k
              <8> QED
                BY <5>1, <5>2, <5>7
            <7> QED
              BY <5>2, <5>7, <5>8, <6>2, <7>1, <7>2 DEF Handed
          <6> QED
            BY <5>2, <5>8, <6>1, <6>2 DEF Handed
        <5>9. Handed(pdu', t, g)
          BY <5>8 DEF Handed
        <5> QED
          BY <5>6, <5>9 DEF h, g
      <4> QED
        BY <1>1, <3>1, <4>1 DEF FrameInv
    <3> QED
      BY <3>1, <3>2
  <2>14. ASSUME Clean' PROVE LoggedInv' /\ PresentInv'
    <3>1. LoggedInv /\ PresentInv
      BY <1>1, <2>5, <2>14 DEF LossInv, Clean
    <3>3. LoggedInv'
      <4>1. \A i \in 1 .. Len(log) : log[i].seq \in 1 .. Len(pdu) /\ log[i].seq # m
        <5>1. \A i \in 1 .. Len(log) : log[i].seq \in 1 .. Len(pdu)
          BY <3>1 DEF LoggedInv, Logged
        <5> QED
          BY <1>2, <5>1 DEF m
      <4>2. \A i \in 1 .. Len(log) : Logged(pdu', log[i])
        BY <2>9, <3>1, <4>1 DEF LoggedInv, Logged
      <4>3. \A i \in 1 .. Len(log) : \A d \in Cpus : log[i].seq \notin Heads(Held(d))'
        BY <2>8, <3>1, <4>1 DEF LoggedInv
      <4> QED
        BY <1>1, <2>12, <3>1, <4>2, <4>3 DEF LoggedInv
    <3>4. PresentInv'
      <4>1. ASSUME NEW x, Present(x) PROVE Present(x)'
        BY <1>1, <2>8, <2>12, <4>1 DEF Present
      <4>2. ASSUME NEW x, x = m PROVE Present(x)'
        BY <2>8, <4>2 DEF Present
      <4>3. ASSUME NEW x \in Message' PROVE Present(x)'
        <5>1. x \in Message \/ x = m
          BY <2>10 DEF Message
        <5> QED
          BY <3>1, <4>1, <4>2, <5>1 DEF PresentInv
      <4> QED
        BY <4>3 DEF PresentInv
    <3> QED
      BY <3>3, <3>4
  <2> QED
    BY <1>3, <2>5, <2>11, <2>13, <2>14 DEF LossInv
<1> HIDE DEF r, st, j
<1> QED
  BY <1>1, <1>4, <1>5

(* There is nothing to lose at first.                                       *)
LEMMA InitLoss ==
    ASSUME Init
    PROVE  LossInv
<1>1. /\ rb = [c \in Cpus |-> EmptyBuf] /\ thr = [c \in Cpus |-> NewReader]
      /\ pdu = <<>> /\ log = <<>> /\ failures = 0 /\ resync = FALSE /\ misread = FALSE
  BY DEF Init
<1>2. /\ NewReader.pc = "poll" /\ NewReader.hdr.seq = 0
  BY DEF NewReader, NoHdr
<1>3. \A c \in Cpus : Busy(thr[c]) /\ Owed(thr[c]) = 0 /\ \A h : Handed(pdu, thr[c], h)
  BY <1>1, <1>2 DEF Busy, Idle, Owed, Handed
<1>4. \A c \in Cpus : Held(c) = <<>>
  <2>1. \A c \in Cpus : rb[c].subs = <<>> /\ rb[c].cur = <<>>
    BY <1>1 DEF EmptyBuf
  <2>2. <<>> \o <<>> = <<>>
    OBVIOUS
  <2> QED
    BY <2>1, <2>2, AvailNone DEF Held
<1>5. Framed(pdu, <<>>, 0)
  BY DEF Framed
<1>6. Message = {} /\ Len(log) = 0
  BY <1>1 DEF Message
<1>7. FrameInv
  BY <1>3, <1>4, <1>5 DEF FrameInv
<1>8. LoggedInv /\ PresentInv
  BY <1>6 DEF LoggedInv, PresentInv
<1> QED
  BY <1>1, <1>3, <1>6, <1>7, <1>8 DEF LossInv

(* Every step keeps the messages together.                                  *)
LEMMA NextLoss ==
    ASSUME OrderInv, HandlerInv, LossInv, [Next]_vars
    PROVE  LossInv'
<1>1. ASSUME NEW c \in Cpus, Reader(c) PROVE LossInv'
  BY <1>1, PpollLoss, HeaderLoss, DrainLoss, BodyLoss, WaitLoss, SwitchLoss, WriteLoss, FailLoss,
     UpdateLoss, Zenon
     DEF Reader
<1>2. ASSUME NEW c \in Cpus, NEW len \in 1 .. MaxBody, __stp_print_flush(c, len)
      PROVE  LossInv'
  BY <1>2, FlushLoss
<1>3. ASSUME wakeup_timer \/ sigusr2 \/ main_signalled \/ close_relayfs PROVE LossInv'
  BY <1>3, OtherLoss
<1>4. ASSUME NEW t \in Threads, switchfile_handler(t) PROVE LossInv'
  BY <1>4, HandlerLoss
<1> QED
  BY <1>1, <1>2, <1>3, <1>4, StopLoss, StutterLoss, Zenon DEF Next

(* As long as no failure was counted the frames in every relay buffer are whole,
   also after a draining read; as long as no data were thrown away either, every
   message is in exactly one place.                                         *)
THEOREM FramesKept == Spec => []LossInv
<1>1. Init => LossInv
  BY InitLoss
<1>2. OrderInv /\ HandlerInv /\ LossInv /\ [Next]_vars => LossInv'
  BY NextLoss
<1> QED
  BY <1>1, <1>2, HandlersReturn, PTL DEF Spec

(* A reader takes text or junk for a header only after a transport failure was
   counted, for any number of cpus and messages and any number and size of
   sub-buffers: every read of a header starts at a frame, also the one after a
   draining read, as long as the kernel found room for every message.       *)
THEOREM HeadersFound == Spec => []FramingKept
<1>1. LossInv => FramingKept
  BY DEF LossInv, FramingKept
<1> QED
  BY <1>1, FramesKept, PTL

OrderUntilCounted == ~ late /\ failures = 0 => InSequence

(* So the output of all readers is in the order of the sequence numbers until a
   reader gives up waiting or the kernel has counted a transport failure: a false
   header (relay.c, "we might be getting not a proper _stp_trace struct") cannot
   come before that.                                                         *)
THEOREM OrderedOutput == Spec => []OrderUntilCounted
<1>1. FramingKept /\ OrderKept /\ LossInv => OrderUntilCounted
  BY DEF FramingKept, OrderKept, LossInv, OrderUntilCounted
<1> QED
  BY <1>1, HeadersFound, OutputInOrder, FramesKept, PTL

(* A header in a buffer has its text behind it.                             *)
LEMMA LiesWhole ==
    ASSUME OrderInv, FrameInv, NEW s \in Message, NEW c \in Cpus, s \in Heads(Held(c))
    PROVE  InRelay(s)
<1> DEFINE h == Held(c)
           n == pdu[s]
<1>1. /\ h \in Seq(Piece) /\ Len(h) \in Nat /\ Sized(pdu, h)
  BY SizedBuffers
<1>2. PICK i \in 1 .. Len(h) : h[i].at = 0 /\ h[i].m = s
  BY DEF Heads
<1>3. n \in Nat /\ WholeAt(pdu, h, i)
  <2>1. Framed(pdu, h, Owed(thr[c]))
    BY DEF FrameInv
  <2> HIDE DEF h
  <2> QED
    BY <1>1, <1>2, <2>1 DEF Framed, Sized
<1>4. s \in Nat
  BY DEF Message
<1>5. i + n <= Len(h) /\ \A j \in 0 .. n : h[i + j].m = s /\ h[i + j].at = j
  BY <1>2, <1>3 DEF WholeAt
<1> DEFINE x == SubSeq(h, i, i + n)
           y == Units(s, 0, n)
<1>6. x \in Seq(Piece) /\ Len(x) = n + 1 /\ \A j \in 1 .. n + 1 : x[j] = h[i + j - 1]
  <2> DEFINE k == n + 1
  <2>1. i \in Nat /\ i > 0 /\ k \in Nat /\ i + k <= Len(h) + 1 /\ i + k - 1 = i + n
    <3> HIDE DEF h, n
    <3> QED
      BY <1>1, <1>2, <1>3, <1>5
  <2> HIDE DEF h, k, n
  <2>2. /\ SubSeq(h, i, i + k - 1) \in Seq(Piece) /\ Len(SubSeq(h, i, i + k - 1)) = k
        /\ \A j \in 1 .. k : SubSeq(h, i, i + k - 1)[j] = h[i + j - 1]
    BY <1>1, <2>1, PartIs
  <2> QED
    BY <2>1, <2>2 DEF k
<1>7. y \in Seq(Piece) /\ Len(y) = n + 1 /\ \A j \in 1 .. n + 1 : y[j].m = s /\ y[j].at = j - 1
  <2> DEFINE z == 0
  <2>1. z \in Nat /\ n \in Int /\ n >= z - 1
    BY <1>3
  <2> HIDE DEF z, n
  <2>2. /\ Units(s, z, n) \in Seq(Piece) /\ Len(Units(s, z, n)) = n - z + 1
        /\ \A j \in 1 .. Len(Units(s, z, n)) :
             Units(s, z, n)[j].m = s /\ Units(s, z, n)[j].at = z + j - 1
    BY <1>4, <2>1, UnitsAre, Zenon
  <2>3. /\ y \in Seq(Piece) /\ Len(y) = n - 0 + 1
        /\ \A j \in 1 .. Len(y) : y[j].m = s /\ y[j].at = 0 + j - 1
    BY <2>2, Zenon DEF z
  <2> HIDE DEF y
  <2> QED
    BY <2>1, <2>3
<1>8. x = y
  <2> HIDE DEF x, y, h, n
  <2>1. ASSUME NEW j \in 1 .. n + 1 PROVE x[j].m = y[j].m /\ x[j].at = y[j].at
    <3>1. j - 1 \in 0 .. n /\ i + j - 1 = i + (j - 1)
      BY <1>3
    <3> QED
      BY <1>5, <1>6, <1>7, <3>1
  <2> QED
    BY <1>6, <1>7, <2>1, SameUnits
<1>9. i \in 1 .. Len(h) - n
  <2> HIDE DEF h, n
  <2> QED
    BY <1>1, <1>2, <1>3, <1>5
<1> QED
  BY <1>8, <1>9 DEF InRelay

(* A reader that has the header has the message.                            *)
LEMMA HasWhole ==
    ASSUME OrderInv, ~ misread, FrameInv, NEW s \in Message, NEW c \in Cpus, Seqno(c) = s
    PROVE  InHand(s)
<1> DEFINE h == Held(c)
           t == thr[c]
           k == pdu[s]
           n == Len(t.got)
<1>1. /\ h \in Seq(Piece) /\ Len(h) \in Nat /\ pdu \in Seq(Nat)
  BY SizedBuffers
<1>2. t \in ReaderState /\ s \in Nat /\ s # 0 /\ k \in Nat /\ t.hdr.seq = s
  BY <1>1, Shapes DEF Message, Seqno
<1>3. Framed(pdu, h, Owed(t)) /\ Handed(pdu, t, h)
  BY DEF FrameInv
<1>4. t.hdr.len = k
  BY <1>2, <1>3 DEF Handed
<1>5. t.hdr = [seq |-> s, len |-> k]
  <2>1. t.hdr \in [seq : Nat, len : Nat]
    BY <1>2 DEF ReaderState
  <2>2. \A z \in [seq : Nat, len : Nat] : z = [seq |-> z.seq, len |-> z.len]
    OBVIOUS
  <2>3. t.hdr = [seq |-> t.hdr.seq, len |-> t.hdr.len]
    BY <2>1, <2>2, Zenon
  <2> QED
    BY <1>2, <1>4, <2>3, Zenon
<1>6. \A a \in Nat : Units(s, 1, a) \in Seq(Piece) /\ Len(Units(s, 1, a)) = a
  <2>1. ASSUME NEW a \in Nat PROVE Units(s, 1, a) \in Seq(Piece) /\ Len(Units(s, 1, a)) = a
    <3> DEFINE one == 1
               y == Units(s, 1, a)
    <3>1. one \in Nat /\ a \in Int /\ a >= one - 1 /\ s \in Nat
      BY <1>2
    <3> HIDE DEF one
    <3>2. Units(s, one, a) \in Seq(Piece) /\ Len(Units(s, one, a)) = a - one + 1
      BY <3>1, UnitsAre, Zenon
    <3>3. y \in Seq(Piece) /\ Len(y) = a - 1 + 1
      BY <3>2, Zenon DEF one
    <3> HIDE DEF y
    <3>4. y \in Seq(Piece) /\ Len(y) = a
      BY <3>3
    <3> QED
      BY <3>4 DEF y
  <2> QED
    BY <2>1
<1>7. CASE t.pc = "body"
  <2>1. t.got = <<>> /\ \A j \in 1 .. k : h[j].m = s /\ h[j].at = j
    BY <1>2, <1>3, <1>4, <1>7 DEF Handed
  <2>2. n = 0
    BY <2>1
  <2>3. Units(s, 1, 0) = <<>>
    <3> DEFINE y == Units(s, 1, 0)
    <3>1. y \in Seq(Piece) /\ Len(y) = 0
      BY <1>6
    <3> HIDE DEF y
    <3>2. y = <<>>
      BY <3>1
    <3> QED
      BY <3>2 DEF y
  <2>4. k <= Len(h)
    <3>1. Framed(pdu, h, k)
      BY <1>3, <1>4, <1>7 DEF Owed
    <3> QED
      BY <3>1 DEF Framed
  <2>5. SubSeq(h, 1, k) = Units(s, 1, k)
    <3> HIDE DEF h, k
    <3> QED
      BY <1>1, <1>2, <2>1, <2>4, TextIs
  <2>6. k - n = k /\ n + 1 = 1
    <3> HIDE DEF k, n
    <3> QED
      BY <1>2, <2>2
  <2>7. t.got = Units(s, 1, n)
    BY <2>1, <2>2, <2>3, Zenon
  <2>8. SubSeq(h, 1, k - n) = Units(s, n + 1, k)
    BY <2>5, <2>6, Zenon
  <2> QED
    BY <1>5, <1>7, <2>7, <2>8 DEF InHand, At
<1>8. CASE t.pc # "body"
  <2>1. t.got = Units(s, 1, k) /\ t.rc = k
    BY <1>2, <1>3, <1>4, <1>8 DEF Handed
  <2>2. n = k
    BY <1>2, <1>6, <2>1
  <2>3. t.got = Units(s, 1, n) /\ t.rc = n
    BY <2>1, <2>2, Zenon
  <2> QED
    BY <1>5, <1>8, <2>2, <2>3 DEF InHand, At
<1> QED
  BY <1>7, <1>8

(* As long as no transport failure was counted and no draining read threw data
   away, every message that was flushed is whole in its relay buffer, in the
   hands of a reader, or exactly once in the output: for any number of cpus and
   messages, and any number and size of sub-buffers.                        *)
THEOREM NothingLost == Spec => []NoSilentLoss
<1>1. ASSUME OrderInv, LossInv PROVE NoSilentLoss
  <2>1. ASSUME Clean, NEW s \in Message PROVE InRelay(s) \/ InHand(s) \/ Written(s)
    <3>1. ~ misread /\ FrameInv /\ LoggedInv /\ Present(s)
      BY <1>1, <2>1 DEF LossInv, PresentInv, Clean
    <3>2. CASE \E c \in Cpus : s \in Heads(Held(c))
      BY <1>1, <3>1, <3>2, LiesWhole
    <3>3. CASE \E c \in Cpus : Seqno(c) = s /\ ~ At(c, "update")
      BY <1>1, <3>1, <3>3, HasWhole
    <3>4. CASE \E i \in 1 .. Len(log) : log[i].seq = s
      <4>1. PICK i \in 1 .. Len(log) : log[i].seq = s
        BY <3>4
      <4> DEFINE at == {k \in 1 .. Len(log) : log[k].seq = s}
      <4>2. at = {i}
        BY <3>1, <4>1 DEF LoggedInv
      <4>3. Cardinality(at) = 1
        BY <4>2, FS_Singleton
      <4>4. log[i].text = Units(s, 1, pdu[s])
        BY <3>1, <4>1 DEF LoggedInv, Logged
      <4> QED
        BY <4>2, <4>3, <4>4 DEF Written
    <3> QED
      BY <3>1, <3>2, <3>3, <3>4 DEF Present
  <2> QED
    BY <2>1 DEF NoSilentLoss, Clean
<1> QED
  BY <1>1, TurnsTaken, FramesKept, PTL

-----------------------------------------------------------------------------
(* The bounds of a relay buffer.                                            *)

(* A sub-buffer is never filled beyond its size, there are never more than
   NSubbufs of them, and as long as the buffer is not full there is one left
   for the data that come.                                                  *)
Subbuf == {x \in Seq(Unit) : Len(x) <= SubbufSize}
Bounded(b) ==
  /\ b \in Buffers /\ b.subs \in Seq(Subbuf) /\ b.cur \in Subbuf
  /\ Len(b.subs) <= NSubbufs
  /\ ~ b.full => Len(b.subs) < NSubbufs

(* Completing a sub-buffer keeps the bounds.                                *)
LEMMA SwitchBounded ==
    ASSUME NEW b, Bounded(b)
    PROVE  Bounded(switch_subbuf(b)) /\ switch_subbuf(b).cur = <<>>
<1> DEFINE q == b.subs
           x == b.cur
           done == IF b.full THEN q ELSE Append(q, x)
           t == switch_subbuf(b)
<1>1. /\ b \in Buffers /\ q \in Seq(Subbuf) /\ x \in Subbuf /\ b.full \in BOOLEAN
      /\ Len(q) <= NSubbufs /\ (~ b.full => Len(q) < NSubbufs) /\ NSubbufs \in Nat
      /\ SubbufSize \in Nat
  BY RelayAssumption, FlatType DEF Bounded
<1>2. t = [subs |-> done, cur |-> <<>>, full |-> Len(done) >= NSubbufs]
  BY DEF switch_subbuf
<1>3. t \in Buffers
  BY <1>1, SwitchFlat
<1> HIDE DEF q, x, t
<1>4. done \in Seq(Subbuf) /\ Len(done) <= NSubbufs /\ Len(done) \in Nat
  BY <1>1
<1> HIDE DEF done
<1>5. <<>> \in Subbuf
  BY <1>1 DEF Subbuf
<1>6. t.subs = done /\ t.cur = <<>> /\ t.full = (Len(done) >= NSubbufs)
  BY <1>2
<1>7. ~ t.full => Len(done) < NSubbufs
  <2>1. ~ t.full => ~(Len(done) >= NSubbufs)
    BY <1>6, Zenon
  <2>2. ~(Len(done) >= NSubbufs) => Len(done) < NSubbufs
    BY <1>1, <1>4
  <2> QED
    BY <2>1, <2>2, Zenon
<1>8. Bounded(t)
  BY <1>3, <1>4, <1>5, <1>6, <1>7 DEF Bounded
<1> QED
  BY <1>6, <1>8 DEF t

(* So does a step that takes units off the front.                           *)
LEMMA DropBounded ==
    ASSUME NEW s \in DropState(Unit), NEW sub \in Subbuf, s.subs \in Seq(Subbuf)
    PROVE  LET t == DropStep(s, sub)
           IN  t.subs \in Seq(Subbuf) /\ Len(t.subs) <= Len(s.subs) + 1
<1>1. /\ s.left \in Nat /\ sub \in Seq(Unit) /\ Len(sub) \in Nat /\ Len(sub) <= SubbufSize
      /\ SubbufSize \in Nat /\ Len(s.subs) \in Nat
  BY RelayAssumption DEF DropState, Subbuf
<1>2. CASE s.left >= Len(sub)
  <2>1. DropStep(s, sub).subs = s.subs
    BY <1>2 DEF DropStep
  <2> QED
    BY <1>1, <2>1
<1>3. CASE s.left < Len(sub)
  <2> DEFINE k == SubSeq(sub, s.left + 1, Len(sub))
             z == s.subs
  <2>1. s.left \in 0 .. Len(sub)
    BY <1>1, <1>3
  <2>2. k \in Seq(Unit) /\ Rest(k, sub, s.left)
    BY <1>1, <2>1, RestIs
  <2>3. DropStep(s, sub) = [left |-> 0, subs |-> Append(z, k)]
    BY <1>1, <1>3 DEF DropStep
  <2> HIDE DEF k
  <2>4. k \in Subbuf
    <3>1. Len(k) = Len(sub) - s.left
      BY <2>2 DEF Rest
    <3>2. Len(k) <= SubbufSize
      BY <1>1, <3>1
    <3> QED
      BY <2>2, <3>2 DEF Subbuf
  <2>5. z \in Seq(Subbuf)
    OBVIOUS
  <2> HIDE DEF z
  <2>6. Append(z, k) \in Seq(Subbuf) /\ Len(Append(z, k)) = Len(z) + 1
    BY <2>4, <2>5
  <2>7. DropStep(s, sub).subs = Append(z, k)
    BY <2>3
  <2> QED
    BY <1>1, <2>6, <2>7 DEF z
<1> QED
  BY <1>1, <1>2, <1>3

(* What read(2) leaves in a buffer is within the bounds.                    *)
LEMMA ReadBounded ==
    ASSUME NEW b, Bounded(b), NEW n \in 0 .. Len(Flat(b))
    PROVE  Bounded(Consume(SwitchOut(b), n))
<1> DEFINE o == SwitchOut(b)
           q == o.subs
           N == Len(q)
           t == Consume(o, n)
<1>1. b \in Buffers /\ b.full \in BOOLEAN
  BY FlatType DEF Bounded
<1>2. Bounded(o) /\ t \in Buffers /\ n \in Nat
  <2>1. Bounded(o)
    BY SwitchBounded DEF SwitchOut
  <2>2. t \in Buffers
    BY <1>1, ReadRest
  <2> QED
    BY <2>1, <2>2
<1> HIDE DEF o
<1>3. /\ q \in Seq(Subbuf) /\ N \in Nat /\ N <= NSubbufs /\ (~ o.full => N < NSubbufs)
      /\ o.cur \in Subbuf /\ o \in Buffer /\ NSubbufs \in Nat
  BY <1>2, RelayAssumption DEF Bounded, Buffers
<1>4. q \in Seq(Seq(Unit)) /\ \A i \in 1 .. N : q[i] \in Subbuf
  <2>1. Subbuf \subseteq Seq(Unit)
    BY DEF Subbuf
  <2> HIDE DEF q
  <2> QED
    BY <1>3, <2>1
<1>5. PICK f : Drops(f, o, n, Unit)
  BY <1>2, <1>4, ConsumeSteps
<1>6. /\ f \in [0 .. N -> DropState(Unit)] /\ t = [o EXCEPT !.subs = f[N].subs]
      /\ f[0] = [left |-> n, subs |-> <<>>]
      /\ \A i \in 1 .. N : f[i] = DropStep(f[i - 1], q[i])
  BY <1>5 DEF Drops
<1> HIDE DEF q, N, t
<1> DEFINE T == {i \in 0 .. N : f[i].subs \in Seq(Subbuf) /\ Len(f[i].subs) <= i}
<1>7. 0 \in T
  <2>1. f[0].subs = <<>> /\ 0 \in 0 .. N
    BY <1>3, <1>6
  <2>2. <<>> \in Seq(Subbuf) /\ Len(<<>>) <= 0
    OBVIOUS
  <2> QED
    BY <2>1, <2>2
<1>8. ASSUME NEW i \in T, i < N PROVE i + 1 \in T
  <2>1. i + 1 \in 0 .. N /\ i + 1 \in 1 .. N /\ (i + 1) - 1 = i /\ i \in 0 .. N
    BY <1>3, <1>8
  <2>2. f[i + 1] = DropStep(f[i], q[i + 1]) /\ f[i] \in DropState(Unit) /\ q[i + 1] \in Subbuf
    BY <1>4, <1>6, <2>1
  <2>3. f[i].subs \in Seq(Subbuf) /\ Len(f[i].subs) <= i /\ Len(f[i].subs) \in Nat
    OBVIOUS
  <2>4. f[i + 1].subs \in Seq(Subbuf) /\ Len(f[i + 1].subs) <= Len(f[i].subs) + 1
    BY <2>2, <2>3, DropBounded
  <2>5. Len(f[i + 1].subs) <= i + 1
    <3>1. Len(f[i + 1].subs) \in Nat
      BY <2>4
    <3> QED
      BY <2>1, <2>3, <2>4, <3>1
  <2> QED
    BY <2>1, <2>4, <2>5
<1> HIDE DEF T
<1>9. \A i \in 0 .. N : i \in T
  BY <1>3, <1>7, <1>8, UpTo
<1>10. f[N].subs \in Seq(Subbuf) /\ Len(f[N].subs) <= N
  <2>1. N \in T
    BY <1>3, <1>9
  <2> QED
    BY <2>1 DEF T
<1>11. t.subs = f[N].subs /\ t.cur = o.cur /\ t.full = o.full
  BY <1>3, <1>6 DEF Buffer
<1>12. t.subs \in Seq(Subbuf) /\ Len(t.subs) <= NSubbufs /\ (~ t.full => Len(t.subs) < NSubbufs)
  <2>1. Len(f[N].subs) \in Nat
    BY <1>10
  <2> QED
    BY <1>3, <1>10, <1>11, <2>1
<1>13. Bounded(t)
  BY <1>2, <1>3, <1>11, <1>12 DEF Bounded, t
<1> QED
  BY <1>13 DEF t, o

(* A reservation stays within the sub-buffer it is made in.                 *)
LEMMA ReserveBounded ==
    ASSUME NEW b, Bounded(b), NEW n \in Nat
    PROVE  LET r == write_reserve(b, n)
           IN  Bounded(r.buf) /\ Len(r.buf.cur) + r.k <= SubbufSize
<1> DEFINE r == write_reserve(b, n)
           sw == switch_subbuf(b)
<1>1. /\ SubbufSize \in Nat /\ b \in Buffers /\ b.full \in BOOLEAN
      /\ Len(b.cur) \in Nat /\ Len(b.cur) <= SubbufSize
  <2>1. b \in Buffers /\ b.full \in BOOLEAN /\ b.cur \in Seq(Piece)
    BY FlatType DEF Bounded
  <2> QED
    BY <2>1, RelayAssumption DEF Bounded, Subbuf
<1>2. Bounded(sw) /\ sw.cur = <<>>
  BY SwitchBounded
<1>3. sw.full \in BOOLEAN
  BY <1>2, FlatType DEF Bounded
<1>4. CASE b.full \/ Len(b.cur) >= SubbufSize
  <2> HIDE DEF sw
  <2>1. r.buf = sw /\ r.k = IF sw.full THEN 0 ELSE IF n > SubbufSize THEN SubbufSize ELSE n
    BY <1>4 DEF write_reserve, sw
  <2> HIDE DEF r
  <2>2. r.k \in Nat /\ r.k <= SubbufSize
    BY <1>1, <1>3, <2>1
  <2>3. Len(r.buf.cur) = 0
    BY <1>2, <2>1
  <2>4. Bounded(r.buf)
    BY <1>2, <2>1
  <2>5. Len(r.buf.cur) + r.k <= SubbufSize
    BY <2>2, <2>3
  <2> QED
    BY <2>4, <2>5 DEF r
<1>5. CASE ~(b.full \/ Len(b.cur) >= SubbufSize)
  <2>1. r.buf = b /\ r.k = IF Len(b.cur) + n > SubbufSize THEN SubbufSize - Len(b.cur) ELSE n
    BY <1>5 DEF write_reserve
  <2> HIDE DEF r
  <2>2. Len(b.cur) + r.k <= SubbufSize
    BY <1>1, <2>1
  <2> QED
    BY <2>1, <2>2 DEF r
<1> QED
  BY <1>4, <1>5

(* What is reserved may be filled.                                          *)
LEMMA FillBounded ==
    ASSUME NEW b, Bounded(b), NEW y \in Seq(Unit), ~ b.full \/ y = <<>>,
           Len(b.cur) + Len(y) <= SubbufSize
    PROVE  Bounded(Fill(b, y))
<1> DEFINE t == Fill(b, y)
           x == b.cur
<1>1. b \in Buffers /\ b \in Buffer /\ x \in Seq(Unit)
  BY DEF Bounded, Buffers, Subbuf
<1>2. Unit \subseteq Piece
  BY RelayAssumption DEF Unit, Piece
<1>3. y \in Seq(Piece)
  BY <1>2
<1>4. t \in Buffers
  BY <1>1, <1>3, FillFlat
<1>5. t.subs = b.subs /\ t.cur = x \o y /\ t.full = b.full
  BY <1>1 DEF Fill, Buffer
<1>6. x \o y \in Subbuf
  <2>1. Len(x) + Len(y) <= SubbufSize
    OBVIOUS
  <2> HIDE DEF x
  <2> QED
    BY <1>1, <2>1 DEF Subbuf
<1> HIDE DEF t
<1> QED
  BY <1>4, <1>5, <1>6 DEF Bounded, t

(* The pieces of a message are units.                                       *)
LEMMA UnitsBounded ==
    ASSUME NEW m \in 0 .. MaxInputs, NEW from \in Nat, NEW to \in Int, to >= from - 1,
           to <= MaxBody
    PROVE  Units(m, from, to) \in Seq(Unit) /\ Len(Units(m, from, to)) = to - from + 1
<1> DEFINE n == to - from + 1
           x == Units(m, from, to)
<1>1. n \in Nat /\ MaxBody \in Nat /\ n + from <= MaxBody + 1
  BY RelayAssumption
<1>2. x = [j \in 1 .. n |-> IF from + j - 1 = 0 THEN Header(m) ELSE Text(m, from + j - 1)]
  BY DEF Units
<1> HIDE DEF n, x
<1>3. ASSUME NEW j \in 1 .. n PROVE x[j] \in Unit
  <2>1. from + j - 1 \in 0 .. MaxBody
    BY <1>1
  <2>2. x[j] = IF from + j - 1 = 0 THEN Header(m) ELSE Text(m, from + j - 1)
    BY <1>2
  <2>3. x[j] = [m |-> m, at |-> from + j - 1]
    BY <2>1, <2>2 DEF Header, Text
  <2> QED
    BY <2>1, <2>3 DEF Unit
<1>4. x \in Seq(Unit) /\ Len(x) = n
  <2>1. x \in [1 .. n -> Unit]
    BY <1>2, <1>3
  <2> QED
    BY <1>1, <2>1
<1> QED
  BY <1>4 DEF n, x

(* A round of the copying loop stays within the bounds.                     *)
LEMMA CopyStepBounded ==
    ASSUME NEW s, NEW g \in Seq(Piece), NEW m \in 0 .. MaxInputs, NEW len \in 0 .. MaxBody,
           NEW n \in Nat, Copied(s, g, m, len, n), Bounded(s.buf)
    PROVE  Bounded(CopyStep(s, m, len).buf)
<1> DEFINE t == CopyStep(s, m, len)
           b == s.buf
           r == write_reserve(b, len - s.next + 1)
<1>1. /\ b \in Buffers /\ s.next \in Nat \ {0} /\ s.failed \in BOOLEAN /\ s.next <= len + 1
      /\ len \in Nat /\ MaxBody \in Nat /\ len <= MaxBody
  BY RelayAssumption DEF CopyState, Copied
<1>2. CASE s.failed \/ s.next > len
  <2>1. t = s
    BY <1>2 DEF CopyStep
  <2> QED
    BY <2>1
<1>3. ASSUME ~(s.failed \/ s.next > len) PROVE Bounded(t.buf)
  <2>1. len - s.next + 1 \in Nat
    BY <1>1, <1>3
  <2>2. /\ r.k \in 0 .. (len - s.next + 1) /\ (r.k > 0 => ~ r.buf.full)
        /\ Bounded(r.buf) /\ Len(r.buf.cur) + r.k <= SubbufSize
    BY <1>1, <2>1, ReserveFlat, ReserveBounded
  <2>3. t = IF r.k = 0 THEN [buf |-> r.buf, next |-> s.next, failed |-> TRUE]
            ELSE [buf |-> Fill(r.buf, Units(m, s.next, s.next + r.k - 1)),
                  next |-> s.next + r.k, failed |-> FALSE]
    BY <1>3 DEF CopyStep
  <2> HIDE DEF r, t, b
  <2>4. CASE r.k = 0
    <3>1. t.buf = r.buf
      BY <2>3, <2>4
    <3> QED
      BY <2>2, <3>1
  <2>5. CASE r.k # 0
    <3> DEFINE from == s.next
               to == s.next + r.k - 1
               x == Units(m, from, to)
    <3>1. /\ r.k \in Nat /\ r.k > 0 /\ ~ r.buf.full
          /\ from \in Nat /\ to \in Int /\ to >= from - 1 /\ to - from + 1 = r.k /\ to <= MaxBody
      <4>1. r.k \in Nat /\ r.k > 0 /\ r.k <= len - s.next + 1
        BY <2>1, <2>2, <2>5
      <4>2. ~ r.buf.full
        BY <2>2, <4>1
      <4>3. to \in Int /\ to >= from - 1 /\ to - from + 1 = r.k /\ to <= MaxBody
        <5> DEFINE p == s.next
                   a == r.k
        <5>1. p \in Nat /\ a \in Nat /\ a > 0 /\ a <= len - p + 1
          BY <1>1, <4>1
        <5> HIDE DEF p, a
        <5>2. /\ p + a - 1 \in Int /\ p + a - 1 >= p - 1 /\ (p + a - 1) - p + 1 = a
              /\ p + a - 1 <= MaxBody
          BY <1>1, <5>1
        <5> QED
          BY <5>2 DEF p, a
      <4> QED
        BY <1>1, <4>1, <4>2, <4>3
    <3>2. t.buf = Fill(r.buf, x)
      BY <2>3, <2>5
    <3> HIDE DEF from, to
    <3>3. x \in Seq(Unit) /\ Len(x) = to - from + 1
      BY <3>1, UnitsBounded
    <3> HIDE DEF x
    <3>4. Len(r.buf.cur) + Len(x) <= SubbufSize
      BY <2>2, <3>1, <3>3
    <3> QED
      BY <2>2, <3>1, <3>2, <3>3, <3>4, FillBounded
  <2> QED
    BY <2>4, <2>5
<1> QED
  BY <1>2, <1>3

(* So does the loop.                                                        *)
LEMMA CopyRestBounded ==
    ASSUME NEW st, NEW g \in Seq(Piece), NEW m \in 0 .. MaxInputs, NEW len \in 0 .. MaxBody,
           Copied(st, g, m, len, 1), Bounded(st.buf)
    PROVE  Bounded(CopyRest(st, m, len).buf)
<1>1. st \in CopyState /\ m \in Nat /\ len \in Nat
  BY RelayAssumption DEF Copied
<1>2. PICK f : Copies(f, st, m, len)
  BY <1>1, CopySteps
<1> DEFINE T == {i \in 0 .. len : Copied(f[i], g, m, len, i + 1) /\ Bounded(f[i].buf)}
<1>3. 0 \in T
  <2>1. f[0] = st /\ 0 \in 0 .. len /\ 0 + 1 = 1
    BY <1>1, <1>2 DEF Copies
  <2> QED
    BY <2>1
<1>4. ASSUME NEW i \in T, i < len PROVE i + 1 \in T
  <2>1. i + 1 \in 0 .. len /\ i + 1 \in 1 .. len /\ (i + 1) - 1 = i /\ i + 1 \in Nat
    BY <1>1, <1>4
  <2>2. f[i + 1] = CopyStep(f[i], m, len)
    BY <1>2, <2>1 DEF Copies
  <2>3. Copied(f[i], g, m, len, i + 1) /\ Bounded(f[i].buf)
    OBVIOUS
  <2>4. Copied(f[i + 1], g, m, len, (i + 1) + 1)
    BY <1>1, <2>1, <2>2, <2>3, CopyStepGrows
  <2>5. Bounded(f[i + 1].buf)
    BY <2>1, <2>2, <2>3, CopyStepBounded
  <2> QED
    BY <2>1, <2>4, <2>5
<1> HIDE DEF T
<1>5. \A i \in 0 .. len : i \in T
  BY <1>1, <1>3, <1>4, UpTo
<1>6. len \in T
  BY <1>1, <1>5
<1> QED
  BY <1>2, <1>6 DEF T, Copies

(* So do both kinds of flush.                                               *)
LEMMA FlushBounded ==
    ASSUME NEW b, Bounded(b), NEW m \in 0 .. MaxInputs, NEW len \in 0 .. MaxBody
    PROVE  LET r == write_reserve(b, 1 + len)
               st == CopyRest([buf |-> Fill(r.buf, Units(m, 0, r.k - 1)),
                               next |-> r.k, failed |-> FALSE], m, len)
           IN  /\ r.k > 1 => Bounded(st.buf)
               /\ r.k <= 1 => Bounded(Fill(r.buf, [j \in 1 .. r.k |-> Junk]))
<1> DEFINE r == write_reserve(b, 1 + len)
           x == Units(m, 0, r.k - 1)
           f == Fill(r.buf, x)
           s == [buf |-> f, next |-> r.k, failed |-> FALSE]
           st == CopyRest(s, m, len)
           y == [j \in 1 .. r.k |-> Junk]
           g == Flat(b)
<1>1. b \in Buffers /\ m \in Nat /\ len \in Nat /\ len <= MaxBody /\ MaxBody \in Nat \ {0}
  BY RelayAssumption DEF Bounded
<1>2. /\ r.buf \in Buffers /\ Flat(r.buf) = g /\ r.k \in 0 .. 1 + len
      /\ (r.k > 0 => ~ r.buf.full) /\ Bounded(r.buf) /\ Len(r.buf.cur) + r.k <= SubbufSize
  <2>1. 1 + len \in Nat
    BY <1>1
  <2> QED
    BY <1>1, <2>1, ReserveFlat, ReserveBounded
<1> HIDE DEF r
<1>3. r.k \in Nat
  BY <1>1, <1>2
<1>4. ASSUME r.k > 1 PROVE Bounded(st.buf)
  <2>1. x \in Seq(Unit) /\ Len(x) = r.k /\ \A j \in 1 .. Len(x) : x[j].m = m /\ x[j].at = 0 + j - 1
    <3> DEFINE to == r.k - 1
               z == 0
    <3>1. to \in Int /\ z \in Nat /\ to >= z - 1 /\ to <= MaxBody
      BY <1>1, <1>2, <1>3, <1>4
    <3> HIDE DEF to, z
    <3>2. /\ Len(Units(m, z, to)) = to - z + 1
          /\ \A j \in 1 .. Len(Units(m, z, to)) :
               /\ Units(m, z, to)[j].m = m
               /\ Units(m, z, to)[j].at = z + j - 1
      BY <1>1, <3>1, UnitsAre, Zenon
    <3>3. Units(m, z, to) \in Seq(Unit)
      BY <3>1, UnitsBounded
    <3>4. /\ x \in Seq(Unit) /\ Len(x) = (r.k - 1) - 0 + 1
          /\ \A j \in 1 .. Len(x) : x[j].m = m /\ x[j].at = 0 + j - 1
      BY <3>2, <3>3, Zenon DEF to, z
    <3> HIDE DEF x
    <3> QED
      BY <1>3, <3>4
  <2> HIDE DEF x
  <2>2. x \in Seq(Piece) /\ ~ r.buf.full
    <3>1. Unit \subseteq Piece
      BY RelayAssumption DEF Unit, Piece
    <3> QED
      BY <1>2, <1>3, <1>4, <2>1, <3>1
  <2>3. f \in Buffers /\ Joins(Flat(f), g, x) /\ Bounded(f)
    BY <1>2, <2>1, <2>2, FillFlat, FillBounded
  <2> HIDE DEF f
  <2>4. g \in Seq(Piece) /\ Len(g) \in Nat
    <3>1. g \in Seq(Piece)
      BY <1>1, FlatType
    <3> HIDE DEF g
    <3> QED
      BY <3>1
  <2> HIDE DEF g
  <2>5. Grown(g, g, m, 0)
    BY <2>4 DEF Grown
  <2>6. Grown(Flat(f), g, m, r.k)
    <3>1. Grown(Flat(f), g, m, 0 + Len(x))
      BY <1>3, <2>1, <2>3, <2>4, <2>5, GrowsOn
    <3> QED
      BY <1>3, <2>1, <3>1
  <2>7. s \in CopyState /\ s.buf = f /\ s.next = r.k /\ ~ s.failed
    BY <1>3, <1>4, <2>3 DEF CopyState
  <2> HIDE DEF s
  <2>8. Copied(s, g, m, len, 1)
    <3>1. s.next <= len + 1 /\ s.next >= 1
      BY <1>1, <1>2, <1>3, <1>4, <2>7
    <3> QED
      BY <2>6, <2>7, <3>1 DEF Copied
  <2> QED
    BY <2>3, <2>4, <2>7, <2>8, CopyRestBounded
<1>5. ASSUME r.k <= 1 PROVE Bounded(Fill(r.buf, y))
  <2>1. Junk \in Unit
    BY <1>1, RelayAssumption DEF Junk, Unit
  <2>2. y \in Seq(Unit) /\ Len(y) = r.k
    BY <1>3, <2>1
  <2>3. ~ r.buf.full \/ y = <<>>
    <3>1. CASE r.k > 0
      BY <1>2, <3>1
    <3>2. CASE ~(r.k > 0)
      <4>1. Len(y) = 0
        BY <1>3, <2>2, <3>2
      <4> HIDE DEF y
      <4> QED
        BY <2>2, <4>1
    <3> QED
      BY <3>1, <3>2
  <2> HIDE DEF y
  <2> QED
    BY <1>2, <2>2, <2>3, FillBounded
<1> HIDE DEF st
<1> QED
  BY <1>4, <1>5 DEF st, s, f, x, y, r

-----------------------------------------------------------------------------
(* The invariant behind TypeOK.                                             *)

(* What a reader has in its hands is of the size of a message.              *)
InBounds(t) ==
  t.got \in Seq(Unit) /\ t.rc <= MaxBody /\ t.hdr.len <= MaxBody /\ t.hdr.seq <= FalseSeq

(* A write to the output.                                                   *)
Typed(e) == e.seq \in 0 .. FalseSeq /\ e.text \in Seq(Unit)

BuffersInv == \A c \in Cpus : Bounded(rb[c])
HandsInv == pdu \in Seq(1 .. MaxBody) /\ \A c \in Cpus : InBounds(thr[c])
WritesInv ==
  /\ out_fd \in Nat \cup {Closed}
  /\ files \subseteq [file : Nat, seq : 0 .. FalseSeq]
  /\ \A i \in 1 .. Len(log) : Typed(log[i])
CountsInv ==
  /\ failures <= inputs /\ last <= FalseSeq
  /\ wakeup \in BOOLEAN /\ running \in BOOLEAN /\ usr2 \in BOOLEAN
BoundInv == BuffersInv /\ HandsInv /\ WritesInv /\ CountsInv

(* The steps of the reader of cpu c that read from its buffer, those that
   neither read nor touch the text it has, and the steps of nobody's reader. *)
ReadStep(c) == read_header(c) \/ drain(c) \/ read_body(c)
PollStep(c) == ppoll(c) \/ ppoll_signalled(c) \/ interrupted(c)
FileStep(c) == switch_outfile(c) \/ open_outfile(c)
TextStep(c) == wait_turn(c) \/ wait_timeout(c) \/ write(c) \/ write_fails(c)
MainStep == wakeup_timer \/ data_fs_stop \/ sigusr2 \/ main_signalled \/ close_relayfs
HandlerStep == \E t \in Threads : switchfile_handler(t)

(* A read takes some of what the buffer holds.                              *)
LEMMA ReadsSome ==
    ASSUME OrderInv, NEW c \in Cpus, ReadStep(c)
    PROVE  \E n \in 0 .. Len(Held(c)) : rb' = [rb EXCEPT ![c] = Consume(SwitchOut(rb[c]), n)]
<1> DEFINE b == SwitchOut(rb[c])
           u == Avail(b.subs)
           h == Held(c)
<1>1. u = h /\ h \in Seq(Piece) /\ Len(h) \in Nat
  BY BufferOf DEF OrderInv
<1>2. CASE read_header(c)
  <2>1. \/ rb' = [rb EXCEPT ![c] = Consume(b, 0)]
        \/ u # <<>> /\ rb' = [rb EXCEPT ![c] = Consume(b, 1)]
        \/ \E n \in 1 .. Len(u) : rb' = [rb EXCEPT ![c] = Consume(b, n)]
    BY <1>2, Zenon DEF read_header
  <2>2. /\ 0 \in 0 .. Len(h) /\ (u # <<>> => 1 \in 0 .. Len(h))
        /\ \A n \in 1 .. Len(u) : n \in 0 .. Len(h)
    BY <1>1
  <2> HIDE DEF u, h, b
  <2>3. \E n \in 0 .. Len(h) : rb' = [rb EXCEPT ![c] = Consume(b, n)]
    BY <2>1, <2>2, Zenon
  <2> QED
    BY <2>3 DEF h, b
<1>3. CASE drain(c)
  <2>1. rb' = [rb EXCEPT ![c] = Consume(b, Len(u))]
    BY <1>3 DEF drain
  <2>2. Len(u) \in 0 .. Len(h)
    BY <1>1
  <2> QED
    BY <2>1, <2>2, Zenon
<1>4. CASE read_body(c)
  <2> DEFINE old == thr[c].got
             len == thr[c].hdr.len
             want == len - Len(old)
             n == IF Len(u) < want THEN Len(u) ELSE want
  <2>1. rb' = [rb EXCEPT ![c] = Consume(b, n)] /\ thr[c].pc = "body"
    BY <1>4, Zenon DEF read_body, At
  <2>2. Len(old) \in Nat /\ len \in Nat /\ Len(old) <= len
    BY <2>1, Shapes DEF OrderInv, TextInv, At, ReaderState
  <2>3. n \in 0 .. Len(h)
    <3> HIDE DEF old, len, u, h
    <3> QED
      BY <1>1, <2>2
  <2> HIDE DEF n
  <2> QED
    BY <2>1, <2>3, Zenon
<1> QED
  BY <1>2, <1>3, <1>4 DEF ReadStep

(* The buffers stay within their bounds.                                    *)
LEMMA BuffersBounded ==
    ASSUME OrderInv, BuffersInv, [Next]_vars
    PROVE  BuffersInv'
<1>1. rb \in [Cpus -> Buffers]
  BY DEF OrderInv, ShapeInv
<1>2. CASE rb' = rb
  BY <1>2 DEF BuffersInv
<1>3. ASSUME NEW c \in Cpus, NEW b, Bounded(b), rb' = [rb EXCEPT ![c] = b] PROVE BuffersInv'
  <2>1. \A d \in Cpus : rb'[d] = IF d = c THEN b ELSE rb[d]
    BY <1>1, <1>3
  <2> QED
    BY <1>3, <2>1 DEF BuffersInv
<1>4. ASSUME NEW c \in Cpus, ReadStep(c) PROVE BuffersInv'
  <2>1. PICK n \in 0 .. Len(Held(c)) : rb' = [rb EXCEPT ![c] = Consume(SwitchOut(rb[c]), n)]
    BY <1>4, ReadsSome
  <2>2. Bounded(rb[c]) /\ n \in 0 .. Len(Flat(rb[c]))
    BY DEF BuffersInv, Held, Flat
  <2>3. Bounded(Consume(SwitchOut(rb[c]), n))
    BY <2>2, ReadBounded
  <2> QED
    BY <1>3, <2>1, <2>3
<1>5. ASSUME NEW c \in Cpus, NEW len \in 1 .. MaxBody, __stp_print_flush(c, len)
      PROVE  BuffersInv'
  <2> DEFINE r == write_reserve(rb[c], 1 + len)
             m == Len(pdu) + 1
             s == [buf |-> Fill(r.buf, Units(m, 0, r.k - 1)), next |-> r.k, failed |-> FALSE]
             st == CopyRest(s, m, len)
             j == Fill(r.buf, [i \in 1 .. r.k |-> Junk])
  <2>1. /\ \/ r.k > 1 /\ rb' = [rb EXCEPT ![c] = st.buf]
           \/ r.k <= 1 /\ rb' = [rb EXCEPT ![c] = j]
        /\ inputs < MaxInputs
    BY <1>5, Zenon DEF __stp_print_flush, Input
  <2>2. m \in 0 .. MaxInputs /\ len \in 0 .. MaxBody /\ Bounded(rb[c])
    BY <2>1, Shapes DEF BuffersInv
  <2> HIDE DEF m
  <2>3. (r.k > 1 => Bounded(st.buf)) /\ (r.k <= 1 => Bounded(j))
    BY <2>2, FlushBounded
  <2> HIDE DEF r, st, j
  <2> QED
    BY <1>3, <2>1, <2>3
<1>6. ASSUME data_fs_stop PROVE BuffersInv'
  <2>1. rb' = [c \in Cpus |-> switch_subbuf(rb[c])]
    BY <1>6 DEF data_fs_stop
  <2>2. \A c \in Cpus : Bounded(switch_subbuf(rb[c]))
    BY SwitchBounded DEF BuffersInv
  <2> QED
    BY <2>1, <2>2 DEF BuffersInv
<1>7. ASSUME NEW c \in Cpus, Reader(c), ~ ReadStep(c) PROVE rb' = rb
  BY <1>7, Zenon DEF Reader, ReadStep, ppoll, ppoll_signalled, interrupted, wait_turn, wait_timeout, switch_outfile, open_outfile, write,
     write_fails, update_last, kernel
<1>8. ASSUME wakeup_timer \/ sigusr2 \/ main_signalled \/ close_relayfs \/ HandlerStep
      PROVE  rb' = rb
  BY <1>8 DEF wakeup_timer, sigusr2, main_signalled, close_relayfs, HandlerStep, switchfile_handler,
     handler_check, handler_set, handler_kill, handler_return, kernel
<1>9. UNCHANGED vars => rb' = rb
  BY DEF vars, kernel
<1> QED
  BY <1>2, <1>4, <1>5, <1>6, <1>7, <1>8, <1>9, Zenon DEF Next, HandlerStep

(* What a buffer holds is made of units.                                    *)
LEMMA HeldUnits ==
    ASSUME BuffersInv, NEW c \in Cpus
    PROVE  Held(c) \in Seq(Unit)
<1> DEFINE q == rb[c].subs
           x == rb[c].cur
<1>1. q \in Seq(Subbuf) /\ x \in Seq(Unit)
  BY DEF BuffersInv, Bounded, Subbuf
<1>2. Held(c) = Avail(q) \o x
  BY DEF Held
<1> HIDE DEF q, x
<1>3. q \in Seq(Seq(Unit))
  BY <1>1 DEF Subbuf
<1>4. Avail(q) \in Seq(Unit)
  BY <1>1, <1>3, AvailAppend
<1> QED
  BY <1>1, <1>2, <1>4

(* The hands of a reader that a step leaves alone.                          *)
SameHands(d) ==
  thr'[d].got = thr[d].got /\ thr'[d].rc = thr[d].rc /\ thr'[d].hdr = thr[d].hdr

(* Most steps leave them alone.                                             *)
LEMMA HandsAlone ==
    ASSUME OrderInv, NEW c \in Cpus, PollStep(c) \/ TextStep(c) \/ FileStep(c) \/ drain(c)
    PROVE  (\A d \in Cpus : SameHands(d)) /\ pdu' = pdu
<1>1. thr \in [Cpus -> ReaderState] /\ \A d \in Cpus : thr[d] \in ReaderState
  BY DEF OrderInv, ShapeInv
<1>2. pdu' = pdu
  BY Zenon DEF PollStep, TextStep, FileStep, ppoll, ppoll_signalled, interrupted, wait_turn,
     wait_timeout, switch_outfile, open_outfile, write, write_fails, drain, kernel
<1> SUFFICES \A d \in Cpus : SameHands(d)
  BY <1>2
<1>3. ASSUME NEW l, Goto(c, l) PROVE \A d \in Cpus : SameHands(d)
  BY <1>1, <1>3 DEF Goto, SameHands, ReaderState
<1>4. CASE ppoll_signalled(c)
  <2>1. thr' = [thr EXCEPT ![c].sig = FALSE, ![c].pc = "handler"]
    BY <1>4 DEF ppoll_signalled
  <2> QED
    BY <1>1, <2>1 DEF SameHands, ReaderState
<1>5. CASE wait_turn(c) \/ wait_timeout(c)
  <2> DEFINE k == IF switch_file[c] THEN "write" ELSE "hdr"
             l == IF switch_file[c] THEN "close" ELSE "write"
  <2>1. thr' = [thr EXCEPT ![c].to = k, ![c].pc = l]
    BY <1>5 DEF wait_turn, wait_timeout, ToWrite
  <2> HIDE DEF k, l
  <2> QED
    BY <1>1, <2>1 DEF SameHands, ReaderState
<1>6. CASE open_outfile(c)
  <2> DEFINE k == thr[c].fnum + 1
             l == thr[c].to
  <2>1. thr' = [thr EXCEPT ![c].fnum = k, ![c].to = "hdr", ![c].pc = l]
    BY <1>6 DEF open_outfile
  <2> HIDE DEF k, l
  <2> QED
    BY <1>1, <2>1 DEF SameHands, ReaderState
<1>7. CASE ppoll(c) \/ interrupted(c) \/ drain(c) \/ switch_outfile(c) \/ write(c) \/ write_fails(c)
  BY <1>3, <1>7 DEF ppoll, interrupted, drain, switch_outfile, write, write_fails
<1> QED
  BY <1>4, <1>5, <1>6, <1>7 DEF PollStep, TextStep, FileStep

(* So do the steps that are not a reader's.                                 *)
LEMMA OtherHands ==
    ASSUME OrderInv, HandlerInv, MainStep \/ HandlerStep
    PROVE  (\A d \in Cpus : SameHands(d)) /\ pdu' = pdu
<1>1. thr \in [Cpus -> ReaderState] /\ \A d \in Cpus : thr[d] \in ReaderState
  BY DEF OrderInv, ShapeInv
<1>2. pdu' = pdu
  BY Zenon DEF MainStep, wakeup_timer, data_fs_stop, sigusr2, main_signalled, close_relayfs,
     HandlerStep, switchfile_handler, handler_check, handler_set, handler_kill, handler_return, kernel
<1> SUFFICES \A d \in Cpus : SameHands(d)
  BY <1>2
<1>3. ASSUME \A d \in Cpus : Woken(d) PROVE \A d \in Cpus : SameHands(d)
  BY <1>3 DEF Woken, SameHands
<1>4. CASE wakeup_timer \/ data_fs_stop
  BY <1>3, <1>4, WakeWakes DEF wakeup_timer, data_fs_stop
<1>5. CASE sigusr2 \/ main_signalled \/ close_relayfs
  <2>1. thr' = thr \/ thr' = [c \in Cpus |-> pthread_kill(thr[c])]
    BY <1>5 DEF sigusr2, main_signalled, close_relayfs
  <2> QED
    BY <1>3, <2>1, SignalWakes, Untouched
<1>6. ASSUME NEW t \in Threads, switchfile_handler(t) PROVE \A d \in Cpus : SameHands(d)
  <2>1. CASE handler_check(t) \/ handler_set(t) \/ handler_kill(t)
    <3>1. thr' = thr \/ thr' = [thr EXCEPT ![hnd[t].i] = pthread_kill(thr[hnd[t].i])]
      BY <2>1 DEF handler_check, handler_set, handler_kill
    <3>2. hnd[t].i \in Cpus
      BY DEF HandlerInv
    <3> QED
      BY <1>3, <3>1, <3>2, SignalWakes, Untouched
  <2>2. CASE handler_return(t)
    <3>1. \A d \in Cpus : thr'[d] = thr[d] \/ thr'[d] = [thr[d] EXCEPT !.pc = "eintr"]
      BY <2>2 DEF handler_return
    <3> QED
      BY <1>1, <3>1 DEF SameHands, ReaderState
  <2> QED
    BY <1>6, <2>1, <2>2 DEF switchfile_handler
<1> QED
  BY <1>4, <1>5, <1>6 DEF MainStep, HandlerStep

(* The step of one reader to t.                                             *)
LEMMA HandsOf ==
    ASSUME OrderInv, HandsInv, NEW c \in Cpus, NEW t, InBounds(t), thr' = [thr EXCEPT ![c] = t],
           pdu' = pdu
    PROVE  HandsInv'
<1>1. \A d \in Cpus : thr'[d] = IF d = c THEN t ELSE thr[d]
  BY DEF OrderInv, ShapeInv
<1> QED
  BY <1>1 DEF HandsInv

(* A header read from the buffer gives the length of a message.             *)
LEMMA HeaderHands ==
    ASSUME OrderInv, BuffersInv, HandsInv, NEW c \in Cpus, read_header(c)
    PROVE  HandsInv'
<1> DEFINE b == SwitchOut(rb[c])
           u == Avail(b.subs)
           l == IF b.subs = <<>> THEN "drain" ELSE LoopPc
           h == Held(c)
<1>1. u = h /\ h \in Seq(Piece) /\ Len(h) \in Nat
  BY BufferOf DEF OrderInv
<1>2. thr[c] \in ReaderState /\ InBounds(thr[c]) /\ pdu' = pdu
  BY Shapes DEF HandsInv, read_header
<1>3. \/ \E x : Goto(c, x)
      \/ /\ u # <<>> /\ Head(u).at = 0
         /\ thr' = [thr EXCEPT ![c].pc = "body", ![c].got = <<>>,
                         ![c].hdr = [seq |-> Head(u).m, len |-> pdu[Head(u).m]]]
      \/ \E x \in 0 .. FalseSeq, n \in 1 .. MaxBody :
              thr' = [thr EXCEPT ![c].pc = "body", ![c].got = <<>>,
                                 ![c].hdr = [seq |-> x, len |-> n]]
  BY Zenon DEF read_header
<1> HIDE DEF u, h
<1>4. ASSUME NEW x, Goto(c, x) PROVE HandsInv'
  <2> DEFINE t == [thr[c] EXCEPT !.pc = x]
  <2>1. thr' = [thr EXCEPT ![c] = t]
    BY <1>4 DEF Goto
  <2>2. InBounds(t)
    BY <1>2 DEF InBounds, ReaderState
  <2> HIDE DEF t
  <2> QED
    BY <1>2, <2>1, <2>2, HandsOf
<1>5. ASSUME NEW s \in 0 .. FalseSeq, NEW k \in 1 .. MaxBody,
             thr' = [thr EXCEPT ![c].pc = "body", ![c].got = <<>>, ![c].hdr = [seq |-> s, len |-> k]]
      PROVE  HandsInv'
  <2> DEFINE z == [seq |-> s, len |-> k]
             g == <<>>
             t == [thr[c] EXCEPT !.pc = "body", !.got = g, !.hdr = z]
  <2>1. thr' = [thr EXCEPT ![c] = t]
    BY <1>5
  <2>2. g \in Seq(Unit) /\ z.len <= MaxBody /\ z.seq <= FalseSeq
    OBVIOUS
  <2> HIDE DEF g, z
  <2>3. t.got = g /\ t.hdr = z /\ t.rc = thr[c].rc
    BY <1>2 DEF ReaderState
  <2> HIDE DEF t
  <2>4. InBounds(t)
    BY <1>2, <2>2, <2>3 DEF InBounds
  <2> QED
    BY <1>2, <2>1, <2>4, HandsOf
<1>6. ASSUME u # <<>>, Head(u).at = 0
      PROVE  Head(u).m \in 0 .. FalseSeq /\ pdu[Head(u).m] \in 1 .. MaxBody
  <2> DEFINE s == Head(u).m
  <2>1. 1 \in 1 .. Len(h) /\ h[1].at = 0 /\ s = h[1].m
    BY <1>1, <1>6
  <2>2. s \in Heads(h)
    BY <2>1 DEF Heads
  <2>3. s \in Message
    BY <2>2 DEF OrderInv, PlaceInv, h
  <2>4. pdu[s] \in 1 .. MaxBody
    <3> DEFINE L == 1 .. MaxBody
    <3>1. pdu \in Seq(L) /\ s \in 1 .. Len(pdu)
      BY <2>3 DEF Message, HandsInv
    <3> HIDE DEF s, L
    <3>2. pdu[s] \in L
      BY <3>1
    <3> QED
      BY <3>2 DEF L
  <2>5. s \in 0 .. FalseSeq
    <3>1. s \in 1 .. Len(pdu) /\ Len(pdu) \in Nat /\ Len(pdu) <= MaxInputs /\ MaxInputs \in Nat
      BY <2>3, Shapes DEF Message
    <3> HIDE DEF s
    <3> QED
      BY <3>1 DEF FalseSeq
  <2> QED
    BY <2>4, <2>5
<1> QED
  BY <1>3, <1>4, <1>5, <1>6

(* The text that is read is made of units.                                  *)
LEMMA BodyHands ==
    ASSUME OrderInv, BuffersInv, HandsInv, NEW c \in Cpus, read_body(c)
    PROVE  HandsInv'
<1> DEFINE h == Held(c)
           old == thr[c].got
           len == thr[c].hdr.len
           want == len - Len(old)
           n == IF Len(h) < want THEN Len(h) ELSE want
           g == old \o SubSeq(h, 1, n)
           l == IF n > 0 /\ n < want THEN "body" ELSE "wait"
           t == [thr[c] EXCEPT !.got = g, !.rc = n, !.pc = l]
<1>1. Avail(SwitchOut(rb[c]).subs) = h /\ h \in Seq(Unit) /\ Len(h) \in Nat
  BY BufferOf, HeldUnits DEF OrderInv
<1>2. At(c, "body") /\ thr' = [thr EXCEPT ![c] = t] /\ pdu' = pdu
  BY <1>1 DEF read_body
<1>3. /\ thr[c] \in ReaderState /\ InBounds(thr[c])
      /\ Len(old) \in Nat /\ len \in Nat /\ Len(old) <= len
  BY <1>2, Shapes DEF OrderInv, TextInv, At, ReaderState, HandsInv
<1>4. old \in Seq(Unit) /\ len <= MaxBody /\ MaxBody \in Nat
  BY <1>3, RelayAssumption DEF InBounds
<1> HIDE DEF h, old, len
<1>5. n \in 0 .. Len(h) /\ n <= MaxBody
  BY <1>1, <1>3, <1>4
<1> HIDE DEF n
<1>6. g \in Seq(Unit)
  <2> DEFINE y == SubSeq(h, 1, n)
  <2>1. y \in Seq(Unit)
    BY <1>1, <1>5
  <2> HIDE DEF y
  <2>2. old \o y \in Seq(Unit)
    BY <1>4, <2>1
  <2> QED
    BY <2>2 DEF y
<1> HIDE DEF g, l
<1>7. t.got = g /\ t.rc = n /\ t.hdr = thr[c].hdr
  BY <1>3 DEF ReaderState
<1> HIDE DEF t
<1>8. InBounds(t)
  BY <1>3, <1>4, <1>5, <1>6, <1>7 DEF InBounds, len
<1> QED
  BY <1>2, <1>8, HandsOf

(* What the readers have in their hands stays within the bounds.            *)
LEMMA HandsBounded ==
    ASSUME OrderInv, HandlerInv, BuffersInv, HandsInv, [Next]_vars
    PROVE  HandsInv'
<1>1. ASSUME \A d \in Cpus : SameHands(d), pdu' = pdu PROVE HandsInv'
  BY <1>1 DEF HandsInv, SameHands, InBounds
<1>2. ASSUME NEW c \in Cpus, PollStep(c) \/ TextStep(c) \/ FileStep(c) \/ drain(c)
      PROVE  HandsInv'
  BY <1>1, <1>2, HandsAlone
<1>3. ASSUME NEW c \in Cpus, update_last(c) PROVE HandsInv'
  <2> DEFINE g == <<>>
             l == LoopPc
             t == [thr[c] EXCEPT !.pc = l, !.hdr = NoHdr, !.got = g, !.rc = 0]
  <2>1. thr' = [thr EXCEPT ![c] = t] /\ pdu' = pdu /\ thr[c] \in ReaderState
    BY <1>3, Shapes DEF update_last, kernel
  <2>2. g \in Seq(Unit) /\ NoHdr.len <= MaxBody /\ 0 <= MaxBody /\ NoHdr.seq <= FalseSeq
    BY RelayAssumption DEF NoHdr, FalseSeq
  <2> HIDE DEF g, l
  <2>3. t.got = g /\ t.hdr = NoHdr /\ t.rc = 0
    BY <2>1 DEF ReaderState
  <2> HIDE DEF t
  <2>4. InBounds(t)
    BY <2>2, <2>3 DEF InBounds
  <2> QED
    BY <2>1, <2>4, HandsOf
<1>4. ASSUME NEW c \in Cpus, NEW len \in 1 .. MaxBody, __stp_print_flush(c, len) PROVE HandsInv'
  <2>1. thr' = thr /\ (pdu' = pdu \/ pdu' = Append(pdu, len))
    BY <1>4, Zenon DEF __stp_print_flush
  <2>2. pdu' \in Seq(1 .. MaxBody)
    <3> DEFINE L == 1 .. MaxBody
    <3>1. pdu \in Seq(L) /\ len \in L
      BY DEF HandsInv
    <3> HIDE DEF L
    <3>2. pdu' \in Seq(L)
      BY <2>1, <3>1
    <3> QED
      BY <3>2 DEF L
  <2> QED
    BY <2>1, <2>2 DEF HandsInv
<1>5. ASSUME UNCHANGED vars PROVE HandsInv'
  BY <1>5 DEF vars, kernel, HandsInv
<1>7. MainStep \/ HandlerStep => HandsInv'
  BY <1>1, OtherHands
<1>8. ASSUME NEW c \in Cpus, Reader(c) PROVE HandsInv'
  BY <1>2, <1>3, <1>8, HeaderHands, BodyHands, Zenon
     DEF Reader, PollStep, TextStep, FileStep
<1> QED
  BY <1>4, <1>5, <1>7, <1>8, Zenon DEF Next, MainStep, HandlerStep

(* What is written is a message, or what was taken for one, in an open file. *)
LEMMA WritesBounded ==
    ASSUME OrderInv, HandsInv, WritesInv, [Next]_vars
    PROVE  WritesInv'
<1>1. CASE UNCHANGED <<out_fd, files, log>>
  BY <1>1 DEF WritesInv
<1>2. ASSUME NEW c \in Cpus, FileStep(c) PROVE WritesInv'
  <2>1. thr[c].fnum + 1 \in Nat
    BY Shapes DEF ReaderState
  <2>2. log' = log /\ files' \subseteq files
    BY <1>2 DEF FileStep, switch_outfile, open_outfile
  <2>3. out_fd' \in Nat \cup {Closed}
    BY <1>2, <2>1 DEF FileStep, switch_outfile, open_outfile, WritesInv
  <2> QED
    BY <2>2, <2>3 DEF WritesInv
<1>3. ASSUME NEW c \in Cpus, write(c) PROVE WritesInv'
  <2> DEFINE q == thr[c].hdr.seq
             k == thr[c].rc
             g == thr[c].got
             x == SubSeq(g, 1, k)
             e == [seq |-> q, text |-> x]
             f == [file |-> out_fd, seq |-> q]
  <2>1. /\ thr[c] \in ReaderState /\ k \in Nat /\ q \in Nat /\ thr[c].pc = "write"
        /\ MaxInputs \in Nat /\ out_fd' = out_fd
    BY <1>3, Shapes DEF write, At, ReaderState
  <2>2. CASE k > 0
    <3>1. files' = files \cup {f} /\ log' = Append(log, e) /\ out_fd # Closed
      BY <1>3, <2>1, <2>2 DEF write
    <3>2. q \in 0 .. FalseSeq
      <4>1. q <= FalseSeq
        BY DEF HandsInv, InBounds
      <4> HIDE DEF q
      <4> QED
        BY <2>1, <4>1 DEF FalseSeq
    <3>3. x \in Seq(Unit)
      <4>1. k <= Len(g) /\ g \in Seq(Unit)
        BY <2>1 DEF OrderInv, TextInv, Ready, HandsInv, InBounds
      <4> HIDE DEF k, g
      <4> QED
        BY <2>1, <4>1
    <3> HIDE DEF q, x
    <3>4. Typed(e)
      BY <3>2, <3>3 DEF Typed
    <3>5. f \in [file : Nat, seq : 0 .. FalseSeq]
      BY <3>1, <3>2 DEF WritesInv
    <3> HIDE DEF e, f
    <3>6. \A i \in 1 .. Len(log') : Typed(log'[i])
      <4>1. log \in Seq(Entry) /\ \A i \in 1 .. Len(log) : Typed(log[i])
        BY DEF OrderInv, ShapeInv, WritesInv
      <4>2. /\ Len(log') = Len(log) + 1 /\ Len(log) \in Nat /\ log'[Len(log) + 1] = e
            /\ \A i \in 1 .. Len(log) : log'[i] = log[i]
        BY <3>1, <4>1
      <4>3. \A i \in 1 .. Len(log') : i \in 1 .. Len(log) \/ i = Len(log) + 1
        BY <4>2
      <4> QED
        BY <3>4, <4>1, <4>2, <4>3
    <3> QED
      BY <2>1, <3>1, <3>5, <3>6 DEF WritesInv
  <2>3. CASE ~(k > 0)
    <3>1. UNCHANGED <<out_fd, files, log>>
      BY <1>3, <2>1, <2>3 DEF write
    <3> QED
      BY <1>1, <3>1
  <2> QED
    BY <2>2, <2>3
<1>4. ASSUME NEW c \in Cpus, Reader(c), ~ FileStep(c), ~ write(c)
      PROVE  UNCHANGED <<out_fd, files, log>>
  BY <1>4, Zenon DEF Reader, FileStep, ppoll, ppoll_signalled, interrupted, read_header, drain,
     read_body, wait_turn, wait_timeout, write_fails, update_last, output
<1>5. ASSUME MainStep \/ HandlerStep PROVE UNCHANGED <<out_fd, files, log>>
  BY <1>5, Zenon DEF MainStep, wakeup_timer, data_fs_stop, sigusr2, main_signalled, close_relayfs,
     HandlerStep, switchfile_handler, handler_check, handler_set, handler_kill, handler_return, output
<1>6. ASSUME NEW c \in Cpus, NEW len \in 1 .. MaxBody, __stp_print_flush(c, len)
      PROVE  UNCHANGED <<out_fd, files, log>>
  BY <1>6, Zenon DEF __stp_print_flush, output
<1>7. UNCHANGED vars => UNCHANGED <<out_fd, files, log>>
  BY DEF vars, output
<1> QED
  BY <1>1, <1>2, <1>3, <1>4, <1>5, <1>6, <1>7, Zenon DEF Next, MainStep, HandlerStep

(* No more failures are counted than there were inputs, and nobody
   waits for a number beyond the false one.                                 *)
LEMMA CountsBounded ==
    ASSUME OrderInv, LossInv, HandsInv, CountsInv, [Next]_vars
    PROVE  CountsInv'
<1>1. /\ inputs \in Nat /\ failures \in Nat /\ failures <= inputs /\ last \in Nat /\ last <= FalseSeq
      /\ wakeup \in BOOLEAN /\ running \in BOOLEAN /\ usr2 \in BOOLEAN
  BY Shapes DEF CountsInv, LossInv
<1>2. ASSUME UNCHANGED <<failures, wakeup, running>>, inputs' = inputs \/ inputs' = inputs + 1,
             last' = last \/ last' \in 0 .. FalseSeq,
             usr2' \in BOOLEAN
      PROVE  CountsInv'
  <2>1. failures' <= inputs' /\ last' <= FalseSeq
    BY <1>1, <1>2
  <2> QED
    BY <1>1, <1>2, <2>1 DEF CountsInv
<1>3. ASSUME NEW c \in Cpus, update_last(c) PROVE CountsInv'
  <2> DEFINE q == thr[c].hdr.seq
  <2>1. UNCHANGED <<failures, wakeup, running, inputs, usr2>>
    BY <1>3 DEF update_last, kernel, signalling
  <2>2. last' = last \/ last' = q
    BY <1>3 DEF update_last
  <2>3. q \in Nat /\ q <= FalseSeq /\ FalseSeq \in Nat
    BY Shapes, RelayAssumption DEF HandsInv, InBounds, ReaderState, FalseSeq
  <2> HIDE DEF q
  <2>4. last' = last \/ last' \in 0 .. FalseSeq
    BY <2>2, <2>3
  <2> QED
    BY <1>1, <1>2, <2>1, <2>4
<1>4. ASSUME NEW c \in Cpus, Reader(c), ~ update_last(c)
      PROVE  /\ UNCHANGED <<failures, wakeup, running, last>>
             /\ inputs' = inputs \/ inputs' = inputs + 1
             /\ usr2' = usr2 \/ usr2' = FALSE
  BY <1>4, Zenon DEF Reader, ppoll, ppoll_signalled, interrupted, read_header, drain, read_body,
     wait_turn, wait_timeout, switch_outfile, open_outfile, write, write_fails, kernel, signalling, Input
<1>5. ASSUME wakeup_timer \/ data_fs_stop PROVE CountsInv'
  <2>1. /\ UNCHANGED <<failures, inputs, last, usr2>>
        /\ wakeup' \in BOOLEAN /\ running' \in BOOLEAN
    BY <1>1, <1>5 DEF wakeup_timer, data_fs_stop, signalling
  <2> QED
    BY <1>1, <2>1 DEF CountsInv
<1>6. ASSUME sigusr2 \/ main_signalled \/ close_relayfs \/ HandlerStep PROVE CountsInv'
  <2>1. /\ UNCHANGED <<failures, wakeup, running, last>>
        /\ inputs' = inputs \/ inputs' = inputs + 1
        /\ usr2' = usr2 \/ usr2' = FALSE \/ usr2' = TRUE
    BY <1>6, Zenon DEF sigusr2, main_signalled, close_relayfs, HandlerStep, switchfile_handler,
       handler_check, handler_set, handler_kill, handler_return, kernel, signalling, Input
  <2>2. usr2' \in BOOLEAN
    BY <1>1, <2>1
  <2> QED
    BY <1>2, <2>1, <2>2
<1>7. ASSUME NEW c \in Cpus, NEW len \in 1 .. MaxBody, __stp_print_flush(c, len) PROVE CountsInv'
  <2>1. /\ inputs' = inputs + 1 /\ UNCHANGED <<running, last, usr2>>
        /\ write_commit \/ UNCHANGED wakeup
        /\ failures' = failures + 1 \/ \E f : count_rest(f)
    BY <1>7, Zenon DEF __stp_print_flush, Input, signalling
  <2>2. failures' <= inputs' /\ last' <= FalseSeq
    BY <1>1, <2>1 DEF count_rest
  <2>3. wakeup' \in BOOLEAN /\ running' \in BOOLEAN /\ usr2' \in BOOLEAN
    BY <1>1, <2>1, Zenon DEF write_commit
  <2> QED
    BY <2>2, <2>3, Zenon DEF CountsInv
<1>8. ASSUME UNCHANGED vars PROVE CountsInv'
  BY <1>8 DEF vars, kernel, signalling, CountsInv
<1>9. ASSUME NEW c \in Cpus, Reader(c) PROVE CountsInv'
  <2>1. CASE update_last(c)
    BY <1>3, <2>1
  <2>2. CASE ~ update_last(c)
    <3>1. usr2' \in BOOLEAN
      BY <1>1, <1>4, <1>9, <2>2
    <3> QED
      BY <1>2, <1>4, <1>9, <2>2, <3>1
  <2> QED
    BY <2>1, <2>2
<1> QED
  BY <1>5, <1>6, <1>7, <1>8, <1>9, Zenon DEF Next, HandlerStep

(* At first nothing is anywhere.                                            *)
LEMMA InitBounded ==
    ASSUME Init
    PROVE  BoundInv
<1>1. /\ MaxBody \in Nat /\ MaxInputs \in Nat /\ SubbufSize \in Nat /\ NSubbufs \in Nat
      /\ NSubbufs > 0
  BY RelayAssumption
<1>2. BuffersInv
  <2>1. Bounded(EmptyBuf)
    BY <1>1 DEF Bounded, EmptyBuf, Subbuf, Buffers, Buffer
  <2> QED
    BY <2>1 DEF BuffersInv, Init
<1>3. /\ \A c \in Cpus : thr[c] = NewReader
      /\ pdu = <<>> /\ log = <<>> /\ out_fd = 0 /\ files = {} /\ usr2 = FALSE
      /\ inputs = 0 /\ failures = 0 /\ last = 0 /\ wakeup = FALSE /\ running = TRUE
  BY DEF Init
<1>4. HandsInv
  <2>1. InBounds(NewReader)
    BY <1>1 DEF InBounds, NewReader, NoHdr, FalseSeq
  <2> QED
    BY <1>3, <2>1 DEF HandsInv
<1>6. WritesInv
  <2>1. Len(log) = 0
    BY <1>3
  <2> QED
    BY <1>3, <2>1 DEF WritesInv
<1>7. CountsInv
  <2>1. failures <= inputs /\ last <= FalseSeq
    BY <1>1, <1>3 DEF FalseSeq
  <2>2. wakeup \in BOOLEAN /\ running \in BOOLEAN /\ usr2 \in BOOLEAN
    BY <1>3, Zenon
  <2> QED
    BY <2>1, <2>2, Zenon DEF CountsInv
<1> QED
  BY <1>2, <1>4, <1>6, <1>7 DEF BoundInv

(* Buffers, texts, files and counters never leave their bounds.             *)
THEOREM BoundsKept == Spec => []BoundInv
<1>1. Init => BoundInv
  BY InitBounded
<1>2. OrderInv /\ HandlerInv /\ LossInv /\ BoundInv /\ [Next]_vars => BoundInv'
  BY BuffersBounded, HandsBounded, WritesBounded, CountsBounded DEF BoundInv
<1> QED
  BY <1>1, <1>2, HandlersReturn, FramesKept, PTL DEF Spec

(* Every variable has its type, and a relay buffer never has more sub-buffers
   than it was made with nor a sub-buffer more than its size: also when a reader
   takes text or junk for a header and reads on from there.                 *)
THEOREM RelayTypes == Spec => []TypeOK
<1>1. ASSUME OrderInv, HandlerInv, LossInv, BoundInv PROVE TypeOK
  <2>1. /\ MaxBody \in Nat /\ MaxInputs \in Nat /\ inputs \in 0 .. MaxInputs
        /\ Len(pdu) <= inputs /\ Len(pdu) \in Nat
    BY <1>1, Shapes, RelayAssumption
  <2>2. ASSUME NEW c \in Cpus
        PROVE  /\ rb[c].subs \in Seq(Seq(Unit)) /\ rb[c].cur \in Seq(Unit)
               /\ rb[c].full \in BOOLEAN
               /\ Len(rb[c].subs) <= NSubbufs /\ Len(rb[c].cur) <= SubbufSize
               /\ \A i \in 1 .. Len(rb[c].subs) : Len(rb[c].subs[i]) <= SubbufSize
    <3> DEFINE q == rb[c].subs
    <3>1. /\ Bounded(rb[c]) /\ q \in Seq(Subbuf) /\ Len(q) <= NSubbufs
          /\ rb[c].cur \in Seq(Unit) /\ Len(rb[c].cur) <= SubbufSize
      BY <1>1 DEF BoundInv, BuffersInv, Bounded, Subbuf
    <3>2. rb[c].full \in BOOLEAN
      BY <3>1, FlatType DEF Bounded
    <3> HIDE DEF q
    <3>3. q \in Seq(Seq(Unit)) /\ \A i \in 1 .. Len(q) : Len(q[i]) <= SubbufSize
      BY <3>1 DEF Subbuf
    <3> QED
      BY <3>1, <3>2, <3>3 DEF q
  <2>3. ASSUME NEW c \in Cpus
        PROVE  /\ thr[c].pc \in ReaderPcs /\ thr[c].sig \in BOOLEAN /\ thr[c].to \in {"hdr", "write"}
               /\ thr[c].got \in Seq(Unit) /\ thr[c].rc \in 0 .. MaxBody
               /\ thr[c].hdr.len \in 0 .. MaxBody /\ thr[c].hdr.seq \in 0 .. FalseSeq
               /\ thr[c].fnum \in Nat
    <3>1. thr[c] \in ReaderState /\ InBounds(thr[c])
      BY <1>1, Shapes DEF BoundInv, HandsInv
    <3>2. thr[c].rc \in Nat /\ thr[c].hdr.len \in Nat /\ thr[c].hdr.seq \in Nat
      BY <3>1 DEF ReaderState
    <3>3. FalseSeq \in Nat
      BY <2>1 DEF FalseSeq
    <3> QED
      BY <2>1, <3>1, <3>2, <3>3 DEF ReaderState, InBounds
  <2>4. hnd \in [Threads -> [at : {"idle", "check", "set", "kill", "return"}, i : Cpus]]
    BY <1>1 DEF HandlerInv, HandlerPcs
  <2>6. pdu \in Seq(1 .. MaxBody) /\ failures \in 0 .. MaxInputs
    BY <1>1, <2>1 DEF BoundInv, HandsInv, CountsInv, LossInv
  <2>7. {wakeup, running, stop_threads, late, resync, misread, usr2} \subseteq BOOLEAN
    BY <1>1, Shapes, Zenon DEF BoundInv, CountsInv, LossInv
  <2>8. switch_file \in [Cpus -> BOOLEAN] /\ last \in 0 .. FalseSeq
    BY <1>1, <2>1, Shapes DEF BoundInv, CountsInv, FalseSeq
  <2>9. /\ out_fd \in Nat \cup {Closed}
        /\ files \subseteq [file : Nat, seq : 0 .. FalseSeq]
        /\ \A i \in 1 .. Len(log) : log[i].seq \in 0 .. FalseSeq /\ log[i].text \in Seq(Unit)
    BY <1>1 DEF BoundInv, WritesInv, Typed
  <2> QED
    BY <2>1, <2>2, <2>3, <2>4, <2>6, <2>7, <2>8, <2>9, Zenon DEF TypeOK, ReaderPcs
<1> QED
  BY <1>1, HandlersReturn, FramesKept, BoundsKept, PTL
=============================================================================
