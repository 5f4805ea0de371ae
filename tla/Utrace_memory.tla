---------------------------- MODULE Utrace_memory ----------------------------
(***************************************************************************)
(* The memory of the utrace layer, for any number of structs, engines,     *)
(* failures and execs: every piece of state keeps its shape, the structs   *)
(* of the table are the ones in memory, and every reference to an engine,  *)
(* of a list or of a call, is counted.                                     *)
(***************************************************************************)
EXTENDS Utrace_proofs

-----------------------------------------------------------------------------
(* The records of the model, and what a step does to them field by field.   *)

CallRecord ==
    [ops : OpsValues, s : Structs \cup {NoStruct}, found : BOOLEAN,
     e : Engines \cup {NoEngine}, rc : ReturnCodes,
     act : {"NONE", "RESUME", "INTERRUPT"}, ev : SUBSET EventBits,
     k : Labels, ret : Labels]
ReportRecord ==
    [s : Structs \cup {NoStruct}, ev : {"NONE", "EXEC", "DEATH"}, i : Nat,
     det : BOOLEAN, spur : BOOLEAN, tp : BOOLEAN]
StructRecord ==
    [mem : {"unused", "live", "freed"}, ref : Int,
     attached : Seq(Engines), attaching : Seq(Engines),
     pending : BOOLEAN, flags : SUBSET EventBits,
     resume : {"RESUME", "INTERRUPT"}, death : BOOLEAN,
     resumeAdded : BOOLEAN, reportAdded : BOOLEAN]
EngineRecord ==
    [mem : {"unused", "live", "freed"}, ref : Int,
     ops : OpsValues, flags : SUBSET EventBits]

Calls == at \in [Procs -> CallRecord]
Objects == u \in [Structs -> StructRecord]
Handles == eng \in [Engines -> EngineRecord]

(* One record of a function is replaced.                                    *)
LEMMA Replaced ==
    ASSUME NEW A, NEW B, NEW f \in [A -> B], NEW x \in A, NEW b \in B
    PROVE  /\ [f EXCEPT ![x] = b] \in [A -> B]
           /\ [f EXCEPT ![x] = b][x] = b
           /\ \A y \in A : y # x => [f EXCEPT ![x] = b][y] = f[y]
OBVIOUS

(* Only the call of p changes, to c.                                        *)
NewCall(p, c) ==
    /\ at'[p] = c /\ c \in CallRecord
    /\ at' \in [Procs -> CallRecord]
    /\ \A q \in Procs : q # p => at'[q] = at[q]
(* The call of p keeps its arguments.                                       *)
SameCall(p, c) == c.ops = at[p].ops /\ c.act = at[p].act /\ c.ev = at[p].ev /\ c.ret = at[p].ret

(* A record put in the place of p's call.                                   *)
LEMMA CallReplaced ==
    ASSUME Calls, NEW p \in Procs, NEW c \in CallRecord, at' = [at EXCEPT ![p] = c]
    PROVE  NewCall(p, c)
BY Replaced DEF NewCall, Calls

(* utrace_task_alloc() leaves the new struct in the call.                   *)
LEMMA CallMakes ==
    ASSUME Calls, NEW p \in Procs, NEW s \in Structs,
           at' = [at EXCEPT ![p].s = s]
    PROVE  \E c : /\ NewCall(p, c) /\ SameCall(p, c)
                  /\ c.s = s /\ c.found = at[p].found /\ c.rc = at[p].rc
                  /\ c.e = at[p].e /\ c.k = at[p].k
<1> DEFINE c == [at[p] EXCEPT !.s = s]
<1>1. at[p] \in CallRecord
  BY DEF Calls
<1>2. /\ c \in CallRecord /\ SameCall(p, c)
      /\ c.s = s /\ c.found = at[p].found /\ c.rc = at[p].rc /\ c.e = at[p].e /\ c.k = at[p].k
  BY <1>1 DEF CallRecord, SameCall
<1>3. at' = [at EXCEPT ![p] = c]
  BY DEF Calls
<1> HIDE DEF c
<1> QED
  BY <1>2, <1>3, CallReplaced

(* A failed utrace_add_engine() leaves the code and where to go on.         *)
LEMMA CallFails ==
    ASSUME Calls, NEW p \in Procs, NEW k \in Labels, NEW rc \in ReturnCodes,
           at' = [at EXCEPT ![p].rc = rc, ![p].k = k]
    PROVE  \E c : /\ NewCall(p, c) /\ SameCall(p, c)
                  /\ c.s = at[p].s /\ c.found = at[p].found /\ c.rc = rc
                  /\ c.e = at[p].e /\ c.k = k
<1> DEFINE c == [at[p] EXCEPT !.rc = rc, !.k = k]
<1>1. at[p] \in CallRecord
  BY DEF Calls
<1>2. /\ c \in CallRecord /\ SameCall(p, c)
      /\ c.s = at[p].s /\ c.found = at[p].found /\ c.rc = rc /\ c.e = at[p].e /\ c.k = k
  BY <1>1 DEF CallRecord, SameCall
<1>3. at' = [at EXCEPT ![p] = c]
  BY DEF Calls
<1> HIDE DEF c
<1> QED
  BY <1>2, <1>3, CallReplaced

-----------------------------------------------------------------------------
(* Which struct and which engine a process is using.                        *)

One(b) == IF b THEN 1 ELSE 0

(* The task is in a reporting pass, or about to put the struct of one.       *)
PassPuts == {"tp_out", "w_done", "put2"}
InPass ==
    \/ pc["task"] \in UsesReport \cup {"put2"}
    \/ Calling("task") /\ at["task"].ret \in {"q_add", "x_out"}
    \/ pc["task"] = "put" /\ at["task"].k \in PassPuts

(* The pass is at an engine of the attached list.                           *)
AtEngine ==
    \/ pc["task"] \in {"cb_q", "q_in", "q_add", "q_count", "cb_after", "cb_ev", "ev_in",
                       "x_out", "end_cb"}
    \/ Calling("task") /\ at["task"].ret \in {"q_add", "x_out"}

(* The call of p is about the engine at[p].e, on which it has a reference
   unless it is utrace_set_events() of the pass on the current engine.      *)
WithEngine(p) ==
    \/ pc[p] \in UsesEngine \cup {"ctl_count"}
    \/ pc[p] \in PutLabels /\ at[p].k \in {"ev_get", "ctl_get", "eng_put", "q_add"}
HasEngine(p, e) == WithEngine(p) /\ at[p].act # "NONE" /\ at[p].e = e

(* The task puts the struct it reports on.                                  *)
PutsReported ==
    \/ pc["task"] \in {"notify", "fin_count", "put2"}
    \/ pc["task"] \in PutLabels /\ at["task"].k \in PassPuts

UseInv ==
    /\ \A p \in Procs : pc[p] \in UsesStruct =>
         at[p].s \in Structs /\ u[at[p].s].mem # "unused"
    /\ \A p \in Procs : pc[p] = "att_alloc" => ~at[p].found
    /\ \A p \in Procs : WithEngine(p) => at[p].e \in Engines
    /\ InPass \/ PutsReported => rep.s \in Structs /\ u[rep.s].mem # "unused"
    /\ InPass \/ PutsReported \/ pc["task"] = "tp_get" => rep.i # 0
    /\ PutsReported => at["task"].s = rep.s
    /\ AtEngine => u[rep.s].mem = "freed" \/ rep.i \in 1..Len(u[rep.s].attached)
    /\ WithEngine("task") /\ at["task"].act = "NONE" =>
         u[rep.s].mem = "freed" \/ at["task"].e = u[rep.s].attached[rep.i]
    /\ \A w \in works \cup taken : w.kind # "tf" => u[w.id].mem # "unused"
    /\ pc["task"] \in PutLabels /\ at["task"].k = "q_add" => at["task"].act = "NONE"
    /\ Calling("task") /\ at["task"].act = "NONE" =>
         \/ pc["task"] \in {"ev_get", "ev_set", "oops"}
         \/ pc["task"] \in PutLabels /\ at["task"].k = "q_add"

-----------------------------------------------------------------------------
(* Engines.                                                                 *)

(* The structs of the table are the ones in memory, and only these have
   engines; an engine is on the lists of one struct.                        *)
ListInv ==
    /\ \A s \in Structs : s \in ToSet(table) <=> u[s].mem = "live"
    /\ \A s \in Structs : u[s].mem # "live" => u[s].ref = 0 /\ ListOf(s) = {}
    /\ \A s, r \in Structs : s # r => ListOf(s) \cap ListOf(r) = {}
    /\ \A s \in Structs : ListOf(s) # {} => u[s].flags # {}

Listed(e) == \E s \in Structs : e \in ListOf(s)

(* An engine has a reference for its list and one for each call about it.    *)
EngineInv == \A e \in Engines :
    /\ eng[e].ref >= 0
    /\ Listed(e) => eng[e].mem = "live"
    /\ eng[e].mem = "live" =>
         eng[e].ref >= One(Listed(e)) + One(HasEngine("stap", e)) + One(HasEngine("task", e))
    /\ eng[e].mem = "unused" => ~HasEngine("stap", e) /\ ~HasEngine("task", e)


-----------------------------------------------------------------------------
(* The effects of the steps on the structs, the engines and the calls.       *)

(* Of every struct, what is not a count or a work; and of every struct, which
   works it has.                                                            *)
Unmoved == \A t \in Structs :
    /\ u'[t].mem = u[t].mem /\ u'[t].flags = u[t].flags
    /\ u'[t].attached = u[t].attached /\ u'[t].attaching = u[t].attaching
SameAdded == \A t \in Structs :
    u'[t].resumeAdded = u[t].resumeAdded /\ u'[t].reportAdded = u[t].reportAdded
SameRefs == \A t \in Structs : u'[t].ref = u[t].ref
Counts(s, d) == \A t \in Structs : u'[t].ref = IF t = s THEN u[s].ref + d ELSE u[t].ref

(* The record of s changes in the fields named.                             *)
LEMMA StructReplaced ==
    ASSUME Objects, NEW s \in Structs, NEW r \in StructRecord, u' = [u EXCEPT ![s] = r]
    PROVE  /\ Objects' /\ u'[s] = r
           /\ \A t \in Structs : t # s => u'[t] = u[t]
<1>1. u' \in [Structs -> StructRecord] /\ u'[s] = r /\ \A t \in Structs : t # s => u'[t] = u[t]
  BY Replaced DEF Objects
<1> QED
  BY <1>1 DEF Objects

(* Adding to the count of a struct changes nothing else of it.              *)
LEMMA RefAdded ==
    ASSUME Objects, NEW s \in Structs, NEW d \in Int,
           u' = [u EXCEPT ![s].ref = u[s].ref + d]
    PROVE  Objects' /\ Unmoved /\ SameAdded /\ Counts(s, d)
<1> DEFINE r == [u[s] EXCEPT !.ref = u[s].ref + d]
<1>1. u[s] \in StructRecord
  BY DEF Objects
<1>2. /\ r \in StructRecord /\ r.ref = u[s].ref + d
      /\ r.mem = u[s].mem /\ r.flags = u[s].flags /\ r.attached = u[s].attached
      /\ r.attaching = u[s].attaching
      /\ r.resumeAdded = u[s].resumeAdded /\ r.reportAdded = u[s].reportAdded
  BY <1>1 DEF StructRecord
<1>3. u' = [u EXCEPT ![s] = r]
  BY DEF Objects
<1> HIDE DEF r
<1>4. Objects' /\ u'[s] = r /\ \A t \in Structs : t # s => u'[t] = u[t]
  BY <1>2, <1>3, StructReplaced
<1>5. \A t \in Structs : u'[t].ref = IF t = s THEN u[s].ref + d ELSE u[t].ref
  BY <1>2, <1>4
<1> QED
  BY <1>2, <1>4, <1>5 DEF Unmoved, SameAdded, Counts

(* get_utrace_struct() finds the head of the table, unless its count is zero. *)
LEMMA LookupFinds ==
    ASSUME table \in Seq(Structs)
    PROVE  \/ Lookup = NoStruct /\ (table = <<>> \/ ~(u[Head(table)].ref > 0))
           \/ /\ Lookup \in Structs /\ Lookup # NoStruct
              /\ table # <<>> /\ Lookup = Head(table) /\ u[Lookup].ref > 0
<1>1. CASE table # <<>> /\ u[Head(table)].ref > 0
  <2>1. Head(table) \in Structs
    BY <1>1
  <2>2. Lookup = Head(table)
    BY <1>1 DEF Lookup
  <2> QED
    BY <1>1, <2>1, <2>2 DEF NoStruct, Structs
<1>2. CASE ~(table # <<>> /\ u[Head(table)].ref > 0)
  BY <1>2 DEF Lookup
<1> QED
  BY <1>1, <1>2

(* get_utrace_struct() finds none, or counts the head of the table.         *)
LEMMA GetEffect ==
    ASSUME Calls, Objects, table \in Seq(Structs), NEW p \in Procs, NEW found, NEW none,
           NEW rc \in ReturnCodes, GetStruct(p, found, none, rc)
    PROVE  \E c : /\ NewCall(p, c) /\ SameCall(p, c) /\ c.e = at[p].e /\ c.k = at[p].k
                  /\ Objects' /\ Unmoved /\ SameAdded
                  /\ \/ /\ c.s = NoStruct /\ ~c.found /\ Goto(p, none) /\ UNCHANGED u
                        /\ Lookup = NoStruct /\ c.rc = rc
                     \/ /\ c.s \in Structs /\ table # <<>> /\ c.s = Head(table)
                        /\ u[c.s].ref > 0 /\ Goto(p, found) /\ Counts(c.s, 1)
                        /\ c.found = (found = "att_eng") /\ c.rc = at[p].rc
<1> DEFINE s == Lookup
<1>1. /\ at' = [at EXCEPT ![p].s = s, ![p].found = s # NoStruct /\ found = "att_eng",
                          ![p].rc = IF s = NoStruct THEN rc ELSE at[p].rc]
      /\ u' = IF s = NoStruct THEN u ELSE [u EXCEPT ![s].ref = u[s].ref + 1]
      /\ Goto(p, IF s = NoStruct THEN none ELSE found)
  BY DEF GetStruct, Calls, Objects
<1>2. at[p] \in CallRecord /\ at[p].rc \in ReturnCodes
  BY DEF Calls, CallRecord
<1>3. s \in Structs \cup {NoStruct}
  BY LookupFinds
<1>4. \E c : /\ NewCall(p, c) /\ SameCall(p, c)
             /\ c.s = s /\ c.found = (s # NoStruct /\ found = "att_eng")
             /\ c.rc = (IF s = NoStruct THEN rc ELSE at[p].rc) /\ c.e = at[p].e /\ c.k = at[p].k
  <2> DEFINE f == s # NoStruct /\ found = "att_eng"
             r == IF s = NoStruct THEN rc ELSE at[p].rc
  <2>1. f \in BOOLEAN /\ r \in ReturnCodes
    BY <1>2
  <2>2. at' = [at EXCEPT ![p].s = s, ![p].found = f, ![p].rc = r]
    BY <1>1
  <2> HIDE DEF f, r, s
  <2>3. \E c : /\ NewCall(p, c) /\ SameCall(p, c)
               /\ c.s = s /\ c.found = f /\ c.rc = r /\ c.e = at[p].e /\ c.k = at[p].k
    <3> DEFINE c == [at[p] EXCEPT !.s = s, !.found = f, !.rc = r]
    <3>1. /\ c \in CallRecord /\ SameCall(p, c)
          /\ c.s = s /\ c.found = f /\ c.rc = r /\ c.e = at[p].e /\ c.k = at[p].k
      BY <1>2, <1>3, <2>1 DEF CallRecord, SameCall
    <3>2. at' = [at EXCEPT ![p] = c]
      BY <2>2 DEF Calls
    <3> HIDE DEF c
    <3> QED
      BY <3>1, <3>2, CallReplaced
  <2> QED
    BY <2>3 DEF f, r
<1>5. CASE s = NoStruct
  <2>1. UNCHANGED u /\ Goto(p, none)
    BY <1>1, <1>5
  <2>2. Objects' /\ Unmoved /\ SameAdded
    BY <2>1 DEF Objects, Unmoved, SameAdded
  <2> QED
    BY <1>4, <1>5, <2>1, <2>2
<1>6. CASE s # NoStruct
  <2>1. s \in Structs /\ table # <<>> /\ s = Head(table) /\ u[s].ref > 0
    BY <1>6, LookupFinds
  <2>2. u' = [u EXCEPT ![s].ref = u[s].ref + 1] /\ Goto(p, found)
    BY <1>1, <1>6
  <2> HIDE DEF s
  <2>3. Objects' /\ Unmoved /\ SameAdded /\ Counts(s, 1)
    <3>1. 1 \in Int
      OBVIOUS
    <3> QED
      BY <2>1, <2>2, <3>1, RefAdded, Zenon
  <2>4. \E c : /\ NewCall(p, c) /\ SameCall(p, c)
                        /\ c.s = s /\ c.found = (found = "att_eng") /\ c.rc = at[p].rc
                        /\ c.e = at[p].e /\ c.k = at[p].k
    BY <1>4, <1>6
  <2> QED
    BY <2>1, <2>2, <2>3, <2>4
<1> QED
  BY <1>5, <1>6

(* put_utrace_struct() only takes one off the count.                        *)
LEMMA PutEffect ==
    ASSUME Objects, NEW p \in Procs, PutStruct(p), at[p].s \in Structs
    PROVE  Objects' /\ Unmoved /\ SameAdded /\ Counts(at[p].s, -1)
<1>1. u' = [u EXCEPT ![at[p].s].ref = u[at[p].s].ref + (-1)]
  <2>1. u[at[p].s] \in StructRecord
    BY DEF Objects
  <2>2. u[at[p].s].ref \in Int
    BY <2>1 DEF StructRecord
  <2>3. u[at[p].s].ref + (-1) = u[at[p].s].ref - 1
    BY <2>2
  <2>4. u' = [u EXCEPT ![at[p].s].ref = u[at[p].s].ref - 1]
    BY DEF PutStruct, Objects
  <2> QED
    BY <2>3, <2>4
<1>2. -1 \in Int
  OBVIOUS
<1> QED
  BY <1>1, <1>2, RefAdded, Zenon

(* A call ends, and only its return value is left; or it begins.             *)
LEMMA LabelsHave ==
    /\ CallLabels \subseteq Labels /\ PutLabels \subseteq Labels /\ ProbeLabels \subseteq Labels
    /\ PassLabels \subseteq Labels /\ TfLabels \subseteq Labels /\ Uncounted \subseteq Labels
    /\ StartLabels \subseteq Labels /\ StopLabels \subseteq Labels
BY DEF Labels

(* The fields of a call that is not there.                                  *)
LEMMA EmptyCall ==
    /\ NoCall \in CallRecord
    /\ NoCall.ops = "null" /\ NoCall.s = NoStruct /\ NoCall.found = FALSE
    /\ NoCall.e = NoEngine /\ NoCall.rc = "0" /\ NoCall.act = "RESUME" /\ NoCall.ev = {}
    /\ NoCall.k = "user" /\ NoCall.ret = "user"
<1>1. "user" \in Labels
  BY LabelsHave DEF Uncounted
<1> QED
  BY <1>1 DEF NoCall, CallRecord, OpsValues, ReturnCodes

(* The call c is over, and is about nothing.                                *)
Idle(c) == c.s = NoStruct /\ ~c.found /\ c.e = NoEngine /\ c.k = "user"

(* A call that returned leaves its return code only.                        *)
LEMMA ReturnEffect ==
    ASSUME Calls, NEW p \in Procs, NEW rc \in ReturnCodes, Returned(p, rc)
    PROVE  \E c : NewCall(p, c) /\ Idle(c) /\ c.rc = rc
<1> DEFINE c == [NoCall EXCEPT !.rc = rc]
<1>1. c \in CallRecord /\ Idle(c) /\ c.rc = rc
  BY EmptyCall DEF CallRecord, Idle
<1>2. at' = [at EXCEPT ![p] = c]
  BY DEF Returned
<1> HIDE DEF c
<1> QED
  BY <1>1, <1>2, CallReplaced

(* __stp_utrace_attach() begins, or refuses a task without an mm.           *)
LEMMA CallEffect ==
    ASSUME Calls, NEW p \in Procs, NEW ops \in OpsValues, NEW ev \in SUBSET EventBits,
           NEW act \in {"NONE", "RESUME", "INTERRUPT"}, NEW ret \in Labels,
           Call(p, ops, ev, act, ret)
    PROVE  \E c : /\ NewCall(p, c) /\ Idle(c)
                  /\ \/ tk.mm /\ c.ops = ops /\ c.ev = ev /\ c.act = act /\ c.ret = ret
                        /\ c.rc = "0" /\ Goto(p, "att_get")
                     \/ ~tk.mm /\ c.rc = "EPERM" /\ Goto(p, ret)
<1>1. CASE tk.mm
  <2> DEFINE c == [NoCall EXCEPT !.ops = ops, !.ev = ev, !.act = act, !.ret = ret]
  <2>1. /\ c \in CallRecord /\ Idle(c) /\ c.ops = ops /\ c.ev = ev /\ c.act = act
        /\ c.ret = ret /\ c.rc = "0"
    BY EmptyCall DEF CallRecord, Idle
  <2>2. at' = [at EXCEPT ![p] = c] /\ Goto(p, "att_get")
    BY <1>1 DEF Call
  <2> HIDE DEF c
  <2>3. NewCall(p, c)
    BY <2>1, <2>2, CallReplaced
  <2> QED
    BY <1>1, <2>1, <2>2, <2>3
<1>2. CASE ~tk.mm
  <2> DEFINE c == [NoCall EXCEPT !.rc = "EPERM"]
  <2>1. c \in CallRecord /\ Idle(c) /\ c.rc = "EPERM"
    BY EmptyCall DEF CallRecord, Idle, ReturnCodes
  <2>2. at' = [at EXCEPT ![p] = c] /\ Goto(p, ret)
    BY <1>2 DEF Call
  <2> HIDE DEF c
  <2>3. NewCall(p, c)
    BY <2>1, <2>2, CallReplaced
  <2> QED
    BY <1>2, <2>1, <2>2, <2>3
<1> QED
  BY <1>1, <1>2

(* Without() keeps the head of a list, if the head stays.                    *)
LEMMA WithoutHead ==
    ASSUME NEW A, NEW q \in Seq(A), NEW S, q # <<>>, Head(q) \notin S
    PROVE  Without(q, S) # <<>> /\ Head(Without(q, S)) = Head(q)
<1>1. PICK f : Without(q, S) = f[Len(q)] /\ \A n \in Nat : Filters(f, n, q, S)
  BY WithoutFilters
<1>2. Len(q) \in Nat /\ Len(q) >= 1 /\ Head(q) = q[1]
  OBVIOUS
<1> DEFINE Good(n) == f[n] \in Seq(A) /\ Len(f[n]) >= 1 /\ f[n][1] = q[1]
           T == {n \in Nat : n + 1 <= Len(q) => Good(n + 1)}
<1>3. 0 \in T
  <2>1. f[0] = <<>> /\ f[1] = Kept(f[0], q[1], S)
    <3>1. Filters(f, 1, q, S)
      BY <1>1
    <3> QED
      BY <3>1 DEF Filters
  <2>2. f[1] = Append(<<>>, q[1]) /\ q[1] \in A
    BY <1>2, <2>1 DEF Kept
  <2>3. Good(1)
    BY <2>2
  <2> QED
    BY <2>3
<1>4. ASSUME NEW n \in T PROVE n + 1 \in T
  <2> SUFFICES ASSUME n + 2 <= Len(q) PROVE Good(n + 2)
    OBVIOUS
  <2>1. n \in Nat /\ n + 2 \in 1..(n + 2) /\ (n + 2) - 1 = n + 1 /\ n + 2 \in 1..Len(q)
    BY <1>2
  <2>2. f[n + 2] = Kept(f[n + 1], q[n + 2], S)
    <3>1. Filters(f, n + 2, q, S)
      BY <1>1, <2>1
    <3> QED
      BY <2>1, <3>1 DEF Filters
  <2>3. Good(n + 1)
    BY <1>2, <2>1
  <2>4. q[n + 2] \in A
    BY <2>1
  <2>5. Good(n + 2)
    BY <2>2, <2>3, <2>4 DEF Kept
  <2> QED
    BY <2>5
<1>5. T = Nat
  <2>1. T \in SUBSET Nat
    OBVIOUS
  <2> HIDE DEF T
  <2> QED
    BY <2>1, <1>3, <1>4, SetInduction
<1>6. Len(q) - 1 \in T
  <2>1. Len(q) - 1 \in Nat
    BY <1>2
  <2> HIDE DEF T
  <2> QED
    BY <2>1, <1>5
<1>7. Good(Len(q))
  BY <1>2, <1>6
<1> QED
  BY <1>1, <1>2, <1>7

(* A struct with other lists, memory state and count is a struct.           *)
LEMMA StructEdited ==
    ASSUME NEW r \in StructRecord, NEW m \in {"unused", "live", "freed"}, NEW n \in Int,
           NEW a \in Seq(Engines), NEW b \in Seq(Engines)
    PROVE  [r EXCEPT !.mem = m, !.ref = n, !.attached = a, !.attaching = b] \in StructRecord
BY DEF StructRecord

(* What freeing the structs in S does.                                      *)
Freed(S) ==
    /\ Objects' /\ Handles' /\ table' \in Seq(Structs)
    /\ ToSet(table') = ToSet(table) \ S
    /\ table # <<>> /\ Head(table) \notin S => table' # <<>> /\ Head(table') = Head(table)
    /\ \A s \in Structs \ S : u'[s] = u[s]
    /\ \A s \in S : /\ u'[s].mem = "freed" /\ u'[s].ref = 0 /\ ListOf(s)' = {}
                    /\ u'[s].flags = u[s].flags
    /\ SameAdded
    /\ \A e \in Engines :
         /\ eng'[e].ref = eng[e].ref
         /\ eng'[e].mem = IF \E s \in S : e \in ListOf(s) THEN "freed" ELSE eng[e].mem

(* FreeStructs() takes S out of the table and frees its engines.            *)
LEMMA FreeEffect ==
    ASSUME Objects, Handles, table \in Seq(Structs), NEW S \in SUBSET Structs, FreeStructs(S)
    PROVE  Freed(S)
<1>1. /\ table' = Without(table, S)
      /\ \A s \in Structs : u'[s] = IF s \in S
                 THEN [u[s] EXCEPT !.mem = "freed", !.ref = 0,
                                   !.attached = <<>>, !.attaching = <<>>]
                 ELSE u[s]
      /\ \A e \in Engines : eng'[e] = IF \E s \in S : e \in ListOf(s)
                 THEN [eng[e] EXCEPT !.mem = "freed"] ELSE eng[e]
      /\ DOMAIN u' = Structs /\ DOMAIN eng' = Engines
      /\ u' = [s \in Structs |-> u'[s]] /\ eng' = [e \in Engines |-> eng'[e]]
  BY DEF FreeStructs
<1>2. /\ table' \in Seq(Structs) /\ ToSet(table') = ToSet(table) \ S
      /\ table # <<>> /\ Head(table) \notin S => table' # <<>> /\ Head(table') = Head(table)
  BY <1>1, WithoutFacts, WithoutHead, ZenonT(60)
<1>3. ASSUME NEW s \in Structs
      PROVE  /\ u'[s] \in StructRecord
             /\ u'[s].flags = u[s].flags /\ u'[s].resumeAdded = u[s].resumeAdded
             /\ u'[s].reportAdded = u[s].reportAdded
             /\ s \in S => /\ u'[s].mem = "freed" /\ u'[s].ref = 0
                           /\ u'[s].attached = <<>> /\ u'[s].attaching = <<>>
  <2>1. u[s] \in StructRecord /\ <<>> \in Seq(Engines)
    BY DEF Objects
  <2>2. CASE s \in S
    <3> DEFINE r == [u[s] EXCEPT !.mem = "freed", !.ref = 0,
                                 !.attached = <<>>, !.attaching = <<>>]
    <3>1. u'[s] = r
      BY <1>1, <2>2
    <3>2. r \in StructRecord
      <4>1. "freed" \in {"unused", "live", "freed"} /\ 0 \in Int
        OBVIOUS
      <4> QED
        BY <2>1, <4>1, StructEdited, Zenon
    <3>3. /\ r.flags = u[s].flags /\ r.resumeAdded = u[s].resumeAdded
          /\ r.reportAdded = u[s].reportAdded
          /\ r.mem = "freed" /\ r.ref = 0 /\ r.attached = <<>> /\ r.attaching = <<>>
      BY <2>1 DEF StructRecord
    <3> HIDE DEF r
    <3> QED
      BY <3>1, <3>2, <3>3
  <2>3. CASE s \notin S
    BY <1>1, <2>1, <2>3
  <2> QED
    BY <2>2, <2>3
<1>4. Objects'
  BY <1>1, <1>3 DEF Objects
<1>5. ASSUME NEW e \in Engines
      PROVE  /\ eng'[e] \in EngineRecord /\ eng'[e].ref = eng[e].ref
             /\ eng'[e].mem = IF \E s \in S : e \in ListOf(s) THEN "freed" ELSE eng[e].mem
  <2>1. eng[e] \in EngineRecord
    BY DEF Handles
  <2>2. CASE \E s \in S : e \in ListOf(s)
    <3> DEFINE r == [eng[e] EXCEPT !.mem = "freed"]
    <3>1. eng'[e] = r
      BY <1>1, <2>2
    <3>2. r \in EngineRecord /\ r.mem = "freed" /\ r.ref = eng[e].ref
      BY <2>1 DEF EngineRecord
    <3> HIDE DEF r
    <3> QED
      BY <2>2, <3>1, <3>2
  <2>3. CASE ~\E s \in S : e \in ListOf(s)
    BY <1>1, <2>1, <2>3
  <2> QED
    BY <2>2, <2>3
<1>6. Handles'
  BY <1>1, <1>5 DEF Handles
<1>7. \A s \in S : ListOf(s)' = {}
  <2>1. ASSUME NEW s \in S PROVE ListOf(s)' = {}
    <3>1. u'[s].attached = <<>> /\ u'[s].attaching = <<>>
      BY <1>3
    <3> QED
      BY <3>1, ToSetParts DEF ListOf
  <2> QED
    BY <2>1
<1>8. \A s \in Structs \ S : u'[s] = u[s]
  BY <1>1
<1>9. SameAdded
  BY <1>3 DEF SameAdded
<1> QED
  BY <1>2, <1>3, <1>4, <1>5, <1>6, <1>7, <1>8, <1>9 DEF Freed

(* utrace_task_alloc() puts a new struct at the head of the table, or fails. *)
Made(p, s) ==
    /\ u[s].mem = "unused" /\ Objects'
    /\ u'[s].mem = "live" /\ u'[s].ref = 1 /\ u'[s].flags = {} /\ ListOf(s)' = {}
    /\ ~u'[s].resumeAdded /\ ~u'[s].reportAdded
    /\ \A t \in Structs : t # s => u'[t] = u[t]
    /\ table' \in Seq(Structs) /\ table' # <<>> /\ Head(table') = s
    /\ ToSet(table') = ToSet(table) \cup {s}
    /\ \E c : /\ NewCall(p, c) /\ SameCall(p, c) /\ c.s = s /\ c.found = at[p].found
              /\ c.rc = at[p].rc /\ c.e = at[p].e /\ c.k = at[p].k

(* The new struct is the head of the table.                                 *)
LEMMA PrependedTable ==
    ASSUME table \in Seq(Structs), NEW s \in Structs, table' = <<s>> \o table
    PROVE  /\ table' \in Seq(Structs) /\ table' # <<>> /\ Head(table') = s
           /\ ToSet(table') = ToSet(table) \cup {s}
<1> DEFINE t == <<s>>
<1>1. t \in Seq(Structs) /\ Len(t) = 1 /\ t[1] = s /\ table' = t \o table
  OBVIOUS
<1>2. ToSet(t) = {s}
  <2> HIDE DEF t
  <2>1. \A x : x \in ToSet(t) <=> \E i \in 1..Len(t) : x = t[i]
    BY <1>1, ToSetIs
  <2> QED
    BY <1>1, <2>1
<1>3. ToSet(table') = ToSet(t) \cup ToSet(table)
  <2> HIDE DEF t
  <2> QED
    BY <1>1, ToSetParts
<1>4. table' \in Seq(Structs) /\ table' # <<>> /\ Head(table') = s
  OBVIOUS
<1> QED
  BY <1>2, <1>3, <1>4

(* A struct with another memory state and count is a struct.                *)
LEMMA StructMade ==
    ASSUME NEW r \in StructRecord, NEW m \in {"unused", "live", "freed"}, NEW n \in Int
    PROVE  [r EXCEPT !.mem = m, !.ref = n] \in StructRecord
BY DEF StructRecord

(* The fields of a struct that was never allocated.                         *)
LEMMA FreshRecord ==
    /\ FreshStruct \in StructRecord
    /\ FreshStruct.flags = {} /\ FreshStruct.attached = <<>> /\ FreshStruct.attaching = <<>>
    /\ FreshStruct.mem = "unused" /\ FreshStruct.ref = 0
    /\ ~FreshStruct.resumeAdded /\ ~FreshStruct.reportAdded
<1>1. <<>> \in Seq(Engines)
  OBVIOUS
<1> QED
  BY <1>1 DEF FreshStruct, StructRecord

(* utrace_task_alloc() makes one struct, or fails with ENOMEM.              *)
LEMMA AllocEffect ==
    ASSUME Calls, Objects, table \in Seq(Structs), NEW p \in Procs, utrace_task_alloc(p)
    PROVE  \/ \E s \in Structs : Made(p, s) /\ Goto(p, "att_eng") /\ UNCHANGED fails
           \/ /\ UNCHANGED <<u, table>> /\ Goto(p, at[p].ret) /\ fails' = fails + 1
              /\ \E c : NewCall(p, c) /\ Idle(c) /\ c.rc = "ENOMEM"
<1>1. ASSUME NEW s \in Structs, u[s].mem = "unused",
             u' = [u EXCEPT ![s] = [FreshStruct EXCEPT !.mem = "live", !.ref = 1]],
             table' = <<s>> \o table, at' = [at EXCEPT ![p].s = s]
      PROVE  Made(p, s)
  <2> DEFINE r == [FreshStruct EXCEPT !.mem = "live", !.ref = 1]
  <2>3. r \in StructRecord
    <3>1. "live" \in {"unused", "live", "freed"} /\ 1 \in Int
      OBVIOUS
    <3> QED
      BY <3>1, FreshRecord, StructMade, Zenon
  <2>4. /\ r.mem = "live" /\ r.ref = 1 /\ r.flags = {} /\ r.attached = <<>>
        /\ r.attaching = <<>> /\ ~r.resumeAdded /\ ~r.reportAdded
    BY FreshRecord DEF StructRecord
  <2>5. u' = [u EXCEPT ![s] = r]
    BY <1>1
  <2> HIDE DEF r
  <2>6. Objects' /\ u'[s] = r /\ \A t \in Structs : t # s => u'[t] = u[t]
    BY <2>3, <2>5, StructReplaced
  <2>7. ListOf(s)' = {}
    BY <2>4, <2>6, ToSetParts DEF ListOf
  <2>8. /\ table' \in Seq(Structs) /\ table' # <<>> /\ Head(table') = s
        /\ ToSet(table') = ToSet(table) \cup {s}
    BY <1>1, PrependedTable, Zenon
  <2>9. \E c : /\ NewCall(p, c) /\ SameCall(p, c) /\ c.s = s /\ c.found = at[p].found
               /\ c.rc = at[p].rc /\ c.e = at[p].e /\ c.k = at[p].k
    <3>1. \E c : /\ NewCall(p, c) /\ SameCall(p, c)
                 /\ c.s = s /\ c.found = at[p].found /\ c.rc = at[p].rc
                 /\ c.e = at[p].e /\ c.k = at[p].k
      BY <1>1, CallMakes, Zenon
    <3> QED
      BY <3>1
  <2> QED
    BY <1>1, <2>4, <2>6, <2>7, <2>8, <2>9 DEF Made
<1>2. ASSUME Returned(p, "ENOMEM")
      PROVE  \E c : NewCall(p, c) /\ Idle(c) /\ c.rc = "ENOMEM"
  BY <1>2, ReturnEffect DEF ReturnCodes
<1> QED
  BY <1>1, <1>2, Zenon DEF utrace_task_alloc

-----------------------------------------------------------------------------

SameEngines == \A d \in Engines : eng'[d].mem = eng[d].mem /\ eng'[d].ref = eng[d].ref

(* A record put in the place of an engine.                                  *)
LEMMA EngineReplaced ==
    ASSUME Handles, NEW e \in Engines, NEW r \in EngineRecord, eng' = [eng EXCEPT ![e] = r]
    PROVE  /\ Handles' /\ eng'[e] = r
           /\ \A d \in Engines : d # e => eng'[d] = eng[d]
<1>1. /\ eng' \in [Engines -> EngineRecord] /\ eng'[e] = r
      /\ \A d \in Engines : d # e => eng'[d] = eng[d]
  BY Replaced DEF Handles
<1> QED
  BY <1>1 DEF Handles

(* utrace_add_engine() queues a new engine with two references, or fails.    *)
Queued(p, s, e) ==
    /\ eng[e].mem = "unused" /\ Handles' /\ eng'[e].mem = "live" /\ eng'[e].ref = 2
    /\ \A d \in Engines : d # e => eng'[d] = eng[d]
    /\ Objects' /\ SameRefs /\ SameAdded
    /\ \A t \in Structs :
         /\ u'[t].mem = u[t].mem /\ u'[t].attached = u[t].attached
         /\ t # s => u'[t].flags = u[t].flags /\ u'[t].attaching = u[t].attaching
    /\ u'[s].flags # {} /\ ListOf(s)' = ListOf(s) \cup {e}
    /\ \E c : /\ NewCall(p, c) /\ SameCall(p, c) /\ c.s = s /\ c.found = FALSE
              /\ c.rc = at[p].rc /\ c.e = e /\ c.k = "ev_get"

(* utrace_add_engine() queues one new engine, or fails.                     *)
LEMMA AddEffect ==
    ASSUME Calls, Objects, Handles, NEW p \in Procs, NEW s \in Structs, at[p].s = s,
           utrace_add_engine(p)
    PROVE  \/ \E e \in Engines :
                /\ Queued(p, s, e) /\ Goto(p, IF at[p].found THEN "put" ELSE "ev_get")
                /\ u[s].flags # {} \/ tk.exit # "dead"
                /\ UNCHANGED fails
           \/ /\ UNCHANGED <<u, eng>> /\ Goto(p, "put") /\ fails' \in {fails, fails + 1}
              /\ \E c : /\ NewCall(p, c) /\ SameCall(p, c) /\ c.s = s
                        /\ c.found = at[p].found /\ c.e = at[p].e /\ c.k = "att_fail"
                        /\ c.rc = "ENOMEM" \/ (c.rc = "ESRCH" /\ tk.exit = "dead")
<1>0. at[p] \in CallRecord /\ u[s] \in StructRecord
  BY DEF Calls, Objects
<1>1. ASSUME NEW e \in Engines, eng[e].mem = "unused",
             eng' = [eng EXCEPT ![e] = [mem |-> "live", ref |-> 2,
                                        ops |-> at[p].ops, flags |-> {}]],
             u' = [u EXCEPT ![s].attaching = Append(@, e), ![s].pending = TRUE,
                            ![s].flags = IF @ = {} THEN {"REAP"} ELSE @],
             at' = [at EXCEPT ![p].e = e, ![p].found = FALSE, ![p].k = "ev_get"]
      PROVE  Queued(p, s, e)
  <2>1. Handles' /\ eng'[e].mem = "live" /\ eng'[e].ref = 2
        /\ \A d \in Engines : d # e => eng'[d] = eng[d]
    <3> DEFINE r == [mem |-> "live", ref |-> 2, ops |-> at[p].ops, flags |-> {}]
    <3>1. at[p].ops \in OpsValues
      BY <1>0 DEF CallRecord
    <3>2. r \in EngineRecord /\ r.mem = "live" /\ r.ref = 2
      BY <3>1 DEF EngineRecord
    <3>3. eng' = [eng EXCEPT ![e] = r]
      BY <1>1
    <3> HIDE DEF r
    <3> QED
      BY <3>2, <3>3, EngineReplaced
  <2> DEFINE a == Append(u[s].attaching, e)
             f == IF u[s].flags = {} THEN {"REAP"} ELSE u[s].flags
             r == [u[s] EXCEPT !.attaching = a, !.pending = TRUE, !.flags = f]
  <2>2. /\ u[s].attaching \in Seq(Engines) /\ u[s].attached \in Seq(Engines)
        /\ u[s].flags \in SUBSET EventBits
    BY <1>0 DEF StructRecord
  <2>3. a \in Seq(Engines) /\ f \in SUBSET EventBits /\ f # {}
    <3>1. {"REAP"} \in SUBSET EventBits /\ {"REAP"} # {}
      BY DEF EventBits
    <3>2. f \in SUBSET EventBits /\ f # {}
      BY <2>2, <3>1, Zenon
    <3> QED
      BY <2>2, <3>2
  <2>4. u' = [u EXCEPT ![s] = r]
    BY <1>1 DEF Objects
  <2>5. ToSet(a) = ToSet(u[s].attaching) \cup {e}
    BY <2>2, ToSetParts
  <2> HIDE DEF a, f
  <2>6. r \in StructRecord
    BY <1>0, <2>3 DEF StructRecord
  <2>7. /\ r.mem = u[s].mem /\ r.ref = u[s].ref /\ r.attached = u[s].attached
        /\ r.attaching = a /\ r.flags = f
        /\ r.resumeAdded = u[s].resumeAdded /\ r.reportAdded = u[s].reportAdded
    BY <1>0 DEF StructRecord
  <2> HIDE DEF r
  <2>9. Objects' /\ u'[s] = r /\ \A t \in Structs : t # s => u'[t] = u[t]
    BY <2>4, <2>6, StructReplaced
  <2>10. SameRefs /\ SameAdded
    BY <2>7, <2>9 DEF SameRefs, SameAdded
  <2>11. ListOf(s)' = ListOf(s) \cup {e}
    <3>1. ListOf(s)' = ToSet(u[s].attached) \cup ToSet(a)
      BY <2>7, <2>9 DEF ListOf
    <3> QED
      BY <2>5, <3>1 DEF ListOf
  <2>12. \A t \in Structs :
         /\ u'[t].mem = u[t].mem /\ u'[t].attached = u[t].attached
         /\ t # s => u'[t].flags = u[t].flags /\ u'[t].attaching = u[t].attaching
    BY <2>7, <2>9
  <2>13. \E c : /\ NewCall(p, c) /\ SameCall(p, c) /\ c.s = s /\ c.found = FALSE
                /\ c.rc = at[p].rc /\ c.e = e /\ c.k = "ev_get"
    <3> DEFINE c == [at[p] EXCEPT !.e = e, !.found = FALSE, !.k = "ev_get"]
    <3>1. "ev_get" \in Labels
      BY LabelsHave DEF CallLabels
    <3>2. c \in CallRecord
      BY <1>0, <3>1 DEF CallRecord
    <3>3. /\ SameCall(p, c) /\ c.s = s /\ c.found = FALSE
          /\ c.rc = at[p].rc /\ c.e = e /\ c.k = "ev_get"
      BY <1>0 DEF CallRecord, SameCall
    <3>4. at' = [at EXCEPT ![p] = c]
      BY <1>1 DEF Calls
    <3> HIDE DEF c
    <3> QED
      BY <3>2, <3>3, <3>4, CallReplaced
  <2>14. u'[s].flags # {}
    BY <2>3, <2>7, <2>9
  <2> QED
    BY <1>1, <2>1, <2>9, <2>10, <2>11, <2>12, <2>13, <2>14 DEF Queued
<1>2. ASSUME NEW rc \in ReturnCodes, at' = [at EXCEPT ![p].rc = rc, ![p].k = "att_fail"]
      PROVE  \E c : /\ NewCall(p, c) /\ SameCall(p, c) /\ c.s = s
                    /\ c.found = at[p].found /\ c.e = at[p].e /\ c.k = "att_fail" /\ c.rc = rc
  <2>1. "att_fail" \in Labels
    BY LabelsHave DEF CallLabels
  <2>2. \E c : /\ NewCall(p, c) /\ SameCall(p, c)
               /\ c.s = at[p].s /\ c.found = at[p].found /\ c.rc = rc
               /\ c.e = at[p].e /\ c.k = "att_fail"
    BY <1>2, <2>1, CallFails, Zenon
  <2> QED
    BY <2>2
<1>3. "ENOMEM" \in ReturnCodes /\ "ESRCH" \in ReturnCodes
  BY DEF ReturnCodes
<1>4. CASE \E e \in Engines :
            /\ eng[e].mem = "unused"
            /\ IF u[s].flags = {} /\ tk.exit = "dead"
               THEN /\ at' = [at EXCEPT ![p].rc = "ESRCH", ![p].k = "att_fail"]
                    /\ Goto(p, "put")
                    /\ UNCHANGED <<u, eng>>
               ELSE /\ eng' = [eng EXCEPT ![e] = [mem |-> "live", ref |-> 2,
                                                  ops |-> at[p].ops, flags |-> {}]]
                    /\ u' = [u EXCEPT ![s].attaching = Append(@, e), ![s].pending = TRUE,
                                      ![s].flags = IF @ = {} THEN {"REAP"} ELSE @]
                    /\ at' = [at EXCEPT ![p].e = e, ![p].found = FALSE, ![p].k = "ev_get"]
                    /\ Goto(p, IF at[p].found THEN "put" ELSE "ev_get")
            /\ UNCHANGED fails
  <2>1. CASE u[s].flags = {} /\ tk.exit = "dead"
    <3>1. /\ at' = [at EXCEPT ![p].rc = "ESRCH", ![p].k = "att_fail"]
          /\ Goto(p, "put") /\ UNCHANGED <<u, eng>> /\ UNCHANGED fails
      BY <1>4, <2>1, Zenon
    <3>2. \E c : /\ NewCall(p, c) /\ SameCall(p, c) /\ c.s = s
                 /\ c.found = at[p].found /\ c.e = at[p].e /\ c.k = "att_fail" /\ c.rc = "ESRCH"
      BY <1>2, <1>3, <3>1, Zenon
    <3> QED
      BY <2>1, <3>1, <3>2
  <2>2. CASE ~(u[s].flags = {} /\ tk.exit = "dead")
    <3>1. \E e \in Engines : /\ Queued(p, s, e) /\ UNCHANGED fails
                             /\ Goto(p, IF at[p].found THEN "put" ELSE "ev_get")
      BY <1>1, <1>4, <2>2, Zenon
    <3> QED
      BY <2>2, <3>1
  <2> QED
    BY <2>1, <2>2
<1>5. CASE /\ at' = [at EXCEPT ![p].rc = "ENOMEM", ![p].k = "att_fail"]
           /\ Goto(p, "put") /\ UNCHANGED <<u, eng>> /\ fails' = fails + 1
  <2>1. \E c : /\ NewCall(p, c) /\ SameCall(p, c) /\ c.s = s
               /\ c.found = at[p].found /\ c.e = at[p].e /\ c.k = "att_fail" /\ c.rc = "ENOMEM"
    BY <1>2, <1>3, <1>5, Zenon
  <2> QED
    BY <1>5, <2>1
<1> QED
  BY <1>4, <1>5, Zenon DEF utrace_add_engine

(* utrace_set_events() adds to the flags of the struct; a freed engine is the
   end of it.                                                               *)
EventsSet(p, s) ==
    /\ Objects' /\ Handles' /\ SameEngines /\ SameRefs /\ SameAdded
    /\ \A t \in Structs :
         /\ u'[t].mem = u[t].mem /\ u'[t].attached = u[t].attached
         /\ u'[t].attaching = u[t].attaching /\ u[t].flags \subseteq u'[t].flags
         /\ t # s => u'[t].flags = u[t].flags
    /\ \E c : /\ NewCall(p, c) /\ SameCall(p, c) /\ c.s = s /\ c.found = at[p].found
              /\ c.e = at[p].e /\ c.rc \in {"0", "ESRCH", "EALREADY"}
              /\ \/ at[p].act = "NONE" /\ c.k = at[p].ret
                 \/ at[p].act # "NONE" /\ c.k \in {"ctl_get", "eng_put"}

(* utrace_set_events() edits flags only, or met a freed engine.             *)
LEMMA SetEventsEffect ==
    ASSUME Calls, Objects, Handles, NEW p \in Procs, NEW s \in Structs, at[p].s = s,
           at[p].e \in Engines, utrace_set_events(p)
    PROVE  \/ Goto(p, "oops") /\ UNCHANGED <<u, eng, at>>
           \/ EventsSet(p, s) /\ Goto(p, "put")
<1> DEFINE e == at[p].e
           new == at[p].ev \ eng[e].flags
           rc == IF ~Attached(e) THEN "ESRCH"
                 ELSE IF tk.exit # "none" /\ new \cap {"DEATH", "QUIESCE"} # {} THEN "EALREADY"
                 ELSE "0"
           k == IF at[p].act = "NONE" THEN at[p].ret
                ELSE IF rc = "0" /\ at[p].act = "INTERRUPT" THEN "ctl_get" ELSE "eng_put"
<1>1. \/ Goto(p, "oops") /\ UNCHANGED <<u, eng, at>>
      \/ /\ \/ /\ eng' = [eng EXCEPT ![e].flags = at[p].ev]
               /\ u' = [u EXCEPT ![s].flags = u[s].flags \cup at[p].ev]
            \/ UNCHANGED <<eng, u>>
         /\ at' = [at EXCEPT ![p].rc = rc, ![p].k = k]
         /\ Goto(p, "put")
  BY DEF utrace_set_events, Objects
<1>2. at[p] \in CallRecord /\ u[s] \in StructRecord /\ eng[e] \in EngineRecord
  BY DEF Calls, Objects, Handles
<1>3. at[p].ev \in SUBSET EventBits /\ at[p].ret \in Labels
  BY <1>2 DEF CallRecord
<1>4. "ctl_get" \in Labels /\ "eng_put" \in Labels
  BY LabelsHave DEF CallLabels
<1>5. /\ k \in Labels /\ rc \in ReturnCodes /\ rc \in {"0", "ESRCH", "EALREADY"}
      /\ \/ at[p].act = "NONE" /\ k = at[p].ret
         \/ at[p].act # "NONE" /\ k \in {"ctl_get", "eng_put"}
  BY <1>3, <1>4 DEF ReturnCodes
<1> HIDE DEF k, rc, new
<1>6. CASE Goto(p, "oops") /\ UNCHANGED <<u, eng, at>>
  BY <1>6
<1>7. CASE /\ \/ /\ eng' = [eng EXCEPT ![e].flags = at[p].ev]
                 /\ u' = [u EXCEPT ![s].flags = u[s].flags \cup at[p].ev]
              \/ UNCHANGED <<eng, u>>
           /\ at' = [at EXCEPT ![p].rc = rc, ![p].k = k]
           /\ Goto(p, "put")
  <2>1. \E c : /\ NewCall(p, c) /\ SameCall(p, c)
               /\ c.s = at[p].s /\ c.found = at[p].found /\ c.rc = rc
               /\ c.e = at[p].e /\ c.k = k
    BY <1>5, <1>7, CallFails, Zenon
  <2>2. CASE UNCHANGED <<eng, u>>
    BY <1>5, <1>7, <2>1, <2>2 DEF EventsSet, SameEngines, SameRefs, SameAdded, Objects, Handles
  <2>3. CASE /\ eng' = [eng EXCEPT ![e].flags = at[p].ev]
             /\ u' = [u EXCEPT ![s].flags = u[s].flags \cup at[p].ev]
    <3> DEFINE r == [eng[e] EXCEPT !.flags = at[p].ev]
               f == u[s].flags \cup at[p].ev
               v == [u[s] EXCEPT !.flags = f]
    <3>1. r \in EngineRecord /\ r.mem = eng[e].mem /\ r.ref = eng[e].ref
      BY <1>2, <1>3 DEF EngineRecord
    <3>2. eng' = [eng EXCEPT ![e] = r]
      BY <2>3 DEF Handles
    <3>3. u[s].flags \in SUBSET EventBits
      BY <1>2 DEF StructRecord
    <3>4. f \in SUBSET EventBits /\ u[s].flags \subseteq f
      BY <1>3, <3>3
    <3>5. u' = [u EXCEPT ![s] = v]
      BY <2>3 DEF Objects
    <3> HIDE DEF r, f
    <3>6. v \in StructRecord
      BY <1>2, <3>4 DEF StructRecord
    <3>7. /\ v.mem = u[s].mem /\ v.ref = u[s].ref /\ v.flags = f
          /\ v.attached = u[s].attached /\ v.attaching = u[s].attaching
          /\ v.resumeAdded = u[s].resumeAdded /\ v.reportAdded = u[s].reportAdded
      BY <1>2 DEF StructRecord
    <3> HIDE DEF v, e
    <3>8. Handles' /\ eng'[e] = r /\ \A d \in Engines : d # e => eng'[d] = eng[d]
      BY <3>1, <3>2, EngineReplaced DEF e
    <3>9. Objects' /\ u'[s] = v /\ \A t \in Structs : t # s => u'[t] = u[t]
      BY <3>5, <3>6, StructReplaced
    <3>10. SameEngines
      BY <3>1, <3>8 DEF SameEngines
    <3>11. SameRefs /\ SameAdded
      BY <3>7, <3>9 DEF SameRefs, SameAdded
    <3>12. \A t \in Structs :
         /\ u'[t].mem = u[t].mem /\ u'[t].attached = u[t].attached
         /\ u'[t].attaching = u[t].attaching /\ u[t].flags \subseteq u'[t].flags
         /\ t # s => u'[t].flags = u[t].flags
      BY <3>4, <3>7, <3>9
    <3> QED
      BY <1>5, <1>7, <2>1, <3>8, <3>9, <3>10, <3>11, <3>12 DEF EventsSet
  <2> QED
    BY <1>7, <2>2, <2>3
<1> QED
  BY <1>1, <1>6, <1>7

(* stp_task_notify_resume() counts the work it queues.                      *)
Notified(s) ==
    /\ Objects' /\ Unmoved /\ Counts(s, 1)
    /\ ~u[s].resumeAdded
    /\ \A t \in Structs :
         /\ u'[t].resumeAdded = (t = s \/ u[t].resumeAdded)
         /\ u'[t].reportAdded = u[t].reportAdded
    /\ works' = works \cup {Resume(s)}

(* stp_task_notify_resume() marks the struct and counts it once more.       *)
LEMMA NotifyRecord ==
    ASSUME NEW r \in StructRecord
    PROVE  LET v == stp_task_notify_resume(r)
           IN  /\ v \in StructRecord
               /\ v.mem = r.mem /\ v.flags = r.flags /\ v.attached = r.attached
               /\ v.attaching = r.attaching /\ v.ref = r.ref + 1
               /\ v.resumeAdded = TRUE /\ v.reportAdded = r.reportAdded
<1> DEFINE v == [r EXCEPT !.resumeAdded = TRUE, !.ref = r.ref + 1]
<1>1. r.ref + 1 \in Int
  BY DEF StructRecord
<1>2. v \in StructRecord
  BY <1>1 DEF StructRecord
<1>3. /\ v.mem = r.mem /\ v.flags = r.flags /\ v.attached = r.attached
      /\ v.attaching = r.attaching /\ v.ref = r.ref + 1
      /\ v.resumeAdded = TRUE /\ v.reportAdded = r.reportAdded
  BY DEF StructRecord
<1>4. v = stp_task_notify_resume(r)
  BY DEF stp_task_notify_resume
<1> HIDE DEF v
<1> QED
  BY <1>2, <1>3, <1>4

(* The same, on the struct of the function, with its work queued.           *)
LEMMA NotifyEffect ==
    ASSUME Objects, NEW s \in Structs, NEW r \in StructRecord, ~u[s].resumeAdded,
           r.mem = u[s].mem, r.flags = u[s].flags, r.attached = u[s].attached,
           r.attaching = u[s].attaching, r.ref = u[s].ref, r.resumeAdded = u[s].resumeAdded,
           r.reportAdded = u[s].reportAdded,
           u' = [u EXCEPT ![s] = stp_task_notify_resume(r)], works' = works \cup {Resume(s)}
    PROVE  Notified(s)
<1> DEFINE v == stp_task_notify_resume(r)
<1>1. /\ v \in StructRecord
      /\ v.mem = r.mem /\ v.flags = r.flags /\ v.attached = r.attached
      /\ v.attaching = r.attaching /\ v.ref = r.ref + 1
      /\ v.resumeAdded = TRUE /\ v.reportAdded = r.reportAdded
  BY NotifyRecord
<1>2. u' = [u EXCEPT ![s] = v]
  OBVIOUS
<1>3. \A t \in Structs : u[t].resumeAdded \in BOOLEAN
  <2>1. ASSUME NEW t \in Structs PROVE u[t].resumeAdded \in BOOLEAN
    <3>1. u[t] \in StructRecord
      BY DEF Objects
    <3> QED
      BY <3>1 DEF StructRecord
  <2> QED
    BY <2>1
<1> HIDE DEF v
<1>4. Objects' /\ u'[s] = v /\ \A t \in Structs : t # s => u'[t] = u[t]
  BY <1>1, <1>2, StructReplaced
<1>5. Unmoved /\ Counts(s, 1)
  BY <1>1, <1>4 DEF Unmoved, Counts
<1>6. \A t \in Structs :
         /\ u'[t].resumeAdded = (t = s \/ u[t].resumeAdded)
         /\ u'[t].reportAdded = u[t].reportAdded
  BY <1>1, <1>3, <1>4
<1> QED
  BY <1>4, <1>5, <1>6 DEF Notified

(* utrace_control() queues the resume work, or leaves what is counted alone. *)
LEMMA ControlEffect ==
    ASSUME Calls, Objects, NEW p \in Procs, NEW s \in Structs, at[p].s = s, utrace_control(p)
    PROVE  \/ Goto(p, "oops") /\ UNCHANGED <<u, works, at>>
           \/ /\ \E c : /\ NewCall(p, c) /\ SameCall(p, c) /\ c.s = s
                        /\ c.found = at[p].found /\ c.e = at[p].e /\ c.rc = "0" /\ c.k = "eng_put"
              /\ \/ /\ Goto(p, "put") /\ UNCHANGED works
                    /\ Objects' /\ Unmoved /\ SameRefs /\ SameAdded
                 \/ Goto(p, "ctl_count") /\ Notified(s) /\ tk.exit = "none" /\ ~tk.workExited
<1> DEFINE v == [u[s] EXCEPT !.resume = "INTERRUPT"]
           interrupt == [u EXCEPT ![s] = v]
<1>1. \/ Goto(p, "oops") /\ UNCHANGED <<u, works, at>>
      \/ /\ at' = [at EXCEPT ![p].rc = "0", ![p].k = "eng_put"]
         /\ \/ Goto(p, "put") /\ UNCHANGED <<u, works>>
            \/ u' = interrupt /\ Goto(p, "put") /\ UNCHANGED works
            \/ /\ u' = [interrupt EXCEPT ![s] = stp_task_notify_resume(@)]
               /\ works' = works \cup {Resume(s)} /\ Goto(p, "ctl_count")
               /\ tk.exit = "none" /\ ~tk.workExited /\ ~u[s].resumeAdded
  <2>1. interrupt = [u EXCEPT ![s].resume = "INTERRUPT"]
    BY DEF Objects
  <2> HIDE DEF interrupt
  <2> QED
    BY <2>1, Zenon DEF utrace_control
<1>2. u[s] \in StructRecord
  BY DEF Objects
<1>3. v \in StructRecord
  BY <1>2 DEF StructRecord
<1>4. /\ v.mem = u[s].mem /\ v.ref = u[s].ref /\ v.flags = u[s].flags
      /\ v.attached = u[s].attached /\ v.attaching = u[s].attaching
      /\ v.resumeAdded = u[s].resumeAdded /\ v.reportAdded = u[s].reportAdded
  BY <1>2 DEF StructRecord
<1>5. [interrupt EXCEPT ![s] = stp_task_notify_resume(@)]
        = [u EXCEPT ![s] = stp_task_notify_resume(v)]
  <2> HIDE DEF v
  <2> QED
    BY DEF Objects
<1> HIDE DEF v
<1>6. ASSUME at' = [at EXCEPT ![p].rc = "0", ![p].k = "eng_put"]
      PROVE  \E c : /\ NewCall(p, c) /\ SameCall(p, c)
                    /\ c.s = at[p].s /\ c.found = at[p].found /\ c.rc = "0"
                    /\ c.e = at[p].e /\ c.k = "eng_put"
  <2>1. "eng_put" \in Labels /\ "0" \in ReturnCodes
    BY LabelsHave DEF CallLabels, ReturnCodes
  <2> QED
    BY <1>6, <2>1, CallFails, Zenon
<1>7. ASSUME UNCHANGED u
      PROVE  Objects' /\ Unmoved /\ SameRefs /\ SameAdded
  BY <1>7 DEF Objects, Unmoved, SameRefs, SameAdded
<1>8. ASSUME u' = interrupt
      PROVE  Objects' /\ Unmoved /\ SameRefs /\ SameAdded
  <2>1. Objects' /\ u'[s] = v /\ \A t \in Structs : t # s => u'[t] = u[t]
    BY <1>3, <1>8, StructReplaced
  <2> QED
    BY <1>4, <2>1 DEF Unmoved, SameRefs, SameAdded
<1>9. ASSUME u' = [interrupt EXCEPT ![s] = stp_task_notify_resume(@)],
             works' = works \cup {Resume(s)}, ~u[s].resumeAdded
      PROVE  Notified(s)
  <2>1. u' = [u EXCEPT ![s] = stp_task_notify_resume(v)]
    BY <1>5, <1>9
  <2> QED
    BY <1>3, <1>4, <1>9, <2>1, NotifyEffect, Zenon
<1> HIDE DEF interrupt
<1> QED
  BY <1>1, <1>6, <1>7, <1>8, <1>9

-----------------------------------------------------------------------------

(* The call of p goes on at k, its struct being s.                          *)
LEMMA CallGoes ==
    ASSUME Calls, NEW s \in Structs, NEW k \in Labels,
           at' = [at EXCEPT !["task"].s = s, !["task"].k = k]
    PROVE  \E c : /\ NewCall("task", c) /\ SameCall("task", c) /\ c.s = s
                  /\ c.found = at["task"].found /\ c.rc = at["task"].rc
                  /\ c.e = at["task"].e /\ c.k = k
<1> DEFINE c == [at["task"] EXCEPT !.s = s, !.k = k]
<1>0. "task" \in Procs
  BY DEF Procs
<1>1. at["task"] \in CallRecord
  BY <1>0 DEF Calls
<1>2. /\ c \in CallRecord /\ SameCall("task", c) /\ c.s = s /\ c.found = at["task"].found
      /\ c.rc = at["task"].rc /\ c.e = at["task"].e /\ c.k = k
  BY <1>1 DEF CallRecord, SameCall
<1>3. at' = [at EXCEPT !["task"] = c]
  BY <1>0 DEF Calls
<1> HIDE DEF c
<1> QED
  BY <1>0, <1>2, <1>3, CallReplaced

(* The task is about to put s and to go on at k.                            *)
LEMMA TaskPuts ==
    ASSUME Calls, NEW s \in Structs, NEW k \in Labels,
           at' = [at EXCEPT !["task"].s = s, !["task"].k = k]
    PROVE  \E c : NewCall("task", c) /\ c.s = s /\ c.k = k
<1> DEFINE c == [at["task"] EXCEPT !.s = s, !.k = k]
<1>0. "task" \in Procs
  BY DEF Procs
<1>1. at["task"] \in CallRecord
  BY <1>0 DEF Calls
<1>2. c \in CallRecord /\ c.s = s /\ c.k = k
  BY <1>1 DEF CallRecord
<1>3. at' = [at EXCEPT !["task"] = c]
  BY <1>0 DEF Calls
<1> HIDE DEF c
<1> QED
  BY <1>0, <1>2, <1>3, CallReplaced

(* A call is about to put its struct and to go on at k.                     *)
LEMMA CallPutsNext ==
    ASSUME Calls, NEW p \in Procs, NEW k \in Labels, at' = [at EXCEPT ![p].k = k]
    PROVE  \E c : /\ NewCall(p, c) /\ SameCall(p, c) /\ c.s = at[p].s /\ c.found = at[p].found
                  /\ c.rc = at[p].rc /\ c.e = at[p].e /\ c.k = k
<1> DEFINE c == [at[p] EXCEPT !.k = k]
<1>1. at[p] \in CallRecord
  BY DEF Calls
<1>2. /\ c \in CallRecord /\ SameCall(p, c) /\ c.s = at[p].s /\ c.found = at[p].found
      /\ c.rc = at[p].rc /\ c.e = at[p].e /\ c.k = k
  BY <1>1 DEF CallRecord, SameCall
<1>3. at' = [at EXCEPT ![p] = c]
  BY DEF Calls
<1> HIDE DEF c
<1> QED
  BY <1>2, <1>3, CallReplaced

(* utrace_engine_put()                                                      *)
Dropped(G) ==
    /\ Handles'
    /\ \A d \in Engines :
         /\ eng'[d].ref = IF d \in G THEN eng[d].ref - 1 ELSE eng[d].ref
         /\ eng'[d].mem = IF d \in G /\ eng[d].ref = 1 THEN "freed" ELSE eng[d].mem

(* utrace_engine_put() frees the engine at its last reference.              *)
LEMMA DroppedRecord ==
    ASSUME Handles, NEW e \in Engines
    PROVE  /\ DropRef(e)[e] \in EngineRecord
           /\ DropRef(e)[e].ref = eng[e].ref - 1
           /\ DropRef(e)[e].mem = IF eng[e].ref = 1 THEN "freed" ELSE eng[e].mem
           /\ DropRef(e) = [eng EXCEPT ![e] = DropRef(e)[e]]
<1> DEFINE m == IF eng[e].ref = 1 THEN "freed" ELSE eng[e].mem
           n == eng[e].ref - 1
           r == [eng[e] EXCEPT !.ref = n, !.mem = m]
<1>1. eng[e] \in EngineRecord
  BY DEF Handles
<1>2. m \in {"unused", "live", "freed"} /\ n \in Int
  BY <1>1 DEF EngineRecord
<1>3. DropRef(e) = [eng EXCEPT ![e] = r]
  BY DEF DropRef, Handles
<1> HIDE DEF m, n
<1>4. r \in EngineRecord /\ r.ref = n /\ r.mem = m
  BY <1>1, <1>2 DEF EngineRecord
<1> HIDE DEF r
<1>5. DropRef(e)[e] = r
  BY <1>3 DEF Handles
<1> QED
  BY <1>3, <1>4, <1>5 DEF m, n

(* The end of a call: the reference on its engine is dropped.               *)
LEMMA EnginePutEffect ==
    ASSUME Calls, Handles, NEW p \in Procs, NEW e \in Engines, at[p].e = e, EnginePut(p)
    PROVE  \/ Goto(p, "oops") /\ UNCHANGED <<eng, at>>
           \/ /\ eng[e].mem # "freed" /\ Dropped({e}) /\ Goto(p, at[p].ret)
              /\ \E c : NewCall(p, c) /\ Idle(c) /\ c.rc = at[p].rc
<1>1. \/ Goto(p, "oops") /\ UNCHANGED <<eng, at>>
      \/ /\ eng[e].mem # "freed" /\ eng' = DropRef(e) /\ Returned(p, at[p].rc)
         /\ Goto(p, at[p].ret)
  BY DEF EnginePut
<1>2. ASSUME eng' = DropRef(e) PROVE Dropped({e})
  <2>1. Handles' /\ eng'[e] = DropRef(e)[e] /\ \A d \in Engines : d # e => eng'[d] = eng[d]
    <3> DEFINE r == DropRef(e)[e]
    <3>1. r \in EngineRecord /\ eng' = [eng EXCEPT ![e] = r]
      BY <1>2, DroppedRecord
    <3> HIDE DEF r
    <3>2. Handles' /\ eng'[e] = r /\ \A d \in Engines : d # e => eng'[d] = eng[d]
      BY <3>1, EngineReplaced
    <3> QED
      BY <3>2 DEF r
  <2> QED
    BY <2>1, DroppedRecord DEF Dropped
<1>3. at[p].rc \in ReturnCodes
  <2>1. at[p] \in CallRecord
    BY DEF Calls
  <2> QED
    BY <2>1 DEF CallRecord
<1>4. ASSUME Returned(p, at[p].rc) PROVE \E c : NewCall(p, c) /\ Idle(c) /\ c.rc = at[p].rc
  BY <1>3, <1>4, ReturnEffect
<1> QED
  BY <1>1, <1>2, <1>4

(* find_matching_engine() takes a reference on an engine of the struct.      *)
LEMMA FindEffect ==
    ASSUME Calls, Objects, Handles, NEW s \in Structs, at["stap"].s = s, find_matching_engine
    PROVE  \/ /\ UNCHANGED eng
              /\ \E c : /\ NewCall("stap", c) /\ SameCall("stap", c) /\ c.s = s
                        /\ c.found = at["stap"].found /\ c.rc = at["stap"].rc
                        /\ c.e = at["stap"].e /\ c.k = "running"
           \/ \E e \in ListOf(s) :
              /\ e \in Engines /\ Handles'
              /\ \A d \in Engines : /\ eng'[d].mem = eng[d].mem
                                    /\ eng'[d].ref = IF d = e THEN eng[d].ref + 1 ELSE eng[d].ref
              /\ \E c : /\ NewCall("stap", c) /\ c.s = s /\ c.e = e /\ c.act = "INTERRUPT"
                        /\ c.k = "ctl_get" /\ c.ret = "running" /\ c.rc = "0" /\ ~c.found
<1>0. u[s] \in StructRecord /\ "stap" \in Procs
  BY DEF Objects, Procs
<1>l. "running" \in Labels /\ "ctl_get" \in Labels
  BY LabelsHave DEF CallLabels, StartLabels
<1> DEFINE lists == u[s].attached \o u[s].attaching
           found == Without(lists, {e \in Engines : eng[e].ops # "target"})
<1>1. u[s].attached \in Seq(Engines) /\ u[s].attaching \in Seq(Engines)
  BY <1>0 DEF StructRecord
<1>2. lists \in Seq(Engines) /\ ToSet(lists) = ListOf(s)
  BY <1>1, ToSetParts DEF ListOf
<1>3. IF found = <<>>
      THEN at' = [at EXCEPT !["stap"].k = "running"] /\ UNCHANGED eng
      ELSE /\ at' = [at EXCEPT !["stap"] = [NoCall EXCEPT !.s = s, !.e = Head(found),
                        !.act = "INTERRUPT", !.k = "ctl_get", !.ret = "running"]]
           /\ eng' = [eng EXCEPT ![Head(found)].ref = @ + 1]
  BY Zenon DEF find_matching_engine
<1> HIDE DEF lists
<1>4. found \in Seq(Engines) /\ ToSet(found) \subseteq ListOf(s)
  BY <1>2, WithoutFacts
<1> HIDE DEF found
<1>5. CASE found = <<>>
  <2>1. \E c : /\ NewCall("stap", c) /\ SameCall("stap", c) /\ c.s = at["stap"].s
               /\ c.found = at["stap"].found
               /\ c.rc = at["stap"].rc /\ c.e = at["stap"].e /\ c.k = "running"
    BY <1>0, <1>l, <1>3, <1>5, CallPutsNext, ZenonT(60)
  <2> QED
    BY <1>3, <1>5, <2>1
<1>6. CASE found # <<>>
  <2> DEFINE e == Head(found)
             c == [NoCall EXCEPT !.s = s, !.e = e,
                        !.act = "INTERRUPT", !.k = "ctl_get", !.ret = "running"]
             r == [eng[e] EXCEPT !.ref = @ + 1]
  <2>1. e \in Engines /\ e \in ListOf(s)
    <3>1. 1 \in 1..Len(found) /\ e = found[1] /\ e \in Engines
      BY <1>4, <1>6
    <3>2. e \in ToSet(found)
      BY <1>4, <3>1, ToSetIs
    <3> QED
      BY <1>4, <3>1, <3>2
  <2>2. at' = [at EXCEPT !["stap"] = c] /\ eng' = [eng EXCEPT ![e].ref = @ + 1]
    BY <1>3, <1>6
  <2> HIDE DEF e
  <2>3. c \in CallRecord
    BY <1>l, <2>1, EmptyCall DEF CallRecord
  <2>4. /\ c.s = s /\ c.e = e /\ c.act = "INTERRUPT"
        /\ c.k = "ctl_get" /\ c.ret = "running" /\ c.rc = "0" /\ ~c.found
    BY EmptyCall DEF CallRecord
  <2> HIDE DEF c
  <2>5. NewCall("stap", c)
    BY <1>0, <2>2, <2>3, CallReplaced
  <2>6. eng[e] \in EngineRecord
    BY <2>1 DEF Handles
  <2>7. r \in EngineRecord /\ r.mem = eng[e].mem /\ r.ref = eng[e].ref + 1
    BY <2>6 DEF EngineRecord
  <2>8. eng' = [eng EXCEPT ![e] = r]
    BY <2>1, <2>2 DEF Handles
  <2> HIDE DEF r
  <2>9. Handles' /\ eng'[e] = r /\ \A d \in Engines : d # e => eng'[d] = eng[d]
    BY <2>1, <2>7, <2>8, EngineReplaced
  <2>10. \A d \in Engines : /\ eng'[d].mem = eng[d].mem
                            /\ eng'[d].ref = IF d = e THEN eng[d].ref + 1 ELSE eng[d].ref
    BY <2>7, <2>9
  <2> QED
    BY <2>1, <2>4, <2>5, <2>9, <2>10
<1> QED
  BY <1>5, <1>6

-----------------------------------------------------------------------------

(* A reporting pass takes the engines that were attaching onto its list.     *)
Spliced(s) ==
    /\ Objects' /\ SameRefs /\ SameAdded
    /\ \A t \in Structs :
         /\ u'[t].mem = u[t].mem /\ u'[t].flags = u[t].flags
         /\ ListOf(t)' = ListOf(t)
         /\ t # s => u'[t].attached = u[t].attached /\ u'[t].attaching = u[t].attaching

(* splice_attaching() moves engines and keeps the rest.                     *)
LEMMA SpliceRecord ==
    ASSUME NEW r \in StructRecord
    PROVE  LET v == splice_attaching(r)
           IN  /\ v \in StructRecord
               /\ v.mem = r.mem /\ v.flags = r.flags /\ v.ref = r.ref
               /\ v.attached = r.attached \o r.attaching /\ v.attaching = <<>>
               /\ v.resumeAdded = r.resumeAdded /\ v.reportAdded = r.reportAdded
               /\ ToSet(v.attached) = ToSet(r.attached) \cup ToSet(r.attaching)
<1> DEFINE a == r.attached \o r.attaching
           n == <<>>
           v == [r EXCEPT !.attached = a, !.attaching = n, !.pending = FALSE]
<1>1. r.attached \in Seq(Engines) /\ r.attaching \in Seq(Engines)
  BY DEF StructRecord
<1>2. a \in Seq(Engines) /\ n \in Seq(Engines)
      /\ ToSet(a) = ToSet(r.attached) \cup ToSet(r.attaching)
  BY <1>1, ToSetParts
<1>3. v = splice_attaching(r)
  BY DEF splice_attaching
<1> HIDE DEF a, n
<1>4. v \in StructRecord
  BY <1>2 DEF StructRecord
<1>5. /\ v.mem = r.mem /\ v.flags = r.flags /\ v.ref = r.ref
      /\ v.attached = a /\ v.attaching = n
      /\ v.resumeAdded = r.resumeAdded /\ v.reportAdded = r.reportAdded
  BY DEF StructRecord
<1> HIDE DEF v
<1> QED
  BY <1>2, <1>3, <1>4, <1>5 DEF a, n

(* The same, on the struct of the function, for a death report.             *)
LEMMA SpliceEffect ==
    ASSUME Objects, NEW s \in Structs, NEW d \in BOOLEAN, NEW b \in {"RESUME", "INTERRUPT"},
           u' = [u EXCEPT ![s] = [splice_attaching(u[s]) EXCEPT !.death = d, !.resume = b]]
    PROVE  Spliced(s)
<1> DEFINE v == splice_attaching(u[s])
           w == [v EXCEPT !.death = d, !.resume = b]
<1>1. u[s] \in StructRecord
  BY DEF Objects
<1>2. /\ v \in StructRecord
      /\ v.mem = u[s].mem /\ v.flags = u[s].flags /\ v.ref = u[s].ref /\ v.attaching = <<>>
      /\ v.resumeAdded = u[s].resumeAdded /\ v.reportAdded = u[s].reportAdded
      /\ ToSet(v.attached) = ToSet(u[s].attached) \cup ToSet(u[s].attaching)
  BY <1>1, SpliceRecord
<1>3. u' = [u EXCEPT ![s] = w]
  OBVIOUS
<1> HIDE DEF v
<1>4. w \in StructRecord
  BY <1>2 DEF StructRecord
<1>5. /\ w.mem = v.mem /\ w.flags = v.flags /\ w.ref = v.ref /\ w.attaching = v.attaching
      /\ w.attached = v.attached
      /\ w.resumeAdded = v.resumeAdded /\ w.reportAdded = v.reportAdded
  BY <1>2 DEF StructRecord
<1> HIDE DEF w
<1>6. Objects' /\ u'[s] = w /\ \A t \in Structs : t # s => u'[t] = u[t]
  BY <1>3, <1>4, StructReplaced
<1>7. ASSUME NEW t \in Structs PROVE ListOf(t)' = ListOf(t)
  <2>1. CASE t = s
    <3>1. ListOf(t)' = ToSet(v.attached) \cup ToSet(<<>>)
      BY <1>2, <1>5, <1>6, <2>1 DEF ListOf
    <3> QED
      BY <1>2, <2>1, <3>1, ToSetParts DEF ListOf
  <2>2. CASE t # s
    BY <1>6, <2>2 DEF ListOf
  <2> QED
    BY <2>1, <2>2
<1>8. SameRefs /\ SameAdded
  BY <1>2, <1>5, <1>6 DEF SameRefs, SameAdded
<1>9. \A t \in Structs :
         /\ u'[t].mem = u[t].mem /\ u'[t].flags = u[t].flags
         /\ t # s => u'[t].attached = u[t].attached /\ u'[t].attaching = u[t].attaching
  BY <1>2, <1>5, <1>6
<1> QED
  BY <1>6, <1>7, <1>8, <1>9 DEF Spliced

(* And for an exec report or utrace_resume().                               *)
LEMMA ResumeSpliceEffect ==
    ASSUME Objects, NEW s \in Structs,
           u' = [u EXCEPT ![s] = [splice_attaching(u[s]) EXCEPT !.resume = "RESUME"]]
    PROVE  Spliced(s)
<1> DEFINE v == splice_attaching(u[s])
           d == v.death
           b == "RESUME"
<1>1. u[s] \in StructRecord
  BY DEF Objects
<1>2. v \in StructRecord
  BY <1>1, SpliceRecord
<1> HIDE DEF v
<1>3. d \in BOOLEAN /\ b \in {"RESUME", "INTERRUPT"}
  BY <1>2 DEF StructRecord
<1>4. [v EXCEPT !.resume = b] = [v EXCEPT !.death = d, !.resume = b]
  BY <1>2 DEF StructRecord
<1>5. u' = [u EXCEPT ![s] = [v EXCEPT !.death = d, !.resume = b]]
  BY <1>4 DEF v
<1> HIDE DEF d, b
<1> QED
  BY <1>3, <1>5, SpliceEffect, Zenon DEF v

(* utrace_reset() takes the detached engines off the list of the struct and
   drops their references.                                                  *)
Reset(s) ==
    /\ Objects' /\ SameRefs /\ SameAdded
    /\ \A t \in Structs :
         /\ u'[t].mem = u[t].mem
         /\ t # s => /\ u'[t].attached = u[t].attached /\ u'[t].attaching = u[t].attaching
                     /\ u'[t].flags = u[t].flags
    /\ ListOf(s)' \subseteq ListOf(s)
    /\ Dropped(ListOf(s) \ ListOf(s)')
    /\ ListOf(s)' = {} <=> u'[s].flags = {}

(* utrace_reset() takes the detached engines off the list.                  *)
LEMMA ResetEffect ==
    ASSUME Objects, Handles, NEW s \in Structs, utrace_reset(s)
    PROVE  Reset(s)
<1> DEFINE all == splice_attaching(u[s])
           gone == {e \in ToSet(all.attached) : eng[e].ops = "detached"}
           keep == Without(all.attached, gone)
           flags == UNION {eng[e].flags \cup {"REAP"} : e \in ToSet(keep)}
           resume == IF flags = {} THEN "RESUME" ELSE all.resume
           r == [all EXCEPT !.attached = keep, !.flags = flags, !.death = FALSE,
                            !.resume = resume]
<1>1. /\ u' = [u EXCEPT ![s] = r]
      /\ eng' = [e \in Engines |->
                     IF e \in gone THEN [DropRef(e)[e] EXCEPT !.ops = "null"] ELSE eng[e]]
  BY DEF utrace_reset
<1>2. u[s] \in StructRecord
  BY DEF Objects
<1>3. /\ all \in StructRecord
      /\ all.mem = u[s].mem /\ all.ref = u[s].ref /\ all.attaching = <<>>
      /\ all.resumeAdded = u[s].resumeAdded /\ all.reportAdded = u[s].reportAdded
      /\ ToSet(all.attached) = ToSet(u[s].attached) \cup ToSet(u[s].attaching)
  BY <1>2, SpliceRecord
<1>4. all.attached \in Seq(Engines) /\ all.resume \in {"RESUME", "INTERRUPT"}
      /\ ToSet(all.attached) = ListOf(s)
  BY <1>3 DEF StructRecord, ListOf
<1> HIDE DEF all
<1>5. keep \in Seq(Engines) /\ ToSet(keep) = ListOf(s) \ gone
  BY <1>4, WithoutFacts
<1>6. gone \subseteq Engines /\ gone \subseteq ListOf(s) /\ ToSet(keep) \subseteq Engines
  BY <1>4, <1>5, ToSetParts
<1> HIDE DEF gone, keep
<1>7. \A e \in Engines : eng[e].flags \in SUBSET EventBits
  <2>1. ASSUME NEW e \in Engines PROVE eng[e].flags \in SUBSET EventBits
    <3>1. eng[e] \in EngineRecord
      BY DEF Handles
    <3> QED
      BY <3>1 DEF EngineRecord
  <2> QED
    BY <2>1
<1>8. flags \in SUBSET EventBits /\ (flags = {} <=> ToSet(keep) = {})
  <2>1. "REAP" \in EventBits
    BY DEF EventBits
  <2>2. ASSUME NEW x \in flags PROVE x \in EventBits
    BY <1>6, <1>7, <2>1
  <2>3. ASSUME NEW e \in ToSet(keep) PROVE "REAP" \in flags
    BY <2>3
  <2> QED
    BY <2>2, <2>3
<1> HIDE DEF flags
<1>9. resume \in {"RESUME", "INTERRUPT"}
  BY <1>4
<1> HIDE DEF resume
<1>10. r \in StructRecord
  BY <1>3, <1>5, <1>8, <1>9 DEF StructRecord
<1>11. /\ r.mem = all.mem /\ r.ref = all.ref /\ r.attaching = all.attaching
       /\ r.attached = keep /\ r.flags = flags
       /\ r.resumeAdded = all.resumeAdded /\ r.reportAdded = all.reportAdded
  BY <1>3 DEF StructRecord
<1> HIDE DEF r
<1>12. Objects' /\ u'[s] = r /\ \A t \in Structs : t # s => u'[t] = u[t]
  BY <1>1, <1>10, StructReplaced
<1>13. ListOf(s)' = ListOf(s) \ gone
  <2>1. ListOf(s)' = ToSet(keep) \cup ToSet(<<>>)
    BY <1>3, <1>11, <1>12 DEF ListOf
  <2> QED
    BY <1>5, <2>1, ToSetParts
<1>14. ListOf(s) \ ListOf(s)' = gone
  BY <1>6, <1>13
<1>15. ASSUME NEW d \in Engines
       PROVE  /\ eng'[d] \in EngineRecord
              /\ eng'[d].ref = IF d \in gone THEN eng[d].ref - 1 ELSE eng[d].ref
              /\ eng'[d].mem = IF d \in gone /\ eng[d].ref = 1 THEN "freed" ELSE eng[d].mem
  <2>1. CASE d \in gone
    <3> DEFINE x == DropRef(d)[d]
               y == [x EXCEPT !.ops = "null"]
    <3>1. /\ x \in EngineRecord /\ x.ref = eng[d].ref - 1
          /\ x.mem = IF eng[d].ref = 1 THEN "freed" ELSE eng[d].mem
      BY DroppedRecord
    <3>2. eng'[d] = y
      BY <1>1, <2>1
    <3> HIDE DEF x
    <3>3. y \in EngineRecord /\ y.ref = x.ref /\ y.mem = x.mem
      BY <3>1 DEF EngineRecord, OpsValues
    <3> HIDE DEF y
    <3> QED
      BY <2>1, <3>1, <3>2, <3>3
  <2>2. CASE d \notin gone
    BY <1>1, <2>2 DEF Handles
  <2> QED
    BY <2>1, <2>2
<1>16. Dropped(gone)
  <2>1. eng' = [e \in Engines |-> eng'[e]]
    BY <1>1
  <2> QED
    BY <1>15, <2>1 DEF Dropped, Handles
<1>17. SameRefs /\ SameAdded
  BY <1>3, <1>11, <1>12 DEF SameRefs, SameAdded
<1>18. \A t \in Structs :
         /\ u'[t].mem = u[t].mem
         /\ t # s => /\ u'[t].attached = u[t].attached /\ u'[t].attaching = u[t].attaching
                     /\ u'[t].flags = u[t].flags
  BY <1>3, <1>11, <1>12
<1>19. ListOf(s)' = {} <=> u'[s].flags = {}
  BY <1>5, <1>8, <1>11, <1>12, <1>13
<1>20. ListOf(s)' \subseteq ListOf(s)
  BY <1>13
<1> QED
  BY <1>12, <1>14, <1>16, <1>17, <1>18, <1>19, <1>20 DEF Reset

(* A tracepoint probe looks the struct up and hands it to a reporting pass or,
   for a death, to a task work.                                             *)
LEMMA ProbeCall ==
    ASSUME Calls, NEW s \in Structs,
           NEW k \in {"tp_out", "w_done"},
           at' = [at EXCEPT !["task"] = [NoCall EXCEPT !.s = s, !.k = k]]
    PROVE  \E c : /\ NewCall("task", c) /\ c.s = s /\ c.k = k /\ c.e = NoEngine
                  /\ ~c.found /\ c.rc = "0" /\ c.act = "RESUME" /\ c.ret = "user"
<1> DEFINE c == [NoCall EXCEPT !.s = s, !.k = k]
<1>1. k \in Labels
  BY LabelsHave DEF ProbeLabels, PassLabels
<1>2. c \in CallRecord
  BY <1>1, EmptyCall DEF CallRecord
<1>3. /\ c.s = s /\ c.k = k /\ c.e = NoEngine /\ ~c.found /\ c.rc = "0"
      /\ c.act = "RESUME" /\ c.ret = "user"
  BY EmptyCall DEF CallRecord
<1>4. at' = [at EXCEPT !["task"] = c] /\ "task" \in Procs
  BY DEF Procs
<1> HIDE DEF c
<1> QED
  BY <1>2, <1>3, <1>4, CallReplaced

(* The report goes on about the same event.                                 *)
ReportMoves(r) ==
    /\ r \in ReportRecord /\ r.ev = rep.ev /\ r.tp = rep.tp /\ r.i = rep.i

(* What a tracepoint probe does once it looked the struct up.               *)
LEMMA TracepointEffect ==
    ASSUME Calls, Objects, table \in Seq(Structs), rep \in ReportRecord, TracepointGet
    PROVE  \/ Lookup = NoStruct /\ Goto("task", "tp_out") /\ UNCHANGED <<u, works, at, rep>>
           \/ \E s \in Structs :
              /\ table # <<>> /\ s = Head(table) /\ u[s].ref > 0
              /\ ReportMoves(rep') /\ rep'.s = s
              /\ \E c : /\ NewCall("task", c) /\ c.s = s /\ c.k = "tp_out" /\ c.e = NoEngine
                        /\ ~c.found /\ c.rc = "0" /\ c.act = "RESUME" /\ c.ret = "user"
              /\ Objects' /\ Unmoved /\ Counts(s, 1)
              /\ \/ Goto("task", "put") /\ UNCHANGED works /\ SameAdded
                 \/ /\ Goto("task", "rep_start") /\ UNCHANGED works /\ SameAdded
                    /\ rep.ev = "EXEC" /\ "EXEC" \in u[s].flags
                 \/ /\ Goto("task", "death_count") /\ works' = works \cup {Report(s)}
                    /\ rep.ev \in u[s].flags /\ rep.ev # "EXEC"
                    /\ rep.ev = "DEATH" => ~u[s].reportAdded
                    /\ \A t \in Structs :
                         /\ u'[t].reportAdded = (t = s \/ u[t].reportAdded)
                         /\ u'[t].resumeAdded = u[t].resumeAdded
<1> DEFINE s == Lookup
           r == [u[s] EXCEPT !.ref = u[s].ref + 1]
           v == [r EXCEPT !.reportAdded = TRUE]
           got == [u EXCEPT ![s] = r]
<1>1. CASE s = NoStruct
  BY <1>1, Zenon DEF TracepointGet
<1>2. CASE s # NoStruct
  <2>1. s \in Structs /\ table # <<>> /\ s = Head(table) /\ u[s].ref > 0
    BY <1>2, LookupFinds
  <2>2. got = [u EXCEPT ![s].ref = @ + 1]
    BY <2>1 DEF Objects
  <2>3. /\ rep' = [rep EXCEPT !.s = s]
        /\ at' = [at EXCEPT !["task"] = [NoCall EXCEPT !.s = s, !.k = "tp_out"]]
        /\ \/ u' = got /\ Goto("task", "put") /\ UNCHANGED works
           \/ /\ u' = got /\ Goto("task", "rep_start") /\ UNCHANGED works
              /\ rep.ev = "EXEC" /\ "EXEC" \in u[s].flags
           \/ /\ u' = [got EXCEPT ![s].reportAdded = TRUE]
              /\ works' = works \cup {Report(s)} /\ Goto("task", "death_count")
              /\ rep.ev \in u[s].flags /\ rep.ev # "EXEC"
              /\ rep.ev = "DEATH" => ~u[s].reportAdded
    <3> HIDE DEF s, got
    <3>1. /\ rep' = [rep EXCEPT !.s = s]
          /\ at' = [at EXCEPT !["task"] = [NoCall EXCEPT !.s = s, !.k = "tp_out"]]
          /\ IF rep.ev \notin u[s].flags \/ (rep.ev = "DEATH" /\ u[s].reportAdded)
             THEN u' = got /\ Goto("task", "put") /\ UNCHANGED works
             ELSE IF rep.ev = "EXEC"
             THEN u' = got /\ Goto("task", "rep_start") /\ UNCHANGED works
             ELSE /\ u' = [got EXCEPT ![s].reportAdded = TRUE]
                  /\ works' = works \cup {Report(s)}
                  /\ Goto("task", "death_count")
      BY <1>2, <2>2, Zenon DEF TracepointGet, s
    <3> QED
      BY <3>1, Zenon
  <2> HIDE DEF s
  <2>4. u[s] \in StructRecord
    BY <2>1 DEF Objects
  <2>5. /\ r \in StructRecord /\ r.ref = u[s].ref + 1
        /\ r.mem = u[s].mem /\ r.flags = u[s].flags /\ r.attached = u[s].attached
        /\ r.attaching = u[s].attaching
        /\ r.resumeAdded = u[s].resumeAdded /\ r.reportAdded = u[s].reportAdded
    <3> DEFINE n == u[s].ref + 1
    <3>1. n \in Int
      BY <2>4 DEF StructRecord
    <3>2. r = [u[s] EXCEPT !.ref = n]
      OBVIOUS
    <3> HIDE DEF n, r
    <3>3. /\ r \in StructRecord /\ r.ref = n
          /\ r.mem = u[s].mem /\ r.flags = u[s].flags /\ r.attached = u[s].attached
          /\ r.attaching = u[s].attaching
          /\ r.resumeAdded = u[s].resumeAdded /\ r.reportAdded = u[s].reportAdded
      BY <2>4, <3>1, <3>2 DEF StructRecord
    <3> QED
      BY <3>3 DEF n
  <2> HIDE DEF r
  <2>6. v \in StructRecord
    BY <2>5 DEF StructRecord
  <2>7. /\ v.ref = u[s].ref + 1
        /\ v.mem = u[s].mem /\ v.flags = u[s].flags /\ v.attached = u[s].attached
        /\ v.attaching = u[s].attaching
        /\ v.resumeAdded = u[s].resumeAdded /\ v.reportAdded = TRUE
    BY <2>5 DEF StructRecord
  <2>8. [got EXCEPT ![s].reportAdded = TRUE] = [u EXCEPT ![s] = v]
    BY <2>1 DEF Objects
  <2> HIDE DEF v
  <2>9. \E c : /\ NewCall("task", c) /\ c.s = s /\ c.k = "tp_out" /\ c.e = NoEngine
               /\ ~c.found /\ c.rc = "0" /\ c.act = "RESUME" /\ c.ret = "user"
    <3>1. "tp_out" \in {"tp_out", "w_done"} /\ s \in Structs
      BY <2>1
    <3>2. at' = [at EXCEPT !["task"] = [NoCall EXCEPT !.s = s, !.k = "tp_out"]]
      BY <2>3
    <3> QED
      BY <3>1, <3>2, ProbeCall, ZenonT(60)
  <2>10. ReportMoves(rep') /\ rep'.s = s
    BY <2>1, <2>3 DEF ReportMoves, ReportRecord
  <2>11. ASSUME u' = got PROVE Objects' /\ Unmoved /\ Counts(s, 1) /\ SameAdded
    <3>1. Objects' /\ u'[s] = r /\ \A t \in Structs : t # s => u'[t] = u[t]
      BY <2>1, <2>5, <2>11, StructReplaced
    <3> QED
      BY <2>5, <3>1 DEF Unmoved, Counts, SameAdded
  <2>12. ASSUME u' = [got EXCEPT ![s].reportAdded = TRUE]
         PROVE  /\ Objects' /\ Unmoved /\ Counts(s, 1)
                /\ \A t \in Structs :
                     /\ u'[t].reportAdded = (t = s \/ u[t].reportAdded)
                     /\ u'[t].resumeAdded = u[t].resumeAdded
    <3>1. Objects' /\ u'[s] = v /\ \A t \in Structs : t # s => u'[t] = u[t]
      BY <2>1, <2>6, <2>8, <2>12, StructReplaced
    <3>2. Unmoved /\ Counts(s, 1)
      BY <2>7, <3>1 DEF Unmoved, Counts
    <3>3. ASSUME NEW t \in Structs
          PROVE  /\ u'[t].reportAdded = (t = s \/ u[t].reportAdded)
                 /\ u'[t].resumeAdded = u[t].resumeAdded
      <4>1. u[t] \in StructRecord
        BY DEF Objects
      <4>2. u[t].reportAdded \in BOOLEAN
        BY <4>1 DEF StructRecord
      <4> QED
        BY <2>7, <3>1, <4>2
    <3> QED
      BY <3>1, <3>2, <3>3
  <2> HIDE DEF got
  <2> QED
    BY <2>1, <2>3, <2>9, <2>10, <2>11, <2>12
<1> QED
  BY <1>1, <1>2

(* A task work begins: the struct no longer has it queued.                   *)
Begins(w) ==
    /\ Objects' /\ Unmoved /\ SameRefs
    /\ \A t \in Structs :
         /\ u'[t].resumeAdded = (u[t].resumeAdded /\ w # Resume(t))
         /\ u'[t].reportAdded = (u[t].reportAdded /\ w # Report(t))

(* The three kinds of task work.                                            *)
LEMMA WorkKinds ==
    ASSUME NEW w \in Works
    PROVE  /\ w.kind \in {"resume", "report", "tf"}
           /\ w.kind = "resume" => w.id \in Structs /\ w = Resume(w.id)
           /\ w.kind = "report" => w.id \in Structs /\ w = Report(w.id)
           /\ w.kind = "tf" => w.id \in Engines \cup {CloneId} /\ w = TfWork(w.id)
BY DEF Works, Resume, Report, TfWork

(* Different works are different records.                                   *)
LEMMA WorkDistinct ==
    /\ \A s, t : Resume(s) = Resume(t) <=> s = t
    /\ \A s, t : Report(s) = Report(t) <=> s = t
    /\ \A s, t : Resume(s) # Report(t) /\ Resume(s) # TfWork(t) /\ Report(s) # TfWork(t)
    /\ \A s : Resume(s).kind = "resume" /\ Resume(s).id = s
    /\ \A s : Report(s).kind = "report" /\ Report(s).id = s
    /\ \A s : TfWork(s).kind = "tf" /\ TfWork(s).id = s
    /\ \A s \in Structs : Resume(s) \in Works /\ Report(s) \in Works
    /\ \A e \in Engines \cup {CloneId} : TfWork(e) \in Works
BY DEF Works, Resume, Report, TfWork

(* A task work begins.                                                      *)
LEMMA RunEffect ==
    ASSUME Calls, Objects, NEW w \in Works, RunWork(w)
    PROVE  /\ Begins(w) /\ taken' = taken \ {w}
           /\ rep' \in ReportRecord /\ rep'.i = 1
           /\ \/ /\ w.kind \in {"resume", "report"} /\ rep'.s = w.id
                 /\ \E c : /\ NewCall("task", c) /\ c.s = w.id /\ c.k = "w_done"
                           /\ c.e = NoEngine /\ ~c.found /\ c.rc = "0" /\ c.act = "RESUME"
                           /\ c.ret = "user"
                 /\ \/ /\ w.kind = "resume" /\ rep'.ev = "NONE" /\ ~rep'.tp
                       /\ Goto("task", IF tk.exiting THEN "put" ELSE "rep_start")
                    \/ /\ w.kind = "report" /\ rep'.ev = "DEATH" /\ ~rep'.tp
                       /\ Goto("task", "rw_lock")
              \/ /\ w.kind = "tf" /\ rep'.s = NoStruct /\ rep'.ev = "NONE" /\ ~rep'.tp
                 /\ \E c : NewCall("task", c) /\ Idle(c) /\ c.rc = "0"
                 /\ Goto("task", "tf")
<1>1. /\ taken' = taken \ {w}
      /\ rep' = [NoReport EXCEPT !.s = IF w.kind = "tf" THEN NoStruct ELSE w.id,
                                 !.ev = IF w.kind = "report" THEN "DEATH" ELSE "NONE"]
      /\ at' = [at EXCEPT !["task"] = IF w.kind = "tf" THEN NoCall
                                    ELSE [NoCall EXCEPT !.s = w.id, !.k = "w_done"]]
      /\ \/ /\ w.kind = "resume" /\ u' = [u EXCEPT ![w.id].resumeAdded = FALSE]
            /\ Goto("task", IF tk.exiting THEN "put" ELSE "rep_start")
         \/ /\ w.kind = "report" /\ u' = [u EXCEPT ![w.id].reportAdded = FALSE]
            /\ Goto("task", "rw_lock")
         \/ w.kind = "tf" /\ Goto("task", "tf") /\ UNCHANGED u
  BY Zenon DEF RunWork
<1>2. /\ w.kind \in {"resume", "report", "tf"}
      /\ w.kind = "resume" => w.id \in Structs /\ w = Resume(w.id)
      /\ w.kind = "report" => w.id \in Structs /\ w = Report(w.id)
      /\ w.kind = "tf" => w = TfWork(w.id)
  BY WorkKinds
<1> DEFINE a == IF w.kind = "tf" THEN NoStruct ELSE w.id
           b == IF w.kind = "report" THEN "DEATH" ELSE "NONE"
<1>3. a \in Structs \cup {NoStruct} /\ b \in {"NONE", "EXEC", "DEATH"}
  BY <1>2
<1>4. rep' = [NoReport EXCEPT !.s = a, !.ev = b]
  BY <1>1
<1> HIDE DEF a, b
<1>5. rep' \in ReportRecord /\ rep'.s = a /\ rep'.ev = b /\ ~rep'.tp /\ rep'.i = 1
  BY <1>3, <1>4 DEF NoReport, ReportRecord
<1>6. \A t \in Structs : u[t] \in StructRecord
  BY DEF Objects
<1>7. \A t \in Structs : u[t].resumeAdded \in BOOLEAN /\ u[t].reportAdded \in BOOLEAN
  BY <1>6 DEF StructRecord
<1>8. CASE w.kind = "resume"
  <2> DEFINE s == w.id
             r == [u[s] EXCEPT !.resumeAdded = FALSE]
  <2>1. s \in Structs /\ w = Resume(s)
    BY <1>2, <1>8
  <2>2. /\ r \in StructRecord /\ r.mem = u[s].mem /\ r.ref = u[s].ref /\ r.flags = u[s].flags
        /\ r.attached = u[s].attached /\ r.attaching = u[s].attaching
        /\ r.resumeAdded = FALSE /\ r.reportAdded = u[s].reportAdded
    BY <1>6, <2>1 DEF StructRecord
  <2>3. u' = [u EXCEPT ![s] = r]
    BY <1>1, <1>8, <2>1 DEF Objects
  <2> HIDE DEF r
  <2>4. Objects' /\ u'[s] = r /\ \A t \in Structs : t # s => u'[t] = u[t]
    BY <2>1, <2>2, <2>3, StructReplaced
  <2>5. Unmoved /\ SameRefs
    BY <2>2, <2>4 DEF Unmoved, SameRefs
  <2>6. \A t \in Structs : w # Report(t) /\ (w = Resume(t) <=> t = s)
    BY <2>1, WorkDistinct
  <2>7. Begins(w)
    BY <1>7, <2>2, <2>4, <2>5, <2>6 DEF Begins
  <2>8. \E c : /\ NewCall("task", c) /\ c.s = w.id /\ c.k = "w_done" /\ c.e = NoEngine
               /\ ~c.found /\ c.rc = "0" /\ c.act = "RESUME" /\ c.ret = "user"
    <3>1. at' = [at EXCEPT !["task"] = [NoCall EXCEPT !.s = w.id, !.k = "w_done"]]
      BY <1>1, <1>8
    <3>2. "w_done" \in {"tp_out", "w_done"}
      OBVIOUS
    <3> QED
      BY <2>1, <3>1, <3>2, ProbeCall, ZenonT(60)
  <2> QED
    BY <1>1, <1>5, <1>8, <2>7, <2>8 DEF a, b
<1>9. CASE w.kind = "report"
  <2> DEFINE s == w.id
             r == [u[s] EXCEPT !.reportAdded = FALSE]
  <2>1. s \in Structs /\ w = Report(s)
    BY <1>2, <1>9
  <2>2. /\ r \in StructRecord /\ r.mem = u[s].mem /\ r.ref = u[s].ref /\ r.flags = u[s].flags
        /\ r.attached = u[s].attached /\ r.attaching = u[s].attaching
        /\ r.reportAdded = FALSE /\ r.resumeAdded = u[s].resumeAdded
    BY <1>6, <2>1 DEF StructRecord
  <2>3. u' = [u EXCEPT ![s] = r]
    BY <1>1, <1>9, <2>1 DEF Objects
  <2> HIDE DEF r
  <2>4. Objects' /\ u'[s] = r /\ \A t \in Structs : t # s => u'[t] = u[t]
    BY <2>1, <2>2, <2>3, StructReplaced
  <2>5. Unmoved /\ SameRefs
    BY <2>2, <2>4 DEF Unmoved, SameRefs
  <2>6. \A t \in Structs : w # Resume(t) /\ (w = Report(t) <=> t = s)
    BY <2>1, WorkDistinct
  <2>7. Begins(w)
    BY <1>7, <2>2, <2>4, <2>5, <2>6 DEF Begins
  <2>8. \E c : /\ NewCall("task", c) /\ c.s = w.id /\ c.k = "w_done" /\ c.e = NoEngine
               /\ ~c.found /\ c.rc = "0" /\ c.act = "RESUME" /\ c.ret = "user"
    <3>1. at' = [at EXCEPT !["task"] = [NoCall EXCEPT !.s = w.id, !.k = "w_done"]]
      BY <1>1, <1>9
    <3>2. "w_done" \in {"tp_out", "w_done"}
      OBVIOUS
    <3> QED
      BY <2>1, <3>1, <3>2, ProbeCall, ZenonT(60)
  <2> QED
    BY <1>1, <1>5, <1>9, <2>7, <2>8 DEF a, b
<1>10. CASE w.kind = "tf"
  <2>1. UNCHANGED u /\ Goto("task", "tf")
    BY <1>1, <1>10
  <2>2. \A t \in Structs : w # Resume(t) /\ w # Report(t)
    BY <1>10, WorkDistinct
  <2>3. Begins(w)
    BY <1>7, <2>1, <2>2 DEF Begins, Unmoved, SameRefs, Objects
  <2>4. \E c : NewCall("task", c) /\ Idle(c) /\ c.rc = "0"
    <3>1. at' = [at EXCEPT !["task"] = NoCall] /\ "task" \in Procs
      BY <1>1, <1>10 DEF Procs
    <3> QED
      BY <3>1, CallReplaced, EmptyCall DEF Idle
  <2> QED
    BY <1>1, <1>5, <1>10, <2>1, <2>3, <2>4 DEF a, b
<1> QED
  BY <1>2, <1>8, <1>9, <1>10

-----------------------------------------------------------------------------
(* Types.                                                                   *)

Places == pc \in [Procs -> Labels]
WorkTypes ==
    /\ tfs \in Seq(Engines \cup {CloneId}) /\ works \in SUBSET Works /\ taken \in SUBSET Works
    /\ tk \in [mm : BOOLEAN, exiting : BOOLEAN, workExited : BOOLEAN,
               exit : {"none", "zombie", "dead"}]
OtherTypes ==
    /\ tf \in {"running", "stopping", "stopped"} /\ reg \in BOOLEAN /\ tgtAttached \in BOOLEAN
    /\ HistoryType
SimpleTypes == Places /\ rep \in ReportRecord /\ WorkTypes /\ OtherTypes
MemoryTypes == Calls /\ Objects /\ Handles /\ table \in Seq(Structs)
TypeInv == SimpleTypes /\ MemoryTypes

(* The names of the places are labels.                                      *)
LEMMA LabelNames ==
    /\ {"att_get", "att_alloc", "att_eng", "att_fail", "ev_get", "ev_set", "ctl_get",
        "ctl_lock", "ctl_count", "eng_put", "oops"} \subseteq Labels
    /\ {"put", "cleanup", "tp_get", "death_count", "tp_out"} \subseteq Labels
    /\ {"rep_start", "rw_lock", "cb", "cb_q", "q_in", "q_add", "q_count", "cb_after", "cb_ev",
        "ev_in", "x_out", "end_cb", "fin", "notify", "fin_count", "reap", "put2",
        "w_done"} \subseteq Labels
    /\ {"tf", "tf_chk", "tf_in", "tf_begin", "cl_match", "cl_end"} \subseteq Labels
    /\ {"user", "tw", "w_wake", "exited", "zombie", "dead"} \subseteq Labels
    /\ {"start", "s_finder", "s_target", "post", "post_find", "running"} \subseteq Labels
    /\ {"st_state", "st_unreg", "st_sync", "st_cancel", "st_inuse", "st_tfc", "st_wait", "st_sleep",
        "st_free", "unloaded"} \subseteq Labels
BY LabelsHave DEF CallLabels, PutLabels, ProbeLabels, PassLabels, TfLabels, Uncounted,
   StartLabels, StopLabels

(* A struct in use is in memory, or the model has stopped.                   *)
LEMMA UsedLive ==
    ASSUME Objects, UseInv, ~Oops, NEW p \in Procs, pc[p] \in UsesStruct
    PROVE  at[p].s \in Structs /\ u[at[p].s].mem = "live"
<1>1. at[p].s \in Structs /\ u[at[p].s].mem # "unused" /\ u[at[p].s].mem # "freed"
  BY DEF UseInv, Oops
<1>2. u[at[p].s] \in StructRecord
  BY <1>1 DEF Objects
<1>3. u[at[p].s].mem \in {"unused", "live", "freed"}
  BY <1>2 DEF StructRecord
<1> QED
  BY <1>1, <1>3

(* A pass that has not met freed memory is on a live struct.                *)
LEMMA ReportedLive ==
    ASSUME Objects, UseInv, ~Oops, pc["task"] \in UsesReport
    PROVE  rep.s \in Structs /\ u[rep.s].mem = "live"
<1>1. InPass
  BY DEF InPass
<1>2. rep.s \in Structs /\ u[rep.s].mem # "unused" /\ u[rep.s].mem # "freed"
  BY <1>1 DEF UseInv, Oops
<1>3. u[rep.s] \in StructRecord
  BY <1>2 DEF Objects
<1>4. u[rep.s].mem \in {"unused", "live", "freed"}
  BY <1>3 DEF StructRecord
<1> QED
  BY <1>2, <1>4

(* So the pass is at an engine of the list.                                 *)
LEMMA CurrentIs ==
    ASSUME Objects, UseInv, ~Oops,
           pc["task"] \in {"cb_q", "q_in", "q_add", "q_count", "cb_after", "cb_ev", "ev_in",
                           "x_out", "end_cb"}
    PROVE  /\ rep.s \in Structs /\ u[rep.s].mem = "live"
           /\ rep.i \in 1..Len(u[rep.s].attached)
           /\ Current \in Engines /\ Current \in ListOf(rep.s)
<1>1. rep.s \in Structs /\ u[rep.s].mem = "live"
  BY ReportedLive DEF UsesReport
<1>2. rep.i \in 1..Len(u[rep.s].attached)
  BY <1>1 DEF UseInv, AtEngine
<1>3. u[rep.s] \in StructRecord
  BY <1>1 DEF Objects
<1>4. u[rep.s].attached \in Seq(Engines)
  BY <1>3 DEF StructRecord
<1>5. Current \in Engines /\ Current \in ToSet(u[rep.s].attached)
  BY <1>2, <1>4, ToSetIs DEF Current
<1> QED
  BY <1>1, <1>2, <1>5 DEF ListOf

(* The reports a step leaves.                                               *)
LEMMA ReportEdits ==
    ASSUME rep \in ReportRecord
    PROVE  /\ NoReport \in ReportRecord
           /\ \A e \in {"EXEC", "DEATH"} : [NoReport EXCEPT !.ev = e, !.tp = TRUE] \in ReportRecord
           /\ [rep EXCEPT !.spur = FALSE] \in ReportRecord
           /\ [rep EXCEPT !.i = @ + 1] \in ReportRecord
           /\ [rep EXCEPT !.det = TRUE, !.i = @ + 1] \in ReportRecord
           /\ [rep EXCEPT !.i = @ + 1, !.spur = @ /\ rep.ev # "NONE"] \in ReportRecord
           /\ \A n \in Nat : [rep EXCEPT !.i = n] \in ReportRecord
<1>1. rep.i + 1 \in Nat /\ rep.spur \in BOOLEAN
  BY DEF ReportRecord
<1>2. NoReport \in ReportRecord
  BY DEF NoReport, ReportRecord
<1>3. \A e \in {"EXEC", "DEATH"} : [NoReport EXCEPT !.ev = e, !.tp = TRUE] \in ReportRecord
  BY <1>2 DEF ReportRecord
<1>4. [rep EXCEPT !.spur = FALSE] \in ReportRecord
  BY DEF ReportRecord
<1>5. \A n \in Nat : [rep EXCEPT !.i = n] \in ReportRecord
  BY DEF ReportRecord
<1>6. [rep EXCEPT !.det = TRUE, !.i = @ + 1] \in ReportRecord
  BY <1>1 DEF ReportRecord
<1>7. [rep EXCEPT !.i = @ + 1, !.spur = @ /\ rep.ev # "NONE"] \in ReportRecord
  <2> DEFINE b == rep.spur /\ rep.ev # "NONE"
             n == rep.i + 1
  <2>1. b \in BOOLEAN /\ n \in Nat
    BY <1>1
  <2> HIDE DEF b, n
  <2>2. [rep EXCEPT !.i = n, !.spur = b] \in ReportRecord
    BY <2>1 DEF ReportRecord
  <2> QED
    BY <2>2 DEF b, n
<1>8. [rep EXCEPT !.i = @ + 1] \in ReportRecord
  BY <1>1, <1>5
<1> QED
  BY <1>2, <1>3, <1>4, <1>5, <1>6, <1>7, <1>8

(* Where a call goes on and where it returns to are places.                 *)
LEMMA CallLabelled ==
    ASSUME Calls, NEW p \in Procs
    PROVE  at[p].k \in Labels /\ at[p].ret \in Labels /\ at[p].rc \in ReturnCodes
<1>1. at[p] \in CallRecord
  BY DEF Calls
<1> QED
  BY <1>1 DEF CallRecord


(* A step inside __stp_utrace_attach() keeps the types of the control state. *)
LEMMA AttachSimple ==
    ASSUME TypeInv, UseInv, ~Oops, NEW p \in Procs, AttachStep(p)
    PROVE  SimpleTypes'
<1> USE LabelNames DEF Goto, SimpleTypes, Places, WorkTypes, OtherTypes, HistoryType
<1>0. /\ at[p].k \in Labels /\ at[p].ret \in Labels
      /\ Calls /\ Objects /\ Handles /\ table \in Seq(Structs)
  BY CallLabelled DEF TypeInv, MemoryTypes
<1>t. SimpleTypes
  BY DEF TypeInv
<1>1. ASSUME PutStruct(p) PROVE SimpleTypes'
  BY <1>0, <1>1, <1>t DEF PutStruct, finder, kernel, hist
<1>2. ASSUME utrace_cleanup(p) PROVE SimpleTypes'
  BY <1>0, <1>2, <1>t DEF utrace_cleanup, finder, kernel, hist
<1>3. ASSUME AttachGet(p) PROVE SimpleTypes'
  BY <1>0, <1>3, <1>t DEF AttachGet, GetStruct, finder, kernel, hist
<1>4. ASSUME utrace_task_alloc(p) PROVE SimpleTypes'
  <2>1. UNCHANGED <<finder, kernel, tfs, rep, hist>>
    BY <1>4, Zenon DEF utrace_task_alloc
  <2>2. fails' \in {fails, fails + 1} /\ (Goto(p, "att_eng") \/ Goto(p, at[p].ret))
    BY <1>0, <1>4, AllocEffect
  <2> QED
    BY <1>0, <1>t, <2>1, <2>2 DEF finder, kernel, hist
<1>5. ASSUME utrace_add_engine(p) PROVE SimpleTypes'
  <2>1. UNCHANGED <<finder, kernel, tfs, rep, hist>> /\ pc[p] = "att_eng"
    BY <1>5, Zenon DEF utrace_add_engine
  <2>2. PICK s \in Structs : at[p].s = s
    BY <1>0, <2>1, UsedLive DEF UsesStruct
  <2>3. fails' \in {fails, fails + 1} /\ (Goto(p, "put") \/ Goto(p, "ev_get"))
    BY <1>0, <1>5, <2>2, AddEffect
  <2> QED
    BY <1>0, <1>t, <2>1, <2>3 DEF finder, kernel, hist
<1>6. ASSUME AttachFailed(p) PROVE SimpleTypes'
  BY <1>0, <1>6, <1>t DEF AttachFailed, finder, kernel, hist
<1>7. ASSUME SetEventsGet(p) PROVE SimpleTypes'
  BY <1>0, <1>7, <1>t DEF SetEventsGet, GetStruct, finder, kernel, hist
<1>8. ASSUME utrace_set_events(p) PROVE SimpleTypes'
  BY <1>8, <1>t DEF utrace_set_events, finder, kernel, hist
<1>9. ASSUME ControlGet(p) PROVE SimpleTypes'
  BY <1>9, <1>t DEF ControlGet, GetStruct, finder, kernel, hist
<1>10. ASSUME utrace_control(p) PROVE SimpleTypes'
  <2>1. UNCHANGED <<finder, taken, tk, tfs, rep, fails, hist>> /\ pc[p] = "ctl_lock"
    BY <1>10, Zenon DEF utrace_control
  <2>2. PICK s \in Structs : at[p].s = s
    BY <1>0, <2>1, UsedLive DEF UsesStruct
  <2>3. /\ Goto(p, "oops") \/ Goto(p, "put") \/ Goto(p, "ctl_count")
        /\ UNCHANGED works \/ works' = works \cup {Resume(s)}
    BY <1>0, <1>10, <2>2, ControlEffect DEF Notified
  <2>4. Resume(s) \in Works
    BY WorkDistinct
  <2> QED
    BY <1>t, <2>1, <2>3, <2>4 DEF finder, hist
<1>11. ASSUME stp_task_work_get(p) PROVE SimpleTypes'
  BY <1>11, <1>t DEF stp_task_work_get, finder, kernel, hist
<1>12. ASSUME EnginePut(p) PROVE SimpleTypes'
  BY <1>0, <1>12, <1>t DEF EnginePut, finder, kernel, hist
<1> HIDE LabelNames DEF Goto, SimpleTypes, Places, WorkTypes, OtherTypes, HistoryType
<1> QED
  BY <1>1, <1>2, <1>3, <1>4, <1>5, <1>6, <1>7, <1>8, <1>9, <1>10, <1>11, <1>12, Zenon
     DEF AttachStep

(* So does a step of the stap thread,                                       *)
LEMMA StapSimple ==
    ASSUME TypeInv, UseInv, ~Oops, StapStep
    PROVE  SimpleTypes'
<1> USE LabelNames DEF finder, kernel, others, hist, Goto, SimpleTypes, Places, WorkTypes,
   OtherTypes, HistoryType, Procs
<1>t. SimpleTypes
  BY DEF TypeInv
<1>1. ASSUME StartFinder PROVE SimpleTypes'
  BY <1>1, <1>t, CallControl DEF StartFinder
<1>2. ASSUME StartTarget PROVE SimpleTypes'
  BY <1>2, <1>t, CallControl DEF StartTarget
<1>3. ASSUME StartDone PROVE SimpleTypes'
  BY <1>3, <1>t DEF StartDone
<1>4. ASSUME PostGet PROVE SimpleTypes'
  BY <1>4, <1>t DEF PostGet, GetStruct
<1>5. ASSUME find_matching_engine PROVE SimpleTypes'
  BY <1>5, <1>t, ZenonT(60) DEF find_matching_engine
<1>6. ASSUME Stop PROVE SimpleTypes'
  BY <1>6, <1>t DEF Stop
<1>7. ASSUME CloseFinder PROVE SimpleTypes'
  BY <1>7, <1>t DEF CloseFinder
<1>8. ASSUME utrace_shutdown PROVE SimpleTypes'
  BY <1>8, <1>t DEF utrace_shutdown
<1>9. ASSUME Synchronize PROVE SimpleTypes'
  BY <1>9, <1>t DEF Synchronize
<1>10. ASSUME CancelUtraceWork PROVE SimpleTypes'
  BY <1>10, <1>t DEF CancelUtraceWork
<1>11. ASSUME WaitInuse PROVE SimpleTypes'
  BY <1>11, <1>t DEF WaitInuse
<1>12. ASSUME CancelTfWork PROVE SimpleTypes'
  <2>1. /\ UNCHANGED <<finder, taken, tk, rep, fails, hist>>
        /\ \/ /\ \E w \in works : works' = works \ {w} /\ tfs' = Without(tfs, {w.id})
              /\ UNCHANGED pc
           \/ Goto("stap", "st_wait") /\ UNCHANGED <<works, tfs>>
    BY <1>12, Zenon DEF CancelTfWork
  <2>2. \A S : Without(tfs, S) \in Seq(Engines \cup {CloneId})
    BY <1>t, WithoutFacts
  <2>3. /\ works' \subseteq works /\ tfs' \in Seq(Engines \cup {CloneId})
        /\ UNCHANGED pc \/ Goto("stap", "st_wait")
    <3> HIDE LabelNames DEF Goto
    <3> QED
      BY <1>t, <2>1, <2>2
  <2> QED
    BY <1>t, <2>1, <2>3
<1>13. ASSUME stp_task_work_exit PROVE SimpleTypes'
  BY <1>13, <1>t DEF stp_task_work_exit
<1>14. ASSUME utrace_exit PROVE SimpleTypes'
  BY <1>14, <1>t DEF utrace_exit
<1> HIDE LabelNames DEF finder, kernel, others, hist, Goto, SimpleTypes, Places, WorkTypes,
   OtherTypes, HistoryType, Procs
<1> QED
  BY <1>1, <1>2, <1>3, <1>4, <1>5, <1>6, <1>7, <1>8, <1>9, <1>10, <1>11, <1>12, <1>13, <1>14, Zenon DEF StapStep

(* ... of a tracepoint probe,                                               *)
LEMMA ProbeSimple ==
    ASSUME TypeInv, UseInv, ~Oops, ProbeStep
    PROVE  SimpleTypes'
<1> USE LabelNames DEF finder, kernel, others, hist, Goto, SimpleTypes, Places, WorkTypes,
   OtherTypes, HistoryType, Procs
<1>t. SimpleTypes
  BY DEF TypeInv
<1>r. /\ NoReport \in ReportRecord
      /\ \A e \in {"EXEC", "DEATH"} : [NoReport EXCEPT !.ev = e, !.tp = TRUE] \in ReportRecord
  BY <1>t, ReportEdits
<1>1. ASSUME Exec PROVE SimpleTypes'
  BY <1>1, <1>t, <1>r DEF Exec
<1>2. ASSUME Exit PROVE SimpleTypes'
  BY <1>2, <1>t, <1>r DEF Exit
<1>3. ASSUME TracepointGet PROVE SimpleTypes'
  <2>1. UNCHANGED <<finder, taken, tk, others, hist>>
    BY <1>3, Zenon DEF TracepointGet
  <2>2. /\ Goto("task", "tp_out") \/ Goto("task", "put") \/ Goto("task", "rep_start")
             \/ Goto("task", "death_count")
        /\ rep' \in ReportRecord
        /\ UNCHANGED works \/ \E s \in Structs : works' = works \cup {Report(s)}
    <3> HIDE LabelNames DEF Goto
    <3> QED
      BY <1>3, <1>t, TracepointEffect DEF TypeInv, MemoryTypes, ReportMoves
  <2>3. \A s \in Structs : Report(s) \in Works
    BY WorkDistinct
  <2> QED
    BY <1>t, <2>1, <2>2, <2>3
<1>4. ASSUME DeathCount PROVE SimpleTypes'
  BY <1>4, <1>t DEF DeathCount
<1>5. ASSUME TracepointReturn PROVE SimpleTypes'
  BY <1>5, <1>t, <1>r DEF TracepointReturn
<1> HIDE LabelNames DEF finder, kernel, others, hist, Goto, SimpleTypes, Places, WorkTypes,
   OtherTypes, HistoryType, Procs
<1> QED
  BY <1>1, <1>2, <1>3, <1>4, <1>5, Zenon DEF ProbeStep

(* ... of a reporting pass,                                                 *)
LEMMA PassSimple ==
    ASSUME TypeInv, UseInv, ~Oops, PassStep
    PROVE  SimpleTypes'
<1> USE LabelNames DEF finder, kernel, others, hist, Goto, SimpleTypes, Places, WorkTypes,
   OtherTypes, HistoryType, Procs
<1>t. SimpleTypes /\ Objects
  BY DEF TypeInv, MemoryTypes
<1>r. /\ [rep EXCEPT !.spur = FALSE] \in ReportRecord
      /\ [rep EXCEPT !.i = @ + 1] \in ReportRecord
      /\ [rep EXCEPT !.det = TRUE, !.i = @ + 1] \in ReportRecord
      /\ [rep EXCEPT !.i = @ + 1, !.spur = @ /\ rep.ev # "NONE"] \in ReportRecord
  BY <1>t, ReportEdits
<1>d. ASSUME DetachCurrent PROVE rep' \in ReportRecord /\ Places'
  BY <1>d, <1>t, <1>r DEF DetachCurrent
<1>1. ASSUME start_report PROVE SimpleTypes'
  BY <1>1, <1>t DEF start_report
<1>2. ASSUME StartDeathReport PROVE SimpleTypes'
  BY <1>2, <1>t DEF StartDeathReport
<1>3. ASSUME start_callback PROVE SimpleTypes'
  <2>1. /\ UNCHANGED <<finder, kernel, others, hist>>
        /\ \E l \in {"reap", "fin", "cb_q", "cb_ev", "cb"} : Goto("task", l)
    BY <1>3 DEF start_callback
  <2>2. rep' \in ReportRecord
    <3>1. UNCHANGED rep \/ rep' = [rep EXCEPT !.spur = FALSE] \/ rep' = [rep EXCEPT !.i = @ + 1]
      BY <1>3, Zenon DEF start_callback
    <3> QED
      BY <1>r, <1>t, <3>1
  <2> QED
    BY <1>t, <2>1, <2>2
<1>4. ASSUME QuiesceCheck PROVE SimpleTypes'
  <2>1. /\ UNCHANGED <<finder, kernel, others, hist>>
        /\ (Goto("task", "q_in") /\ UNCHANGED rep) \/ DetachCurrent
    BY <1>4, Zenon DEF QuiesceCheck
  <2> QED
    BY <1>d, <1>t, <2>1
<1>5. ASSUME QuiesceEnter PROVE SimpleTypes'
  BY <1>5, <1>t DEF QuiesceEnter
<1>6. ASSUME QuiesceAdd PROVE SimpleTypes'
  <2>1. Current \in Engines
    BY <1>6, <1>t, CurrentIs DEF QuiesceAdd
  <2>2. Append(tfs, Current) \in Seq(Engines \cup {CloneId}) /\ TfWork(Current) \in Works
    BY <1>t, <2>1, WorkDistinct
  <2>3. /\ UNCHANGED <<tf, reg, tgtAttached, taken, tk, rep, hist>>
        /\ \/ /\ tfs' = Append(tfs, Current) /\ works' = works \cup {TfWork(Current)}
              /\ Goto("task", "q_count") /\ UNCHANGED fails
           \/ fails' = fails + 1 /\ Goto("task", "cb_after") /\ UNCHANGED <<tfs, works>>
    BY <1>6, Zenon DEF QuiesceAdd
  <2>4. CASE /\ tfs' = Append(tfs, Current) /\ works' = works \cup {TfWork(Current)}
             /\ Goto("task", "q_count") /\ UNCHANGED fails
    BY <1>t, <2>2, <2>3, <2>4
  <2>5. CASE fails' = fails + 1 /\ Goto("task", "cb_after") /\ UNCHANGED <<tfs, works>>
    BY <1>t, <2>3, <2>5
  <2> QED
    BY <2>3, <2>4, <2>5
<1>7. ASSUME QuiesceCount PROVE SimpleTypes'
  BY <1>7, <1>t DEF QuiesceCount
<1>8. ASSUME AfterQuiesce PROVE SimpleTypes'
  <2>1. /\ UNCHANGED <<finder, kernel, others, hist>>
        /\ Goto("task", "cb_ev") \/ Goto("task", "cb")
    BY <1>8, Zenon DEF AfterQuiesce
  <2>2. rep' \in ReportRecord
    <3>1. \/ rep' = [rep EXCEPT !.spur = FALSE]
          \/ rep' = [rep EXCEPT !.i = @ + 1, !.spur = @ /\ rep.ev # "NONE"]
      BY <1>8, Zenon DEF AfterQuiesce
    <3> QED
      BY <1>r, <3>1
  <2> QED
    BY <1>t, <2>1, <2>2
<1>9. ASSUME EventCheck PROVE SimpleTypes'
  <2>1. /\ UNCHANGED <<finder, kernel, others, hist>>
        /\ (Goto("task", "ev_in") /\ UNCHANGED rep) \/ DetachCurrent
    BY <1>9, Zenon DEF EventCheck
  <2> QED
    BY <1>d, <1>t, <2>1
<1>10. ASSUME EventEnter PROVE SimpleTypes'
  BY <1>10, <1>t, CallControl DEF EventEnter
<1>11. ASSUME ExecMatched PROVE SimpleTypes'
  <2>1. /\ UNCHANGED <<tf, reg, kernel, others, hist>> /\ tgtAttached' \in BOOLEAN
        /\ rep' = [rep EXCEPT !.i = @ + 1] /\ Goto("task", "cb")
    BY <1>11 DEF ExecMatched
  <2> QED
    BY <1>r, <1>t, <2>1
<1>12. ASSUME TargetEnd PROVE SimpleTypes'
  <2>1. /\ UNCHANGED <<tf, reg, tgtAttached, kernel, others, forked, raced, early, execs, nbegin>>
        /\ nend' = nend + 1
    BY <1>12 DEF TargetEnd
  <2>2. DetachCurrent
    BY <1>12, Zenon DEF TargetEnd
  <2> QED
    BY <1>d, <1>t, <2>1, <2>2
<1>13. ASSUME finish_report PROVE SimpleTypes'
  BY <1>13, <1>t DEF finish_report
<1>14. ASSUME InterruptAgain PROVE SimpleTypes'
  BY <1>14, <1>t DEF InterruptAgain
<1>15. ASSUME NotifyAgain PROVE SimpleTypes'
  <2>1. rep.s \in Structs
    BY <1>15, <1>t, ReportedLive DEF NotifyAgain, UsesReport
  <2>2. Resume(rep.s) \in Works
    BY <2>1, WorkDistinct
  <2> QED
    BY <1>15, <1>t, <2>2 DEF NotifyAgain
<1>16. ASSUME NotifyCount PROVE SimpleTypes'
  BY <1>16, <1>t DEF NotifyCount
<1>17. ASSUME utrace_maybe_reap PROVE SimpleTypes'
  BY <1>17, <1>t DEF utrace_maybe_reap
<1>18. ASSUME SecondPut PROVE SimpleTypes'
  BY <1>18, <1>t DEF SecondPut
<1> HIDE LabelNames DEF finder, kernel, others, hist, Goto, SimpleTypes, Places, WorkTypes,
   OtherTypes, HistoryType, Procs
<1> QED
  BY <1>1, <1>2, <1>3, <1>4, <1>5, <1>6, <1>7, <1>8, <1>9, <1>10, <1>11, <1>12, <1>13, <1>14,
     <1>15, <1>16, <1>17, <1>18, Zenon DEF PassStep

(* ... and of the task around its task works.                               *)
LEMMA WorkSimple ==
    ASSUME TypeInv, UseInv, ~Oops, WorkStep
    PROVE  SimpleTypes'
<1> USE LabelNames DEF finder, kernel, others, hist, Goto, SimpleTypes, Places, WorkTypes,
   OtherTypes, HistoryType, Procs
<1>t. SimpleTypes /\ Calls /\ Objects
  BY DEF TypeInv, MemoryTypes
<1>r. NoReport \in ReportRecord /\ \A n \in Nat : [rep EXCEPT !.i = n] \in ReportRecord
  BY <1>t, ReportEdits
<1>1. ASSUME TakeWorks PROVE SimpleTypes'
  BY <1>1, <1>t DEF TakeWorks
<1>2. ASSUME NEW w \in taken, RunWork(w) PROVE SimpleTypes'
  <2>1. UNCHANGED <<finder, works, tk, others, hist>>
    BY <1>2, Zenon DEF RunWork
  <2>2. /\ rep' \in ReportRecord /\ taken' = taken \ {w}
        /\ \E l \in {"put", "rep_start", "rw_lock", "tf"} : Goto("task", l)
    <3>1. w \in Works
      BY <1>t
    <3> HIDE LabelNames DEF Goto
    <3> QED
      BY <1>2, <1>t, <3>1, RunEffect
  <2> QED
    BY <1>t, <2>1, <2>2
<1>3. ASSUME WorksDone PROVE SimpleTypes'
  BY <1>3, <1>t DEF WorksDone
<1>4. ASSUME Die PROVE SimpleTypes'
  BY <1>4, <1>t DEF Die
<1>5. ASSUME TfDequeue PROVE SimpleTypes'
  <2>1. /\ UNCHANGED <<finder, kernel, fails, hist>>
        /\ \/ Goto("task", "w_done") /\ UNCHANGED <<tfs, rep>>
           \/ /\ tfs # <<>> /\ rep' = [rep EXCEPT !.i = Head(tfs)] /\ tfs' = Tail(tfs)
              /\ Goto("task", "tf_chk")
    BY <1>5, Zenon DEF TfDequeue
  <2>2. CASE UNCHANGED <<tfs, rep>> /\ Goto("task", "w_done")
    BY <1>t, <2>1, <2>2
  <2>3. CASE /\ tfs # <<>> /\ rep' = [rep EXCEPT !.i = Head(tfs)] /\ tfs' = Tail(tfs)
             /\ Goto("task", "tf_chk")
    <3>1. Head(tfs) \in Nat /\ Tail(tfs) \in Seq(Engines \cup {CloneId})
      <4>1. Head(tfs) \in Engines \cup {CloneId} /\ Tail(tfs) \in Seq(Engines \cup {CloneId})
        BY <1>t, <2>3
      <4> QED
        BY <4>1, UtraceAssumption DEF Engines, CloneId
    <3>2. rep' \in ReportRecord
      BY <1>r, <2>3, <3>1
    <3> QED
      BY <1>t, <2>1, <2>3, <3>1, <3>2
  <2> QED
    BY <2>1, <2>2, <2>3
<1>6. ASSUME TfCheck PROVE SimpleTypes'
  BY <1>6, <1>t DEF TfCheck
<1>7. ASSUME TfEnter PROVE SimpleTypes'
  BY <1>7, <1>t, CallControl DEF TfEnter
<1>8. ASSUME TfBegin PROVE SimpleTypes'
  BY <1>8, <1>t DEF TfBegin
<1>9. ASSUME CloneMatch PROVE SimpleTypes'
  BY <1>9, <1>t, CallControl DEF CloneMatch
<1>10. ASSUME CloneDone PROVE SimpleTypes'
  BY <1>10, <1>t DEF CloneDone
<1>11. ASSUME stp_task_work_func_done PROVE SimpleTypes'
  BY <1>11, <1>t, <1>r DEF stp_task_work_func_done
<1>12. ASSUME Wake PROVE SimpleTypes'
  BY <1>12, <1>t DEF Wake
<1> HIDE LabelNames DEF finder, kernel, others, hist, Goto, SimpleTypes, Places, WorkTypes,
   OtherTypes, HistoryType, Procs
<1> QED
  BY <1>1, <1>2, <1>3, <1>4, <1>5, <1>6, <1>7, <1>8, <1>9, <1>10, <1>11, <1>12, Zenon DEF WorkStep

(* The structs, the engines, the table and the calls keep their types.       *)
LEMMA SameMemory ==
    /\ Calls /\ UNCHANGED at => Calls'
    /\ Objects /\ UNCHANGED u => Objects'
    /\ Handles /\ UNCHANGED eng => Handles'
BY DEF Calls, Objects, Handles

(* A new call leaves the calls well formed.                                 *)
LEMMA NewCalls ==
    ASSUME NEW p, \E c : NewCall(p, c)
    PROVE  Calls'
BY DEF NewCall, Calls

(* The steps of __stp_utrace_attach() keep the shapes.                      *)
LEMMA AttachMemory ==
    ASSUME TypeInv, UseInv, ~Oops, NEW p \in Procs, AttachStep(p)
    PROVE  MemoryTypes'
<1>0. /\ Calls /\ Objects /\ Handles /\ table \in Seq(Structs)
      /\ at[p].rc \in ReturnCodes
  BY CallLabelled DEF TypeInv, MemoryTypes
<1>s. "0" \in ReturnCodes /\ "ESRCH" \in ReturnCodes
  BY DEF ReturnCodes
<1>g. ASSUME NEW f, NEW n, NEW rc \in ReturnCodes, GetStruct(p, f, n, rc)
      PROVE  MemoryTypes'
  <2>1. UNCHANGED <<table, eng>>
    BY <1>g DEF GetStruct
  <2>2. Calls' /\ Objects'
    BY <1>0, <1>g, GetEffect, NewCalls, SameMemory
  <2> QED
    BY <1>0, <2>1, <2>2, SameMemory DEF MemoryTypes
<1>1. ASSUME PutStruct(p) PROVE MemoryTypes'
  <2>1. at[p].s \in Structs /\ UNCHANGED <<at, eng, table>>
    BY <1>0, <1>1, UsedLive DEF PutStruct, UsesStruct
  <2> QED
    BY <1>0, <1>1, <2>1, PutEffect, SameMemory DEF MemoryTypes
<1>2. ASSUME utrace_cleanup(p) PROVE MemoryTypes'
  <2>1. at[p].s \in Structs /\ UNCHANGED at
    BY <1>0, <1>2, UsedLive DEF utrace_cleanup, UsesStruct
  <2>2. Freed({at[p].s})
    BY <1>0, <1>2, <2>1, FreeEffect DEF utrace_cleanup
  <2> QED
    BY <1>0, <2>1, <2>2, SameMemory DEF MemoryTypes, Freed
<1>3. ASSUME AttachGet(p) PROVE MemoryTypes'
  BY <1>3, <1>g, <1>s DEF AttachGet
<1>4. ASSUME utrace_task_alloc(p) PROVE MemoryTypes'
  <2>1. UNCHANGED eng
    BY <1>4 DEF utrace_task_alloc
  <2> QED
    BY <1>0, <1>4, <2>1, AllocEffect, NewCalls, SameMemory DEF MemoryTypes, Made
<1>5. ASSUME utrace_add_engine(p) PROVE MemoryTypes'
  <2>1. UNCHANGED table /\ pc[p] = "att_eng"
    BY <1>5 DEF utrace_add_engine
  <2>2. PICK s \in Structs : at[p].s = s
    BY <1>0, <2>1, UsedLive DEF UsesStruct
  <2> QED
    BY <1>0, <1>5, <2>1, <2>2, AddEffect, NewCalls, SameMemory DEF MemoryTypes, Queued
<1>6. ASSUME AttachFailed(p) PROVE MemoryTypes'
  <2>1. UNCHANGED <<u, eng, table>> /\ \E rc \in ReturnCodes : Returned(p, rc)
    BY <1>0, <1>6, <1>s DEF AttachFailed
  <2> QED
    BY <1>0, <2>1, ReturnEffect, NewCalls, SameMemory DEF MemoryTypes
<1>7. ASSUME SetEventsGet(p) PROVE MemoryTypes'
  BY <1>7, <1>g, <1>s DEF SetEventsGet
<1>8. ASSUME utrace_set_events(p) PROVE MemoryTypes'
  <2>1. UNCHANGED table /\ pc[p] = "ev_set"
    BY <1>8 DEF utrace_set_events
  <2>2. PICK s \in Structs : at[p].s = s
    BY <1>0, <2>1, UsedLive DEF UsesStruct
  <2>3. at[p].e \in Engines
    BY <2>1 DEF UseInv, WithEngine, UsesEngine
  <2> QED
    BY <1>0, <1>8, <2>1, <2>2, <2>3, SetEventsEffect, NewCalls, SameMemory
       DEF MemoryTypes, EventsSet
<1>9. ASSUME ControlGet(p) PROVE MemoryTypes'
  BY <1>9, <1>g, <1>s DEF ControlGet
<1>10. ASSUME utrace_control(p) PROVE MemoryTypes'
  <2>1. UNCHANGED <<table, eng>> /\ pc[p] = "ctl_lock"
    BY <1>10, Zenon DEF utrace_control
  <2>2. PICK s \in Structs : at[p].s = s
    BY <1>0, <2>1, UsedLive DEF UsesStruct
  <2> QED
    BY <1>0, <1>10, <2>1, <2>2, ControlEffect, NewCalls, SameMemory DEF MemoryTypes, Notified
<1>11. ASSUME stp_task_work_get(p) PROVE MemoryTypes'
  BY <1>0, <1>11, SameMemory DEF stp_task_work_get, MemoryTypes
<1>12. ASSUME EnginePut(p) PROVE MemoryTypes'
  <2>1. UNCHANGED <<table, u>> /\ pc[p] = "eng_put"
    BY <1>12 DEF EnginePut
  <2>2. PICK e \in Engines : at[p].e = e
    BY <2>1 DEF UseInv, WithEngine, UsesEngine
  <2> QED
    BY <1>0, <1>12, <2>1, <2>2, EnginePutEffect, NewCalls, SameMemory DEF MemoryTypes, Dropped
<1> QED
  BY <1>1, <1>2, <1>3, <1>4, <1>5, <1>6, <1>7, <1>8, <1>9, <1>10, <1>11, <1>12, Zenon
     DEF AttachStep

(* The masks are sets of event bits.                                        *)
LEMMA EventSets ==
    /\ FinderEvents \in SUBSET EventBits /\ TargetEvents \in SUBSET EventBits
    /\ BaseEvents \in SUBSET EventBits
    /\ "finder" \in OpsValues /\ "target" \in OpsValues
BY DEF FinderEvents, TargetEvents, BaseEvents, EventBits, OpsValues

(* The other steps of the stap thread keep the shapes.                      *)
LEMMA StapMemory ==
    ASSUME TypeInv, UseInv, ~Oops, StapStep
    PROVE  MemoryTypes'
<1>0. /\ Calls /\ Objects /\ Handles /\ table \in Seq(Structs) /\ "stap" \in Procs
      /\ "RESUME" \in {"NONE", "RESUME", "INTERRUPT"}
      /\ "INTERRUPT" \in {"NONE", "RESUME", "INTERRUPT"}
  BY DEF TypeInv, MemoryTypes, Procs
<1>k. ASSUME UNCHANGED <<u, eng, table, at>> PROVE MemoryTypes'
  BY <1>0, <1>k, SameMemory DEF MemoryTypes
<1>1. ASSUME StartFinder PROVE MemoryTypes'
  <2>1. UNCHANGED <<u, eng, table>> /\ "s_finder" \in Labels
        /\ Call("stap", "finder", FinderEvents, "RESUME", "s_finder")
    BY <1>1, LabelNames DEF StartFinder
  <2> QED
    BY <1>0, <2>1, EventSets, CallEffect, NewCalls, SameMemory DEF MemoryTypes
<1>2. ASSUME StartTarget PROVE MemoryTypes'
  <2>1. /\ UNCHANGED <<u, eng, table>> /\ "s_target" \in Labels
        /\ Call("stap", "target", TargetEvents, "INTERRUPT", "s_target") \/ UNCHANGED at
    BY <1>2, LabelNames DEF StartTarget
  <2> QED
    BY <1>0, <2>1, EventSets, CallEffect, NewCalls, SameMemory DEF MemoryTypes
<1>3. ASSUME StartDone PROVE MemoryTypes'
  BY <1>3, <1>k DEF StartDone
<1>4. ASSUME PostGet PROVE MemoryTypes'
  <2>1. \/ GetStruct("stap", "post_find", "running", "0")
        \/ UNCHANGED <<u, eng, table, at>>
    BY <1>4, Zenon DEF PostGet
  <2>2. CASE GetStruct("stap", "post_find", "running", "0")
    <3>1. UNCHANGED <<table, eng>> /\ "0" \in ReturnCodes
      BY <2>2 DEF GetStruct, ReturnCodes
    <3>2. Calls' /\ Objects'
      BY <1>0, <2>2, <3>1, GetEffect, NewCalls, SameMemory
    <3> QED
      BY <1>0, <3>1, <3>2, SameMemory DEF MemoryTypes
  <2> QED
    BY <1>k, <2>1, <2>2
<1>5. ASSUME find_matching_engine PROVE MemoryTypes'
  <2>1. UNCHANGED <<table, u>> /\ pc["stap"] = "post_find"
    BY <1>5, Zenon DEF find_matching_engine
  <2>2. PICK s \in Structs : at["stap"].s = s
    BY <1>0, <2>1, UsedLive DEF UsesStruct
  <2> QED
    BY <1>0, <1>5, <2>1, <2>2, FindEffect, NewCalls, SameMemory DEF MemoryTypes
<1>6. ASSUME Stop PROVE MemoryTypes'
  BY <1>6, <1>k DEF Stop
<1>7. ASSUME CloseFinder PROVE MemoryTypes'
  BY <1>7, <1>k DEF CloseFinder
<1>8. ASSUME utrace_shutdown PROVE MemoryTypes'
  BY <1>8, <1>k DEF utrace_shutdown
<1>9. ASSUME Synchronize PROVE MemoryTypes'
  BY <1>9, <1>k DEF Synchronize
<1>10. ASSUME CancelUtraceWork PROVE MemoryTypes'
  BY <1>10, <1>k DEF CancelUtraceWork
<1>11. ASSUME WaitInuse PROVE MemoryTypes'
  BY <1>11, <1>k DEF WaitInuse
<1>12. ASSUME CancelTfWork PROVE MemoryTypes'
  BY <1>12, <1>k DEF CancelTfWork
<1>13. ASSUME stp_task_work_exit PROVE MemoryTypes'
  BY <1>13, <1>k DEF stp_task_work_exit
<1>14. ASSUME utrace_exit PROVE MemoryTypes'
  <2> DEFINE S == {s \in ToSet(table) : u[s].ref > 0}
  <2>1. UNCHANGED at /\ FreeStructs(S)
    BY <1>14 DEF utrace_exit
  <2>2. S \in SUBSET Structs
    BY <1>0, ToSetParts
  <2> HIDE DEF S
  <2>3. Freed(S)
    BY <1>0, <2>1, <2>2, FreeEffect
  <2> QED
    BY <1>0, <2>1, <2>3, SameMemory DEF MemoryTypes, Freed
<1> QED
  BY <1>1, <1>2, <1>3, <1>4, <1>5, <1>6, <1>7, <1>8, <1>9, <1>10, <1>11, <1>12, <1>13, <1>14,
     Zenon DEF StapStep

(* The tracepoint probes keep the shapes.                                   *)
LEMMA ProbeMemory ==
    ASSUME TypeInv, UseInv, ~Oops, ProbeStep
    PROVE  MemoryTypes'
<1>0. /\ Calls /\ Objects /\ Handles /\ table \in Seq(Structs) /\ "task" \in Procs
      /\ rep \in ReportRecord
  BY DEF TypeInv, MemoryTypes, SimpleTypes, Procs
<1> USE DEF others
<1>k. ASSUME UNCHANGED <<u, eng, table, at>> PROVE MemoryTypes'
  BY <1>0, <1>k, SameMemory DEF MemoryTypes
<1>1. ASSUME Exec PROVE MemoryTypes'
  BY <1>1, <1>k DEF Exec
<1>2. ASSUME Exit PROVE MemoryTypes'
  BY <1>2, <1>k DEF Exit
<1>3. ASSUME TracepointGet PROVE MemoryTypes'
  <2>1. UNCHANGED <<table, eng>>
    BY <1>3, Zenon DEF TracepointGet
  <2>2. Calls' /\ Objects'
    BY <1>0, <1>3, TracepointEffect, NewCalls, SameMemory
  <2> QED
    BY <1>0, <2>1, <2>2, SameMemory DEF MemoryTypes
<1>4. ASSUME DeathCount PROVE MemoryTypes'
  BY <1>4, <1>k DEF DeathCount
<1>5. ASSUME TracepointReturn PROVE MemoryTypes'
  <2>1. UNCHANGED <<u, eng, table>> /\ at' = [at EXCEPT !["task"] = NoCall]
    BY <1>5 DEF TracepointReturn
  <2>2. NewCall("task", NoCall)
    BY <1>0, <2>1, CallReplaced, EmptyCall
  <2> QED
    BY <1>0, <2>1, <2>2, NewCalls, SameMemory DEF MemoryTypes
<1> QED
  BY <1>1, <1>2, <1>3, <1>4, <1>5, Zenon DEF ProbeStep

(* A detached engine is an engine, with the same count.                     *)
LEMMA DetachTypes ==
    ASSUME Handles, Objects, UseInv, ~Oops, DetachCurrent,
           pc["task"] \in {"cb_q", "cb_ev", "end_cb"}
    PROVE  Handles' /\ SameEngines
<1> DEFINE r == [eng[Current] EXCEPT !.ops = "detached"]
           e == Current
<1>1. e \in Engines
  BY CurrentIs
<1>2. eng[e] \in EngineRecord
  BY <1>1 DEF Handles
<1>3. r \in EngineRecord /\ r.mem = eng[e].mem /\ r.ref = eng[e].ref
  BY <1>2 DEF EngineRecord, OpsValues
<1>4. eng' = [eng EXCEPT ![e] = r]
  BY <1>1 DEF DetachCurrent, Handles
<1> HIDE DEF r, e
<1>5. Handles' /\ eng'[e] = r /\ \A d \in Engines : d # e => eng'[d] = eng[d]
  BY <1>1, <1>3, <1>4, EngineReplaced
<1> QED
  BY <1>3, <1>5 DEF SameEngines

(* The steps of a reporting pass keep the shapes.                           *)
LEMMA PassMemory ==
    ASSUME TypeInv, UseInv, ~Oops, PassStep
    PROVE  MemoryTypes'
<1>0. /\ Calls /\ Objects /\ Handles /\ table \in Seq(Structs) /\ "task" \in Procs
      /\ rep \in ReportRecord /\ "INTERRUPT" \in {"NONE", "RESUME", "INTERRUPT"}
      /\ {"w_done", "tp_out", "put2", "x_out"} \subseteq Labels
  BY LabelNames DEF TypeInv, MemoryTypes, SimpleTypes, Procs
<1> USE DEF others
<1>k. ASSUME UNCHANGED <<u, eng, table, at>> PROVE MemoryTypes'
  BY <1>0, <1>k, SameMemory DEF MemoryTypes
<1>s. ASSUME pc["task"] \in UsesReport PROVE rep.s \in Structs
  BY <1>0, <1>s, ReportedLive
<1>d. ASSUME DetachCurrent, pc["task"] \in {"cb_q", "cb_ev", "end_cb"},
             UNCHANGED <<u, table, at>>
      PROVE  MemoryTypes'
  BY <1>0, <1>d, DetachTypes, SameMemory DEF MemoryTypes
<1>1. ASSUME start_report PROVE MemoryTypes'
  <2>1. UNCHANGED <<table, eng>> /\ pc["task"] = "rep_start"
    BY <1>1 DEF start_report
  <2>2. PICK s \in Structs : rep.s = s
    BY <1>s, <2>1 DEF UsesReport
  <2>3. /\ UNCHANGED u
             \/ u' = [u EXCEPT ![s] = [splice_attaching(u[s]) EXCEPT !.resume = "RESUME"]]
        /\ at' = [at EXCEPT !["task"].s = s, !["task"].k = "w_done"]
    BY <1>0, <1>1, <2>2 DEF start_report, Objects
  <2>4. Objects'
    <3>1. CASE UNCHANGED u
      BY <1>0, <3>1, SameMemory
    <3>2. CASE u' = [u EXCEPT ![s] = [splice_attaching(u[s]) EXCEPT !.resume = "RESUME"]]
      <4>1. Spliced(s)
        BY <1>0, <3>2, ResumeSpliceEffect, Zenon
      <4> QED
        BY <4>1 DEF Spliced
    <3> QED
      BY <2>3, <3>1, <3>2
  <2>5. \E c : NewCall("task", c)
    BY <1>0, <2>3, CallGoes, Zenon
  <2> QED
    BY <1>0, <2>1, <2>4, <2>5, NewCalls, SameMemory DEF MemoryTypes
<1>2. ASSUME StartDeathReport PROVE MemoryTypes'
  <2>1. UNCHANGED <<table, eng, at>> /\ pc["task"] = "rw_lock"
    BY <1>2 DEF StartDeathReport
  <2>2. PICK s \in Structs : rep.s = s
    BY <1>s, <2>1 DEF UsesReport
  <2>3. u' = [u EXCEPT ![s] = [splice_attaching(u[s]) EXCEPT !.death = TRUE, !.resume = "RESUME"]]
    BY <1>0, <1>2, <2>2 DEF StartDeathReport, Objects
  <2>4. TRUE \in BOOLEAN /\ "RESUME" \in {"RESUME", "INTERRUPT"}
    OBVIOUS
  <2>5. Spliced(s)
    BY <1>0, <2>3, <2>4, SpliceEffect, Zenon
  <2> QED
    BY <1>0, <2>1, <2>5, SameMemory DEF MemoryTypes, Spliced
<1>3. ASSUME start_callback PROVE MemoryTypes'
  BY <1>3, <1>k DEF start_callback
<1>4. ASSUME QuiesceCheck PROVE MemoryTypes'
  <2>1. /\ UNCHANGED <<u, table, at>> /\ pc["task"] = "cb_q"
        /\ UNCHANGED eng \/ DetachCurrent
    BY <1>4, Zenon DEF QuiesceCheck
  <2> QED
    BY <1>d, <1>k, <2>1
<1>5. ASSUME QuiesceEnter PROVE MemoryTypes'
  <2> DEFINE e == Current
             c == [NoCall EXCEPT !.e = e, !.ev = BaseEvents, !.act = "NONE", !.ret = "q_add"]
  <2>1. UNCHANGED <<u, eng, table>> /\ at' = [at EXCEPT !["task"] = c]
    BY <1>5 DEF QuiesceEnter
  <2>2. e \in Engines
    BY <1>0, <1>5, CurrentIs DEF QuiesceEnter
  <2> HIDE DEF e
  <2>3. c \in CallRecord
    <3>1. "q_add" \in Labels
      BY LabelNames
    <3> QED
      BY <2>2, <3>1, EmptyCall, EventSets DEF CallRecord
  <2> HIDE DEF c
  <2>4. NewCall("task", c)
    BY <1>0, <2>1, <2>3, CallReplaced
  <2> QED
    BY <1>0, <2>1, <2>4, NewCalls, SameMemory DEF MemoryTypes
<1>6. ASSUME QuiesceAdd PROVE MemoryTypes'
  BY <1>6, <1>k DEF QuiesceAdd
<1>7. ASSUME QuiesceCount PROVE MemoryTypes'
  BY <1>7, <1>k DEF QuiesceCount
<1>8. ASSUME AfterQuiesce PROVE MemoryTypes'
  BY <1>8, <1>k DEF AfterQuiesce
<1>9. ASSUME EventCheck PROVE MemoryTypes'
  <2>1. /\ UNCHANGED <<u, table, at>> /\ pc["task"] = "cb_ev"
        /\ UNCHANGED eng \/ DetachCurrent
    BY <1>9, Zenon DEF EventCheck
  <2> QED
    BY <1>d, <1>k, <2>1
<1>10. ASSUME EventEnter PROVE MemoryTypes'
  <2>1. /\ UNCHANGED <<u, eng, table>>
        /\ Call("task", "target", TargetEvents, "INTERRUPT", "x_out") \/ UNCHANGED at
    BY <1>10, Zenon DEF EventEnter
  <2>2. "x_out" \in Labels
    BY LabelNames
  <2> QED
    BY <1>0, <2>1, <2>2, EventSets, CallEffect, NewCalls, SameMemory DEF MemoryTypes
<1>11. ASSUME ExecMatched PROVE MemoryTypes'
  BY <1>11, <1>k DEF ExecMatched
<1>12. ASSUME TargetEnd PROVE MemoryTypes'
  <2>1. UNCHANGED <<u, table, at>> /\ pc["task"] = "end_cb" /\ DetachCurrent
    BY <1>12, Zenon DEF TargetEnd
  <2> QED
    BY <1>d, <2>1
<1>r. ASSUME NEW s \in Structs, NEW k \in Labels, UNCHANGED <<u, eng>> \/ utrace_reset(s),
             at' = [at EXCEPT !["task"].s = s, !["task"].k = k], UNCHANGED table
      PROVE  MemoryTypes'
  <2>1. Objects' /\ Handles'
    BY <1>0, <1>r, ResetEffect, SameMemory DEF Reset, Dropped
  <2>2. \E c : NewCall("task", c)
    BY <1>0, <1>r, CallGoes, Zenon
  <2> QED
    BY <1>0, <1>r, <2>1, <2>2, NewCalls DEF MemoryTypes
<1>13. ASSUME finish_report PROVE MemoryTypes'
  <2>1. /\ UNCHANGED table /\ pc["task"] = "fin"
        /\ at' = [at EXCEPT !["task"].s = rep.s,
                            !["task"].k = IF rep.tp THEN "tp_out" ELSE "w_done"]
        /\ UNCHANGED <<u, eng>> \/ utrace_reset(rep.s)
    BY <1>13, Zenon DEF finish_report
  <2>2. rep.s \in Structs
    BY <1>s, <2>1 DEF UsesReport
  <2> DEFINE k == IF rep.tp THEN "tp_out" ELSE "w_done"
  <2>3. k \in Labels
    BY <1>0
  <2>4. at' = [at EXCEPT !["task"].s = rep.s, !["task"].k = k]
    BY <2>1
  <2> HIDE DEF k
  <2> QED
    BY <1>r, <2>1, <2>2, <2>3, <2>4, Zenon
<1>14. ASSUME InterruptAgain PROVE MemoryTypes'
  <2>1. /\ UNCHANGED table /\ pc["task"] = "fin"
        /\ at' = [at EXCEPT !["task"].s = rep.s, !["task"].k = "w_done"]
        /\ utrace_reset(rep.s)
    BY <1>14, Zenon DEF InterruptAgain
  <2>2. rep.s \in Structs /\ "w_done" \in Labels
    BY <1>0, <1>s, <2>1 DEF UsesReport
  <2> QED
    BY <1>r, <2>1, <2>2, Zenon
<1>15. ASSUME NotifyAgain PROVE MemoryTypes'
  <2>1. /\ UNCHANGED <<table, eng, at>> /\ pc["task"] = "notify"
        /\ UNCHANGED u
            \/ /\ ~u[rep.s].resumeAdded /\ works' = works \cup {Resume(rep.s)}
               /\ u' = [u EXCEPT ![rep.s] = stp_task_notify_resume(@)]
    BY <1>15, Zenon DEF NotifyAgain
  <2>2. PICK s \in Structs : rep.s = s
    BY <1>s, <2>1 DEF UsesReport
  <2>3. u[s] \in StructRecord
    BY <1>0 DEF Objects
  <2>4. Objects'
    <3>1. CASE UNCHANGED u
      BY <1>0, <3>1, SameMemory
    <3>2. CASE /\ ~u[s].resumeAdded /\ works' = works \cup {Resume(s)}
               /\ u' = [u EXCEPT ![s] = stp_task_notify_resume(u[s])]
      <4>1. Notified(s)
        BY <1>0, <2>3, <3>2, NotifyEffect, Zenon
      <4> QED
        BY <4>1 DEF Notified
    <3> QED
      BY <1>0, <2>1, <2>2, <3>1, <3>2 DEF Objects
  <2> QED
    BY <1>0, <2>1, <2>4, SameMemory DEF MemoryTypes
<1>16. ASSUME NotifyCount PROVE MemoryTypes'
  BY <1>16, <1>k DEF NotifyCount
<1>17. ASSUME utrace_maybe_reap PROVE MemoryTypes'
  <2>1. /\ UNCHANGED table /\ pc["task"] = "reap"
        /\ at' = [at EXCEPT !["task"].s = rep.s, !["task"].k = "put2"]
        /\ utrace_reset(rep.s)
    BY <1>17, Zenon DEF utrace_maybe_reap
  <2>2. rep.s \in Structs /\ "put2" \in Labels
    BY <1>0, <1>s, <2>1 DEF UsesReport
  <2> QED
    BY <1>r, <2>1, <2>2, Zenon
<1>18. ASSUME SecondPut PROVE MemoryTypes'
  <2>1. UNCHANGED <<u, eng, table>> /\ at' = [at EXCEPT !["task"].k = "w_done"]
    BY <1>18 DEF SecondPut
  <2>2. \E c : NewCall("task", c)
    <3>1. "w_done" \in Labels
      BY <1>0
    <3> QED
      BY <1>0, <2>1, <3>1, CallPutsNext, Zenon
  <2> QED
    BY <1>0, <2>1, <2>2, NewCalls, SameMemory DEF MemoryTypes
<1> QED
  BY <1>1, <1>2, <1>3, <1>4, <1>5, <1>6, <1>7, <1>8, <1>9, <1>10, <1>11, <1>12, <1>13, <1>14,
     <1>15, <1>16, <1>17, <1>18, Zenon DEF PassStep

(* The task works keep the shapes.                                          *)
LEMMA WorkMemory ==
    ASSUME TypeInv, UseInv, ~Oops, WorkStep
    PROVE  MemoryTypes'
<1>0. /\ Calls /\ Objects /\ Handles /\ table \in Seq(Structs) /\ "task" \in Procs
      /\ taken \in SUBSET Works
      /\ "RESUME" \in {"NONE", "RESUME", "INTERRUPT"}
      /\ "INTERRUPT" \in {"NONE", "RESUME", "INTERRUPT"}
      /\ {"cl_match", "cl_end"} \subseteq Labels
  BY LabelNames DEF TypeInv, MemoryTypes, SimpleTypes, WorkTypes, Procs
<1> USE DEF others
<1>k. ASSUME UNCHANGED <<u, eng, table, at>> PROVE MemoryTypes'
  BY <1>0, <1>k, SameMemory DEF MemoryTypes
<1>1. ASSUME TakeWorks PROVE MemoryTypes'
  BY <1>1, <1>k DEF TakeWorks
<1>2. ASSUME NEW w \in taken, RunWork(w) PROVE MemoryTypes'
  <2>1. UNCHANGED <<eng, table>> /\ w \in Works
    BY <1>0, <1>2 DEF RunWork
  <2>2. Objects' /\ Calls'
    BY <1>0, <1>2, <2>1, RunEffect, NewCalls DEF Begins
  <2> QED
    BY <1>0, <2>1, <2>2, SameMemory DEF MemoryTypes
<1>3. ASSUME WorksDone PROVE MemoryTypes'
  BY <1>3, <1>k DEF WorksDone
<1>4. ASSUME Die PROVE MemoryTypes'
  BY <1>4, <1>k DEF Die
<1>5. ASSUME TfDequeue PROVE MemoryTypes'
  BY <1>5, <1>k DEF TfDequeue
<1>6. ASSUME TfCheck PROVE MemoryTypes'
  BY <1>6, <1>k DEF TfCheck
<1>7. ASSUME TfEnter PROVE MemoryTypes'
  <2>1. /\ UNCHANGED <<u, eng, table>>
        /\ Call("task", "finder", FinderEvents, "RESUME", "cl_match") \/ UNCHANGED at
    BY <1>7, Zenon DEF TfEnter
  <2> QED
    BY <1>0, <2>1, EventSets, CallEffect, NewCalls, SameMemory DEF MemoryTypes
<1>8. ASSUME TfBegin PROVE MemoryTypes'
  BY <1>8, <1>k DEF TfBegin
<1>9. ASSUME CloneMatch PROVE MemoryTypes'
  <2>1. /\ UNCHANGED <<u, eng, table>>
        /\ Call("task", "target", TargetEvents, "INTERRUPT", "cl_end") \/ UNCHANGED at
    BY <1>9, Zenon DEF CloneMatch
  <2> QED
    BY <1>0, <2>1, EventSets, CallEffect, NewCalls, SameMemory DEF MemoryTypes
<1>10. ASSUME CloneDone PROVE MemoryTypes'
  BY <1>10, <1>k DEF CloneDone
<1>11. ASSUME stp_task_work_func_done PROVE MemoryTypes'
  <2>1. UNCHANGED <<u, eng, table>> /\ at' = [at EXCEPT !["task"] = NoCall]
    BY <1>11 DEF stp_task_work_func_done
  <2>2. NewCall("task", NoCall)
    BY <1>0, <2>1, CallReplaced, EmptyCall
  <2> QED
    BY <1>0, <2>1, <2>2, NewCalls, SameMemory DEF MemoryTypes
<1>12. ASSUME Wake PROVE MemoryTypes'
  BY <1>12, <1>k DEF Wake
<1> QED
  BY <1>1, <1>2, <1>3, <1>4, <1>5, <1>6, <1>7, <1>8, <1>9, <1>10, <1>11, <1>12, Zenon
     DEF WorkStep

-----------------------------------------------------------------------------
(* What is in use, and who uses which engine.                               *)

(* No struct comes back once it was freed, and only a freed one loses the
   engines of its attached list.                                            *)
MemGrows == \A t \in Structs :
    /\ u[t].mem # "unused" => u'[t].mem # "unused"
    /\ u[t].mem = "freed" => u'[t].mem = "freed"
AttachedKept == \A t \in Structs :
    u[t].mem = "unused" \/ u'[t].mem = "freed" \/ u'[t].attached = u[t].attached

(* The parts of UseInv: of each process, of the reporting pass, of the works. *)
UseBy(p) ==
    /\ pc[p] \in UsesStruct => at[p].s \in Structs /\ u[at[p].s].mem # "unused"
    /\ pc[p] = "att_alloc" => ~at[p].found
    /\ WithEngine(p) => at[p].e \in Engines
PassUse ==
    /\ InPass \/ PutsReported => rep.s \in Structs /\ u[rep.s].mem # "unused"
    /\ InPass \/ PutsReported \/ pc["task"] = "tp_get" => rep.i # 0
    /\ PutsReported => at["task"].s = rep.s
    /\ AtEngine => u[rep.s].mem = "freed" \/ rep.i \in 1..Len(u[rep.s].attached)
    /\ WithEngine("task") /\ at["task"].act = "NONE" =>
         u[rep.s].mem = "freed" \/ at["task"].e = u[rep.s].attached[rep.i]
WorksUse == \A w \in works \cup taken : w.kind # "tf" => u[w.id].mem # "unused"
QuiesceUse ==
    /\ pc["task"] \in PutLabels /\ at["task"].k = "q_add" => at["task"].act = "NONE"
    /\ Calling("task") /\ at["task"].act = "NONE" =>
         \/ pc["task"] \in {"ev_get", "ev_set", "oops"}
         \/ pc["task"] \in PutLabels /\ at["task"].k = "q_add"

(* UseInv by its parts.                                                     *)
LEMMA UseParts ==
    UseInv <=> (\A p \in Procs : UseBy(p)) /\ PassUse /\ WorksUse /\ QuiesceUse
BY DEF UseInv, UseBy, PassUse, WorksUse, QuiesceUse

(* The same, after a step.                                                  *)
LEMMA UsePartsNext ==
    UseInv' <=> (\A p \in Procs : UseBy(p)') /\ PassUse' /\ WorksUse' /\ QuiesceUse'
BY DEF UseInv, UseBy, PassUse, WorksUse, QuiesceUse, UsesStruct, WithEngine, UsesEngine, InPass,
   PutsReported, AtEngine, Calling

(* The pass is at an engine only while it lasts.                            *)
LEMMA AtEngineInPass ==
    /\ AtEngine => InPass
    /\ PlaceInv /\ QuiesceUse /\ WithEngine("task") /\ at["task"].act = "NONE" => AtEngine
BY DEF AtEngine, InPass, UsesReport, PlaceInv, TaskPlace, WithEngine, UsesEngine, QuiesceUse,
   Calling, CallLabels, PutLabels, CallPuts

(* A process that does not move keeps its part.                             *)
LEMMA UseByKept ==
    ASSUME NEW p, pc'[p] = pc[p], at'[p] = at[p], MemGrows, UseBy(p)
    PROVE  UseBy(p)'
BY DEF UseBy, MemGrows, WithEngine

(* The pass keeps what it uses while the task stays where it is.            *)
LEMMA PassUseKept ==
    ASSUME pc'["task"] = pc["task"], at'["task"] = at["task"], UNCHANGED rep, MemGrows,
           AttachedKept, PlaceInv, PassUse, QuiesceUse
    PROVE  PassUse' /\ QuiesceUse'
<1>1. InPass' = InPass /\ PutsReported' = PutsReported /\ AtEngine' = AtEngine
      /\ WithEngine("task")' = WithEngine("task") /\ Calling("task")' = Calling("task")
  BY DEF InPass, PutsReported, AtEngine, WithEngine, Calling
<1>2. QuiesceUse'
  BY <1>1 DEF QuiesceUse
<1> QED
  BY <1>1, <1>2, AtEngineInPass DEF PassUse, MemGrows, AttachedKept

(* Fewer works use no more structs.                                         *)
LEMMA WorksUseKept ==
    ASSUME WorksUse, MemGrows, works \in SUBSET Works, taken \in SUBSET Works,
           works' \cup taken' \subseteq works \cup taken
    PROVE  WorksUse'
<1> SUFFICES ASSUME NEW w \in works' \cup taken', w.kind # "tf" PROVE u'[w.id].mem # "unused"
  BY DEF WorksUse
<1>1. w \in Works /\ w \in works \cup taken
  OBVIOUS
<1>2. w.id \in Structs
  BY <1>1, WorkKinds
<1> QED
  BY <1>1, <1>2 DEF WorksUse, MemGrows

(* The effects, in these terms.                                             *)
LEMMA MemEffects ==
    /\ Unmoved => MemGrows /\ AttachedKept
    /\ UNCHANGED u => Unmoved /\ SameAdded /\ SameRefs
    /\ \A S \in SUBSET Structs : Freed(S) => MemGrows /\ AttachedKept
BY DEF Unmoved, MemGrows, AttachedKept, SameAdded, SameRefs, Freed

(* No process gets an engine.                                               *)
NoGain == \A q \in Procs, e \in Engines : HasEngine(q, e)' => HasEngine(q, e)
(* In a call the task only goes on with what it was about.                  *)
TaskGoesOn ==
    /\ InPass' => InPass \/ PutsReported
    /\ pc'["task"] # "tp_get"
    /\ PutsReported' => PutsReported /\ at'["task"].s = at["task"].s
    /\ AtEngine' => AtEngine
    /\ WithEngine("task")' /\ at'["task"].act = "NONE" =>
         WithEngine("task") /\ at["task"].act = "NONE" /\ at'["task"].e = at["task"].e
    /\ QuiesceUse'

(* One process moves: UseInv is kept when it is kept for that one.          *)
LEMMA MoverUses ==
    ASSUME TypeInv, UseInv, PlaceInv, NEW p \in Procs, UNCHANGED <<rep, taken>>,
           MemGrows, AttachedKept,
           \A q \in Procs : q # p => pc'[q] = pc[q] /\ at'[q] = at[q],
           UseBy(p)', p = "task" => TaskGoesOn, WorksUse'
    PROVE  UseInv'
<1>1. (\A q \in Procs : UseBy(q)) /\ PassUse /\ WorksUse /\ QuiesceUse
  BY UseParts
<1>2. \A q \in Procs : UseBy(q)'
  BY <1>1, UseByKept
<1>3. CASE p = "stap"
  <2>1. pc'["task"] = pc["task"] /\ at'["task"] = at["task"]
    BY <1>3 DEF Procs
  <2>2. PassUse' /\ QuiesceUse'
    BY <1>1, <2>1, PassUseKept
  <2> QED
    BY <1>2, <2>2, UsePartsNext
<1>4. CASE p = "task"
  <2>1. PassUse'
    BY <1>1, <1>4, AtEngineInPass DEF PassUse, MemGrows, AttachedKept, TaskGoesOn
  <2> QED
    BY <1>2, <1>4, <2>1, UsePartsNext DEF TaskGoesOn
<1> QED
  BY <1>3, <1>4 DEF Procs

(* A mover that takes no reference on an engine gains none.                 *)
LEMMA Gains ==
    ASSUME NEW p \in Procs, \A q \in Procs : q # p => pc'[q] = pc[q] /\ at'[q] = at[q],
           \A e \in Engines : HasEngine(p, e)' => HasEngine(p, e)
    PROVE  NoGain
BY DEF NoGain, HasEngine, WithEngine

(* The steps of __stp_utrace_attach() keep UseInv.                          *)
LEMMA AttachUses ==
    ASSUME TypeInv, UseInv, ListInv, PlaceInv, ~Oops, NEW p \in Procs, AttachStep(p)
    PROVE  UseInv' /\ (NoGain \/ utrace_add_engine(p))
<1>0. /\ Calls /\ Objects /\ Handles /\ table \in Seq(Structs)
      /\ works \in SUBSET Works /\ taken \in SUBSET Works /\ DOMAIN pc = Procs
  BY DEF TypeInv, MemoryTypes, SimpleTypes, WorkTypes, Places
<1>u. (\A q \in Procs : UseBy(q)) /\ PassUse /\ WorksUse /\ QuiesceUse
  BY UseParts
<1>p. PlaceInv /\ (p = "stap" \/ p = "task")
  BY DEF Procs
<1>s. "0" \in ReturnCodes /\ "ESRCH" \in ReturnCodes
  BY DEF ReturnCodes
<1>m. ASSUME NEW l, NEW c, NewCall(p, c), Goto(p, l), UNCHANGED rep, MemGrows, AttachedKept,
             UseBy(p)', p = "task" => TaskGoesOn, UNCHANGED taken, WorksUse'
      PROVE  UseInv'
  <2>1. \A q \in Procs : q # p => pc'[q] = pc[q] /\ at'[q] = at[q]
    BY <1>m DEF NewCall, Goto
  <2> QED
    BY <1>m, <2>1, MoverUses
<1>n. ASSUME NEW l, NEW c, NewCall(p, c), Goto(p, l),
             \A e \in Engines : HasEngine(p, e)' => HasEngine(p, e)
      PROVE  NoGain
  BY <1>n, Gains DEF NewCall, Goto
<1>k. UNCHANGED at => NewCall(p, at[p])
  BY <1>0 DEF NewCall, Calls
<1>w. ASSUME MemGrows, UNCHANGED <<works, taken>> PROVE WorksUse'
  BY <1>0, <1>w, <1>u, WorksUseKept
<1>l. \A s \in Structs : table # <<>> /\ s = Head(table) => u[s].mem = "live"
  <2>1. ASSUME NEW s \in Structs, table # <<>>, s = Head(table) PROVE s \in ToSet(table)
    BY <1>0, <2>1, ToSetIs
  <2> QED
    BY <2>1 DEF ListInv
<1>r. ASSUME pc[p] \in CallLabels \ {"oops"}, UNCHANGED <<u, rep, works, taken>>,
             Goto(p, at[p].ret), NEW c, NewCall(p, c), Idle(c)
      PROVE  UseInv' /\ NoGain
  <2>1. MemGrows /\ AttachedKept
    BY <1>r, MemEffects
  <2>2. at'[p] = c /\ pc'[p] = at[p].ret
    BY <1>0, <1>r DEF NewCall, Goto
  <2>3. UseBy(p)'
    BY <1>u, <1>p, <1>r, <2>2 DEF UseBy, UsesStruct, WithEngine, UsesEngine, PutLabels,
       PlaceInv, TaskPlace, StapPlace, Calling, CallLabels
  <2>4. p = "task" => TaskGoesOn
    BY <1>u, <1>p, <1>r, <2>2 DEF TaskGoesOn, InPass, PutsReported, AtEngine, Idle,
       WithEngine, UsesEngine, PutLabels, PlaceInv, TaskPlace, StapPlace, CallPuts, Calling,
       CallLabels, UsesReport, PassPuts, QuiesceUse
  <2>5. \A e \in Engines : HasEngine(p, e)' => HasEngine(p, e)
    BY <1>p, <1>r, <2>2 DEF HasEngine, WithEngine, UsesEngine, PutLabels, PlaceInv, TaskPlace,
       StapPlace, Calling, CallLabels
  <2> QED
    BY <1>m, <1>n, <1>w, <1>r, <2>1, <2>3, <2>4, <2>5
<1>o. ASSUME pc[p] \in {"ev_set", "ctl_lock", "eng_put"}, UNCHANGED <<u, rep, works, taken, at>>,
             Goto(p, "oops")
      PROVE  UseInv' /\ NoGain
  <2>1. MemGrows /\ AttachedKept
    BY <1>o, MemEffects
  <2>2. pc'[p] = "oops"
    BY <1>0, <1>o DEF Goto
  <2>3. UseBy(p)'
    BY <2>2 DEF UseBy, UsesStruct, WithEngine, UsesEngine, PutLabels
  <2>4. p = "task" => TaskGoesOn
    BY <1>u, <1>p, <1>o, <2>2 DEF TaskGoesOn, InPass, PutsReported, AtEngine,
       WithEngine, UsesEngine, PutLabels, Calling, CallLabels, UsesReport, QuiesceUse
  <2>5. \A e \in Engines : HasEngine(p, e)' => HasEngine(p, e)
    BY <2>2 DEF HasEngine, WithEngine, UsesEngine, PutLabels
  <2> QED
    BY <1>k, <1>m, <1>n, <1>w, <1>o, <2>1, <2>3, <2>4, <2>5
<1>1. ASSUME PutStruct(p) PROVE UseInv' /\ NoGain
  <2>1. /\ pc[p] = "put" /\ UNCHANGED <<at, rep, kernel>>
        /\ Goto(p, "cleanup") \/ Goto(p, at[p].k)
    BY <1>1 DEF PutStruct
  <2>2. at[p].s \in Structs /\ MemGrows /\ AttachedKept
    BY <1>0, <1>1, <2>1, UsedLive, PutEffect, MemEffects DEF UsesStruct
  <2>3. PICK l : Goto(p, l) /\ l \in {"cleanup", at[p].k} /\ pc'[p] = l
    BY <1>0, <2>1 DEF Goto
  <2>4. UseBy(p)'
    BY <1>u, <1>p, <2>1, <2>2, <2>3 DEF UseBy, MemGrows, UsesStruct, WithEngine, UsesEngine,
       PutLabels, PlaceInv, TaskPlace, StapPlace, CallPuts
  <2>5. p = "task" => TaskGoesOn
    BY <1>u, <1>p, <2>1, <2>3 DEF TaskGoesOn, InPass, PutsReported, AtEngine,
       WithEngine, UsesEngine, PutLabels, PlaceInv, TaskPlace, StapPlace, CallPuts, Calling,
       CallLabels, UsesReport, PassPuts, QuiesceUse
  <2>6. \A e \in Engines : HasEngine(p, e)' => HasEngine(p, e)
    BY <1>p, <2>1, <2>3 DEF HasEngine, WithEngine, UsesEngine, PutLabels, PlaceInv, TaskPlace,
       StapPlace, CallPuts
  <2>7. UNCHANGED <<works, taken>>
    BY <2>1 DEF kernel
  <2> QED
    BY <1>k, <1>m, <1>n, <1>w, <2>1, <2>2, <2>3, <2>4, <2>5, <2>6, <2>7
<1>2. ASSUME utrace_cleanup(p) PROVE UseInv' /\ NoGain
  <2>1. pc[p] = "cleanup" /\ UNCHANGED <<at, rep, kernel>> /\ Goto(p, at[p].k)
    BY <1>2 DEF utrace_cleanup
  <2>2. at[p].s \in Structs /\ MemGrows /\ AttachedKept
    <3>1. at[p].s \in Structs
      BY <1>0, <2>1, UsedLive DEF UsesStruct
    <3>2. Freed({at[p].s})
      BY <1>0, <1>2, <3>1, FreeEffect DEF utrace_cleanup
    <3>3. {at[p].s} \in SUBSET Structs
      BY <3>1
    <3> QED
      BY <3>1, <3>2, <3>3, MemEffects
  <2>3. pc'[p] = at[p].k
    BY <1>0, <2>1 DEF Goto
  <2>4. UseBy(p)'
    BY <1>u, <1>p, <2>1, <2>2, <2>3 DEF UseBy, MemGrows, UsesStruct, WithEngine, UsesEngine,
       PutLabels, PlaceInv, TaskPlace, StapPlace, CallPuts
  <2>5. p = "task" => TaskGoesOn
    BY <1>u, <1>p, <2>1, <2>3 DEF TaskGoesOn, InPass, PutsReported, AtEngine,
       WithEngine, UsesEngine, PutLabels, PlaceInv, TaskPlace, StapPlace, CallPuts, Calling,
       CallLabels, UsesReport, PassPuts, QuiesceUse
  <2>6. \A e \in Engines : HasEngine(p, e)' => HasEngine(p, e)
    BY <1>p, <2>1, <2>3 DEF HasEngine, WithEngine, UsesEngine, PutLabels, PlaceInv, TaskPlace,
       StapPlace, CallPuts
  <2>7. UNCHANGED <<works, taken>>
    BY <2>1 DEF kernel
  <2> QED
    BY <1>k, <1>m, <1>n, <1>w, <2>1, <2>2, <2>4, <2>5, <2>6, <2>7
<1>g. ASSUME NEW f \in {"att_eng", "ev_set", "ctl_lock"},
             NEW n \in {"att_alloc", "eng_put", at[p].ret}, NEW rc \in ReturnCodes,
             GetStruct(p, f, n, rc),
             f = "att_eng" => pc[p] = "att_get" /\ n = "att_alloc",
             f = "ev_set" => /\ pc[p] = "ev_get"
                             /\ IF at[p].act = "NONE" THEN n = at[p].ret ELSE n = "eng_put",
             f = "ctl_lock" => pc[p] = "ctl_get" /\ n = "eng_put"
      PROVE  UseInv' /\ NoGain
  <2>1. UNCHANGED <<rep, kernel>>
    BY <1>g DEF GetStruct
  <2>2. PICK c : /\ NewCall(p, c) /\ SameCall(p, c) /\ c.e = at[p].e /\ c.k = at[p].k
                 /\ Unmoved
                 /\ \/ c.s = NoStruct /\ ~c.found /\ Goto(p, n)
                    \/ c.s \in Structs /\ u[c.s].ref > 0 /\ Goto(p, f) /\ Head(table) = c.s
                       /\ table # <<>>
    BY <1>0, <1>g, GetEffect
  <2>3. UNCHANGED <<works, taken>> /\ MemGrows /\ AttachedKept
    BY <2>1, <2>2, MemEffects DEF kernel
  <2>4. at'[p] = c
    BY <2>2 DEF NewCall
  <2>5. CASE c.s = NoStruct /\ ~c.found /\ Goto(p, n)
    <3>1. pc'[p] = n
      BY <1>0, <2>5 DEF Goto
    <3>2. UseBy(p)'
      BY <1>g, <1>u, <1>p, <2>2, <2>4, <2>5, <3>1 DEF UseBy, UsesStruct, WithEngine, UsesEngine,
       PutLabels, PlaceInv, TaskPlace, StapPlace, CallPuts, SameCall, Calling, CallLabels
    <3>3. p = "task" => TaskGoesOn
      BY <1>g, <1>u, <1>p, <2>2, <2>4, <2>5, <3>1 DEF TaskGoesOn, InPass, PutsReported, AtEngine,
       WithEngine, UsesEngine, PutLabels, PlaceInv, TaskPlace, StapPlace, CallPuts, Calling,
       CallLabels, UsesReport, PassPuts, QuiesceUse, SameCall
    <3>4. \A e \in Engines : HasEngine(p, e)' => HasEngine(p, e)
      BY <1>g, <1>p, <2>2, <2>4, <2>5, <3>1 DEF HasEngine, WithEngine, UsesEngine, PutLabels,
       PlaceInv, TaskPlace, StapPlace, CallPuts, SameCall, Calling, CallLabels
    <3> QED
      BY <1>m, <1>n, <1>w, <2>1, <2>2, <2>3, <2>5, <3>2, <3>3, <3>4
  <2>6. CASE c.s \in Structs /\ u[c.s].mem = "live" /\ Goto(p, f)
    <3>1. pc'[p] = f /\ u'[c.s].mem # "unused"
      BY <1>0, <2>3, <2>6 DEF Goto, MemGrows
    <3>2. UseBy(p)'
      BY <1>g, <1>u, <1>p, <2>2, <2>4, <2>6, <3>1 DEF UseBy, UsesStruct, WithEngine, UsesEngine,
       PutLabels, PlaceInv, TaskPlace, StapPlace, CallPuts, SameCall, Calling, CallLabels
    <3>3. p = "task" => TaskGoesOn
      BY <1>g, <1>u, <1>p, <2>2, <2>4, <2>6, <3>1 DEF TaskGoesOn, InPass, PutsReported, AtEngine,
       WithEngine, UsesEngine, PutLabels, PlaceInv, TaskPlace, StapPlace, CallPuts, Calling,
       CallLabels, UsesReport, PassPuts, QuiesceUse, SameCall
    <3>4. \A e \in Engines : HasEngine(p, e)' => HasEngine(p, e)
      BY <1>g, <1>p, <2>2, <2>4, <2>6, <3>1 DEF HasEngine, WithEngine, UsesEngine, PutLabels,
       PlaceInv, TaskPlace, StapPlace, CallPuts, SameCall, Calling, CallLabels
    <3> QED
      BY <1>m, <1>n, <1>w, <2>1, <2>2, <2>3, <2>6, <3>2, <3>3, <3>4
  <2> QED
    BY <1>l, <2>2, <2>5, <2>6
<1>3. ASSUME AttachGet(p) PROVE UseInv' /\ NoGain
  BY <1>3, <1>g, <1>s DEF AttachGet
<1>4. ASSUME utrace_task_alloc(p) PROVE UseInv' /\ NoGain
  <2>1. pc[p] = "att_alloc" /\ UNCHANGED <<rep, kernel>>
    BY <1>4, Zenon DEF utrace_task_alloc
  <2>2. UNCHANGED <<works, taken>>
    BY <2>1 DEF kernel
  <2>3. ASSUME NEW s \in Structs, Made(p, s), Goto(p, "att_eng") PROVE UseInv' /\ NoGain
    <3>1. PICK c : NewCall(p, c) /\ SameCall(p, c) /\ c.s = s /\ c.e = at[p].e /\ c.k = at[p].k
      BY <2>3 DEF Made
    <3>2. at'[p] = c /\ pc'[p] = "att_eng" /\ u'[s].mem = "live"
      BY <1>0, <2>3, <3>1 DEF NewCall, Goto, Made
    <3>3. MemGrows /\ AttachedKept
      BY <1>l, <2>3 DEF Made, MemGrows, AttachedKept
    <3>4. UseBy(p)'
      BY <1>u, <1>p, <2>1, <3>1, <3>2 DEF UseBy, UsesStruct, WithEngine, UsesEngine, PutLabels
    <3>5. p = "task" => TaskGoesOn
      BY <1>u, <1>p, <2>1, <3>1, <3>2 DEF TaskGoesOn, InPass, PutsReported, AtEngine,
       WithEngine, UsesEngine, PutLabels, PlaceInv, TaskPlace, StapPlace, CallPuts, Calling,
       CallLabels, UsesReport, PassPuts, QuiesceUse, SameCall
    <3>6. \A e \in Engines : HasEngine(p, e)' => HasEngine(p, e)
      BY <1>p, <2>1, <3>1, <3>2 DEF HasEngine, WithEngine, UsesEngine, PutLabels
    <3> QED
      BY <1>m, <1>n, <1>w, <2>1, <2>2, <2>3, <3>1, <3>3, <3>4, <3>5, <3>6
  <2>4. ASSUME UNCHANGED u, Goto(p, at[p].ret), NEW c, NewCall(p, c), Idle(c)
        PROVE UseInv' /\ NoGain
    BY <1>r, <2>1, <2>2, <2>4 DEF CallLabels
  <2> QED
    BY <1>0, <1>4, <2>3, <2>4, AllocEffect
<1>5. ASSUME utrace_add_engine(p) PROVE UseInv'
  <2>1. pc[p] = "att_eng" /\ UNCHANGED <<rep, kernel>>
    BY <1>5, Zenon DEF utrace_add_engine
  <2>2. UNCHANGED <<works, taken>>
    BY <2>1 DEF kernel
  <2>3. PICK s \in Structs : at[p].s = s /\ u[s].mem = "live"
    BY <1>0, <2>1, UsedLive DEF UsesStruct
  <2>4. ASSUME NEW e \in Engines, Queued(p, s, e), NEW l \in {"put", "ev_get"}, Goto(p, l)
        PROVE  UseInv'
    <3>1. PICK c : /\ NewCall(p, c) /\ SameCall(p, c) /\ c.s = s /\ c.found = FALSE
                   /\ c.e = e /\ c.k = "ev_get"
      BY <2>4 DEF Queued
    <3>2. at'[p] = c /\ pc'[p] = l /\ MemGrows /\ AttachedKept /\ u'[s].mem = "live"
      BY <1>0, <2>3, <2>4, <3>1 DEF NewCall, Goto, Queued, MemGrows, AttachedKept
    <3>4. UseBy(p)'
      BY <1>u, <1>p, <2>1, <2>4, <3>1, <3>2 DEF UseBy, UsesStruct, WithEngine, UsesEngine, PutLabels
    <3>5. p = "task" => TaskGoesOn
      BY <1>u, <1>p, <2>1, <2>4, <3>1, <3>2 DEF TaskGoesOn, InPass, PutsReported, AtEngine,
       WithEngine, UsesEngine, PutLabels, PlaceInv, TaskPlace, StapPlace, CallPuts, Calling,
       CallLabels, UsesReport, PassPuts, QuiesceUse, SameCall
    <3> QED
      BY <1>m, <1>w, <2>1, <2>2, <2>4, <3>1, <3>2, <3>4, <3>5
  <2>5. ASSUME UNCHANGED u, Goto(p, "put"), NEW c, NewCall(p, c), SameCall(p, c), c.s = s,
               c.k = "att_fail", c.e = at[p].e
        PROVE UseInv'
    <3>2. at'[p] = c /\ pc'[p] = "put" /\ MemGrows /\ AttachedKept /\ u'[s].mem = "live"
      BY <1>0, <2>3, <2>5, MemEffects DEF NewCall, Goto, MemGrows, AttachedKept
    <3>4. UseBy(p)'
      BY <1>u, <1>p, <2>1, <2>5, <3>2 DEF UseBy, UsesStruct, WithEngine, UsesEngine, PutLabels
    <3>5. p = "task" => TaskGoesOn
      BY <1>u, <1>p, <2>1, <2>5, <3>2 DEF TaskGoesOn, InPass, PutsReported, AtEngine,
       WithEngine, UsesEngine, PutLabels, PlaceInv, TaskPlace, StapPlace, CallPuts, Calling,
       CallLabels, UsesReport, PassPuts, QuiesceUse, SameCall
    <3> QED
      BY <1>m, <1>w, <2>1, <2>2, <2>5, <3>2, <3>4, <3>5
  <2> QED
    BY <1>0, <1>5, <2>3, <2>4, <2>5, AddEffect
<1>6. ASSUME AttachFailed(p) PROVE UseInv' /\ NoGain
  <2>1. /\ pc[p] = "att_fail" /\ UNCHANGED <<u, rep, kernel>> /\ Goto(p, at[p].ret)
        /\ \E rc \in ReturnCodes : Returned(p, rc)
    BY <1>6, <1>s, <1>0, CallLabelled DEF AttachFailed
  <2>2. PICK c : NewCall(p, c) /\ Idle(c)
    BY <1>0, <2>1, ReturnEffect
  <2> QED
    BY <1>r, <2>1, <2>2 DEF kernel, CallLabels
<1>7. ASSUME SetEventsGet(p) PROVE UseInv' /\ NoGain
  BY <1>7, <1>g, <1>s DEF SetEventsGet
<1>8. ASSUME utrace_set_events(p) PROVE UseInv' /\ NoGain
  <2>1. pc[p] = "ev_set" /\ UNCHANGED <<rep, kernel>>
    BY <1>8, Zenon DEF utrace_set_events
  <2>2. UNCHANGED <<works, taken>>
    BY <2>1 DEF kernel
  <2>3. PICK s \in Structs : at[p].s = s /\ u[s].mem = "live"
    BY <1>0, <2>1, UsedLive DEF UsesStruct
  <2>4. at[p].e \in Engines
    BY <1>u, <2>1 DEF UseBy, WithEngine, UsesEngine
  <2>5. ASSUME EventsSet(p, s), Goto(p, "put") PROVE UseInv' /\ NoGain
    <3>1. PICK c : /\ NewCall(p, c) /\ SameCall(p, c) /\ c.s = s /\ c.e = at[p].e
                   /\ \/ at[p].act = "NONE" /\ c.k = at[p].ret
                      \/ at[p].act # "NONE" /\ c.k \in {"ctl_get", "eng_put"}
      BY <2>5 DEF EventsSet
    <3>2. at'[p] = c /\ pc'[p] = "put" /\ MemGrows /\ AttachedKept /\ u'[s].mem = "live"
      BY <1>0, <2>3, <2>5, <3>1 DEF NewCall, Goto, EventsSet, MemGrows, AttachedKept
    <3>4. UseBy(p)'
      BY <1>u, <1>p, <2>1, <2>4, <2>5, <3>1, <3>2 DEF UseBy, UsesStruct, WithEngine, UsesEngine, PutLabels
    <3>5. p = "task" => TaskGoesOn
      BY <1>u, <1>p, <2>1, <3>1, <3>2 DEF TaskGoesOn, InPass, PutsReported, AtEngine,
       WithEngine, UsesEngine, PutLabels, PlaceInv, TaskPlace, StapPlace, CallPuts, Calling,
       CallLabels, UsesReport, PassPuts, QuiesceUse, SameCall
    <3>6. \A e \in Engines : HasEngine(p, e)' => HasEngine(p, e)
      BY <1>p, <2>1, <3>1, <3>2 DEF HasEngine, WithEngine, UsesEngine, PutLabels, SameCall
    <3> QED
      BY <1>m, <1>n, <1>w, <2>1, <2>2, <2>5, <3>1, <3>2, <3>4, <3>5, <3>6
  <2>6. CASE Goto(p, "oops") /\ UNCHANGED <<u, at>>
    BY <1>o, <2>1, <2>2, <2>6
  <2> QED
    BY <1>0, <1>8, <2>3, <2>4, <2>5, <2>6, SetEventsEffect
<1>9. ASSUME ControlGet(p) PROVE UseInv' /\ NoGain
  BY <1>9, <1>g, <1>s DEF ControlGet
<1>10. ASSUME utrace_control(p) PROVE UseInv' /\ NoGain
  <2>1. pc[p] = "ctl_lock" /\ UNCHANGED <<rep, taken>>
    BY <1>10, Zenon DEF utrace_control
  <2>3. PICK s \in Structs : at[p].s = s /\ u[s].mem = "live"
    BY <1>0, <2>1, UsedLive DEF UsesStruct
  <2>5. ASSUME Unmoved, NEW l \in {"put", "ctl_count"}, Goto(p, l), NEW c, NewCall(p, c),
               SameCall(p, c), c.s = s, c.e = at[p].e, c.k = "eng_put",
               works' \in {works, works \cup {Resume(s)}}
        PROVE  UseInv' /\ NoGain
    <3>2. at'[p] = c /\ pc'[p] = l /\ MemGrows /\ AttachedKept /\ u'[s].mem = "live"
      BY <1>0, <2>3, <2>5, MemEffects DEF NewCall, Goto, Unmoved
    <3>3. WorksUse'
      BY <1>0, <1>u, <2>1, <2>5, <3>2, WorkDistinct, WorkKinds DEF WorksUse, MemGrows
    <3>4. UseBy(p)'
      BY <1>u, <1>p, <2>1, <2>5, <3>2 DEF UseBy, UsesStruct, WithEngine, UsesEngine, PutLabels
    <3>5. p = "task" => TaskGoesOn
      BY <1>u, <1>p, <2>1, <2>5, <3>2 DEF TaskGoesOn, InPass, PutsReported, AtEngine,
       WithEngine, UsesEngine, PutLabels, PlaceInv, TaskPlace, StapPlace, CallPuts, Calling,
       CallLabels, UsesReport, PassPuts, QuiesceUse, SameCall
    <3>6. \A e \in Engines : HasEngine(p, e)' => HasEngine(p, e)
      BY <1>p, <2>1, <2>5, <3>2 DEF HasEngine, WithEngine, UsesEngine, PutLabels, SameCall
    <3> QED
      BY <1>m, <1>n, <2>1, <2>5, <3>2, <3>3, <3>4, <3>5, <3>6
  <2>6. CASE Goto(p, "oops") /\ UNCHANGED <<u, works, at>>
    BY <1>o, <2>1, <2>6
  <2> QED
    BY <1>0, <1>10, <2>3, <2>5, <2>6, ControlEffect DEF Notified
<1>11. ASSUME stp_task_work_get(p) PROVE UseInv' /\ NoGain
  <2>1. pc[p] = "ctl_count" /\ UNCHANGED <<u, at, rep, works, taken>> /\ Goto(p, "put")
    BY <1>11 DEF stp_task_work_get, kernel
  <2>2. pc'[p] = "put" /\ MemGrows /\ AttachedKept
    BY <1>0, <2>1, MemEffects DEF Goto
  <2>4. UseBy(p)'
    BY <1>u, <1>p, <2>1, <2>2 DEF UseBy, UsesStruct, WithEngine, UsesEngine, PutLabels
  <2>5. p = "task" => TaskGoesOn
    BY <1>u, <1>p, <2>1, <2>2 DEF TaskGoesOn, InPass, PutsReported, AtEngine,
       WithEngine, UsesEngine, PutLabels, PlaceInv, TaskPlace, StapPlace, CallPuts, Calling,
       CallLabels, UsesReport, PassPuts, QuiesceUse
  <2>6. \A e \in Engines : HasEngine(p, e)' => HasEngine(p, e)
    BY <1>p, <2>1, <2>2 DEF HasEngine, WithEngine, UsesEngine, PutLabels
  <2> QED
    BY <1>k, <1>m, <1>n, <1>w, <2>1, <2>2, <2>4, <2>5, <2>6
<1>12. ASSUME EnginePut(p) PROVE UseInv' /\ NoGain
  <2>1. pc[p] = "eng_put" /\ UNCHANGED <<u, rep, works, taken>>
    BY <1>12 DEF EnginePut, kernel
  <2>2. PICK e \in Engines : at[p].e = e
    BY <1>u, <2>1 DEF UseBy, WithEngine, UsesEngine
  <2>3. CASE Goto(p, "oops") /\ UNCHANGED at
    BY <1>o, <2>1, <2>3
  <2>4. ASSUME Goto(p, at[p].ret), NEW c, NewCall(p, c), Idle(c) PROVE UseInv' /\ NoGain
    BY <1>r, <2>1, <2>4 DEF CallLabels
  <2> QED
    BY <1>0, <1>12, <2>2, <2>3, <2>4, EnginePutEffect
<1> QED
  BY <1>1, <1>2, <1>3, <1>4, <1>5, <1>6, <1>7, <1>8, <1>9, <1>10, <1>11, <1>12, Zenon
     DEF AttachStep

(* The other steps of the stap thread keep UseInv.                          *)
LEMMA StapUses ==
    ASSUME TypeInv, UseInv, ListInv, PlaceInv, ~Oops, StapStep
    PROVE  UseInv' /\ (NoGain \/ find_matching_engine)
<1>0. /\ Calls /\ Objects /\ Handles /\ table \in Seq(Structs)
      /\ works \in SUBSET Works /\ taken \in SUBSET Works /\ pc \in [Procs -> Labels]
      /\ "RESUME" \in {"NONE", "RESUME", "INTERRUPT"}
      /\ "INTERRUPT" \in {"NONE", "RESUME", "INTERRUPT"} /\ "stap" \in Procs
  BY DEF TypeInv, MemoryTypes, SimpleTypes, WorkTypes, Places, Procs
<1>u. (\A q \in Procs : UseBy(q)) /\ PassUse /\ WorksUse /\ QuiesceUse
  BY UseParts
<1>m. ASSUME NEW c, NewCall("stap", c), UNCHANGED <<rep, taken>>, MemGrows, AttachedKept,
             pc' = pc \/ \E l : Goto("stap", l), UseBy("stap")', works' \subseteq works
      PROVE  UseInv'
  <2>1. \A q \in Procs : q # "stap" => pc'[q] = pc[q] /\ at'[q] = at[q]
    BY <1>0, <1>m DEF NewCall, Goto
  <2>2. WorksUse'
    BY <1>0, <1>u, <1>m, WorksUseKept
  <2> QED
    BY <1>0, <1>m, <2>1, <2>2, MoverUses
<1>n. ASSUME NEW c, NewCall("stap", c), pc' = pc \/ \E l : Goto("stap", l),
             \A e \in Engines : HasEngine("stap", e)' => HasEngine("stap", e)
      PROVE  NoGain
  BY <1>0, <1>n, Gains DEF NewCall, Goto
<1>k. UNCHANGED at => NewCall("stap", at["stap"])
  BY <1>0 DEF NewCall, Calls
<1>h. ASSUME NEW l \in StartLabels \cup StopLabels, Goto("stap", l), l # "post_find",
             NEW c, NewCall("stap", c), UNCHANGED <<rep, taken>>, works' \subseteq works,
             UNCHANGED u
      PROVE  UseInv' /\ NoGain
  <2>1. pc'["stap"] = l /\ MemGrows /\ AttachedKept
    BY <1>0, <1>h, MemEffects DEF Goto
  <2>2. UseBy("stap")'
    BY <1>h, <2>1 DEF UseBy, UsesStruct, WithEngine, UsesEngine, PutLabels, StartLabels, StopLabels
  <2>3. \A e \in Engines : HasEngine("stap", e)' => HasEngine("stap", e)
    BY <1>h, <2>1 DEF HasEngine, WithEngine, UsesEngine, PutLabels, StartLabels, StopLabels
  <2> QED
    BY <1>m, <1>n, <1>h, <2>1, <2>2, <2>3
<1>c. ASSUME NEW ops \in OpsValues, NEW ev \in SUBSET EventBits,
             NEW act \in {"NONE", "RESUME", "INTERRUPT"}, NEW ret \in {"s_finder", "s_target"},
             Call("stap", ops, ev, act, ret), UNCHANGED <<u, rep, works, taken>>
      PROVE  UseInv' /\ NoGain
  <2>1. ret \in Labels /\ ret \in StartLabels
    BY <1>c, LabelNames DEF StartLabels
  <2>2. PICK c : NewCall("stap", c) /\ Idle(c) /\ (Goto("stap", "att_get") \/ Goto("stap", ret))
    <3>1. Call("stap", ops, ev, act, ret)
      BY <1>c
    <3>2. \E c : /\ NewCall("stap", c) /\ Idle(c)
                 /\ \/ tk.mm /\ c.ops = ops /\ c.ev = ev /\ c.act = act /\ c.ret = ret
                       /\ c.rc = "0" /\ Goto("stap", "att_get")
                    \/ ~tk.mm /\ c.rc = "EPERM" /\ Goto("stap", ret)
      BY <1>0, <3>1, <2>1, CallEffect
    <3> QED
      BY <3>2
  <2>3. CASE Goto("stap", "att_get")
    <3>1. pc'["stap"] = "att_get" /\ MemGrows /\ AttachedKept
      BY <1>0, <1>c, <2>3, MemEffects DEF Goto
    <3>2. UseBy("stap")'
      BY <3>1 DEF UseBy, UsesStruct, WithEngine, UsesEngine, PutLabels
    <3>3. \A e \in Engines : HasEngine("stap", e)' => HasEngine("stap", e)
      BY <3>1 DEF HasEngine, WithEngine, UsesEngine, PutLabels
    <3> QED
      BY <1>m, <1>n, <1>c, <2>2, <2>3, <3>1, <3>2, <3>3
  <2>4. CASE Goto("stap", ret)
    BY <1>h, <1>c, <2>1, <2>2, <2>4
  <2> QED
    BY <2>2, <2>3, <2>4
<1>l. \A s \in Structs : table # <<>> /\ s = Head(table) => u[s].mem = "live"
  <2>1. ASSUME NEW s \in Structs, table # <<>>, s = Head(table) PROVE s \in ToSet(table)
    BY <1>0, <2>1, ToSetIs
  <2> QED
    BY <2>1 DEF ListInv
<1>s. {"s_finder", "s_target", "post", "running", "st_state", "st_unreg", "st_sync", "st_cancel",
        "st_inuse", "st_tfc", "st_wait", "st_sleep", "st_free", "unloaded"}
        \subseteq StartLabels \cup StopLabels
  BY DEF StartLabels, StopLabels
<1>1. ASSUME StartFinder PROVE UseInv' /\ NoGain
  <2>1. Call("stap", "finder", FinderEvents, "RESUME", "s_finder")
        /\ UNCHANGED <<u, rep, works, taken>>
    BY <1>1 DEF StartFinder, kernel
  <2> QED
    BY <1>0, <1>c, <2>1, EventSets
<1>2. ASSUME StartTarget PROVE UseInv' /\ NoGain
  <2>1. /\ \/ Call("stap", "target", TargetEvents, "INTERRUPT", "s_target")
           \/ UNCHANGED at /\ (Goto("stap", "post") \/ Goto("stap", "st_state"))
        /\ UNCHANGED <<u, rep, works, taken>>
    BY <1>2 DEF StartTarget, kernel
  <2> QED
    BY <1>0, <1>c, <1>h, <1>k, <1>s, <2>1, EventSets
<1>3. ASSUME StartDone PROVE UseInv' /\ NoGain
  <2>1. /\ Goto("stap", "post") \/ Goto("stap", "st_state")
        /\ UNCHANGED <<u, at, rep, works, taken>>
    BY <1>3 DEF StartDone, kernel
  <2> QED
    BY <1>h, <1>k, <1>s, <2>1
<1>4. ASSUME PostGet PROVE UseInv' /\ NoGain
  <2>1. CASE tgtAttached
    <3>1. GetStruct("stap", "post_find", "running", "0") /\ "0" \in ReturnCodes
      BY <1>4, <2>1 DEF PostGet, ReturnCodes
    <3>2. UNCHANGED <<rep, works, taken>>
      BY <3>1 DEF GetStruct, kernel
    <3>3. PICK c : /\ NewCall("stap", c) /\ Unmoved
                   /\ \/ Goto("stap", "running") /\ UNCHANGED u
                      \/ c.s \in Structs /\ u[c.s].mem = "live" /\ Goto("stap", "post_find")
      BY <1>0, <1>l, <3>1, GetEffect
    <3>4. CASE Goto("stap", "running") /\ UNCHANGED u
      BY <1>h, <1>s, <3>2, <3>3, <3>4
    <3>5. CASE c.s \in Structs /\ u[c.s].mem = "live" /\ Goto("stap", "post_find")
      <4>1. pc'["stap"] = "post_find" /\ MemGrows /\ AttachedKept /\ at'["stap"] = c
            /\ u'[c.s].mem = "live"
        BY <1>0, <3>3, <3>5, MemEffects DEF Goto, NewCall, Unmoved
      <4>2. UseBy("stap")'
        BY <3>5, <4>1 DEF UseBy, UsesStruct, WithEngine, UsesEngine, PutLabels
      <4>3. \A e \in Engines : HasEngine("stap", e)' => HasEngine("stap", e)
        BY <4>1 DEF HasEngine, WithEngine, UsesEngine, PutLabels
      <4> QED
        BY <1>m, <1>n, <3>2, <3>3, <3>5, <4>1, <4>2, <4>3
    <3> QED
      BY <3>3, <3>4, <3>5
  <2>2. CASE ~tgtAttached
    <3>1. Goto("stap", "running") /\ UNCHANGED <<u, at, rep, works, taken>>
      BY <1>4, <2>2 DEF PostGet, kernel
    <3> QED
      BY <1>h, <1>k, <1>s, <3>1
  <2> QED
    BY <2>1, <2>2
<1>5. ASSUME find_matching_engine PROVE UseInv'
  <2>1. pc["stap"] = "post_find" /\ UNCHANGED <<u, rep, kernel>> /\ Goto("stap", "put")
    BY <1>5, Zenon DEF find_matching_engine
  <2>2. PICK s \in Structs : at["stap"].s = s /\ u[s].mem = "live"
    BY <1>0, <2>1, UsedLive DEF UsesStruct
  <2>3. PICK c : /\ NewCall("stap", c) /\ c.s = s
                 /\ c.k = "running" \/ (c.k = "ctl_get" /\ c.e \in Engines)
    BY <1>0, <1>5, <2>2, FindEffect
  <2>4. /\ pc'["stap"] = "put" /\ MemGrows /\ AttachedKept /\ at'["stap"] = c
        /\ u'[s].mem = "live" /\ UNCHANGED <<works, taken>>
    BY <1>0, <2>1, <2>2, <2>3, MemEffects DEF Goto, NewCall, kernel
  <2>5. UseBy("stap")'
    BY <2>3, <2>4 DEF UseBy, UsesStruct, WithEngine, UsesEngine, PutLabels
  <2> QED
    BY <1>m, <2>1, <2>3, <2>4, <2>5
<1>6. ASSUME Stop PROVE UseInv' /\ NoGain
  BY <1>6, <1>h, <1>k, <1>s DEF Stop, kernel
<1>7. ASSUME CloseFinder PROVE UseInv' /\ NoGain
  BY <1>7, <1>h, <1>k, <1>s DEF CloseFinder, kernel
<1>8. ASSUME utrace_shutdown PROVE UseInv' /\ NoGain
  BY <1>8, <1>h, <1>k, <1>s DEF utrace_shutdown, kernel
<1>9. ASSUME Synchronize PROVE UseInv' /\ NoGain
  BY <1>9, <1>h, <1>k, <1>s DEF Synchronize, kernel
<1>p. ASSUME UNCHANGED <<pc, u, at, rep, taken>>, works' \subseteq works
      PROVE  UseInv' /\ NoGain
  <2>1. MemGrows /\ AttachedKept
    BY <1>p, MemEffects
  <2>2. UseBy("stap")'
    BY <1>0, <1>u, <1>p, <2>1, UseByKept
  <2>3. \A e \in Engines : HasEngine("stap", e)' => HasEngine("stap", e)
    BY <1>p DEF HasEngine, WithEngine
  <2> QED
    BY <1>k, <1>m, <1>n, <1>p, <2>1, <2>2, <2>3
<1>10. ASSUME CancelUtraceWork PROVE UseInv' /\ NoGain
  <2>1. /\ works' \subseteq works /\ UNCHANGED <<u, at, rep, taken>>
        /\ UNCHANGED pc \/ Goto("stap", "st_inuse")
    BY <1>10 DEF CancelUtraceWork
  <2> QED
    BY <1>h, <1>k, <1>s, <1>p, <2>1
<1>11. ASSUME WaitInuse PROVE UseInv' /\ NoGain
  BY <1>11, <1>h, <1>k, <1>s DEF WaitInuse, kernel
<1>12. ASSUME CancelTfWork PROVE UseInv' /\ NoGain
  <2>1. /\ works' \subseteq works /\ UNCHANGED <<u, at, rep, taken>>
        /\ UNCHANGED pc \/ Goto("stap", "st_wait")
    BY <1>12 DEF CancelTfWork
  <2> QED
    BY <1>h, <1>k, <1>s, <1>p, <2>1
<1>13. ASSUME stp_task_work_exit PROVE UseInv' /\ NoGain
  BY <1>13, <1>h, <1>k, <1>s DEF stp_task_work_exit, kernel
<1>14. ASSUME utrace_exit PROVE UseInv' /\ NoGain
  <2> DEFINE S == {s \in ToSet(table) : u[s].ref > 0}
  <2>1. UNCHANGED <<at, rep, works, taken>> /\ FreeStructs(S) /\ Goto("stap", "unloaded")
    BY <1>14 DEF utrace_exit, kernel
  <2>2. S \in SUBSET Structs
    BY <1>0, ToSetParts
  <2> HIDE DEF S
  <2>3. MemGrows /\ AttachedKept /\ pc'["stap"] = "unloaded"
    BY <1>0, <2>1, <2>2, FreeEffect, MemEffects DEF Goto
  <2>4. UseBy("stap")'
    BY <2>3 DEF UseBy, UsesStruct, WithEngine, UsesEngine, PutLabels
  <2>5. \A e \in Engines : HasEngine("stap", e)' => HasEngine("stap", e)
    BY <2>3 DEF HasEngine, WithEngine, UsesEngine, PutLabels
  <2> QED
    BY <1>k, <1>m, <1>n, <2>1, <2>3, <2>4, <2>5
<1> QED
  BY <1>1, <1>2, <1>3, <1>4, <1>5, <1>6, <1>7, <1>8, <1>9, <1>10, <1>11, <1>12, <1>13, <1>14,
     Zenon DEF StapStep

-----------------------------------------------------------------------------

(* The places of the task at which it uses no struct; those of a pass that is
   not at an engine; and those of one that is.                              *)
Apart == ProbeLabels \cup TfLabels \cup Uncounted \cup {"w_done"}
Between == {"rep_start", "rw_lock", "cb", "fin", "reap"}
Amid == {"cb_q", "q_in", "q_add", "q_count", "cb_after", "cb_ev", "ev_in", "x_out", "end_cb"}

(* The task moves to l, and what it uses there is in place.                  *)
TaskMoves(l) ==
    /\ pc'["task"] = l /\ pc'["stap"] = pc["stap"] /\ at'["stap"] = at["stap"]
    /\ l \notin Apart => rep'.s \in Structs /\ u'[rep'.s].mem # "unused"
    /\ l \notin Apart \/ l = "tp_get" => rep'.i # 0
    /\ \/ l \in Apart \/ l \in Between
       \/ l \in Amid /\ (u'[rep'.s].mem = "freed" \/ rep'.i \in 1..Len(u'[rep'.s].attached))
       \/ l \in {"notify", "fin_count", "put2"} /\ at'["task"].s = rep'.s
       \/ l = "put" /\ at'["task"].k \in PassPuts /\ at'["task"].s = rep'.s

(* A move of the task within a pass keeps UseInv.                           *)
LEMMA TaskUses ==
    ASSUME UseInv, NEW l, TaskMoves(l), MemGrows, WorksUse'
    PROVE  UseInv' /\ NoGain
<1>1. UseBy("stap")'
  <2>1. UseBy("stap")
    BY UseParts DEF Procs
  <2> QED
    BY <2>1, UseByKept DEF TaskMoves
<1>2. /\ pc'["task"] = l
      /\ l \in {"put", "put2"} => at'["task"].s \in Structs /\ u'[at'["task"].s].mem # "unused"
      /\ l \notin {"att_eng", "cleanup", "ev_set", "ctl_lock", "ctl_count", "post_find",
                   "att_alloc", "ev_get", "ctl_get", "eng_put"}
      /\ l = "put" => at'["task"].k \in PassPuts
  BY DEF TaskMoves, Apart, Between, Amid, ProbeLabels, TfLabels, Uncounted
<1>3. UseBy("task")'
  BY <1>2 DEF UseBy, UsesStruct, WithEngine, UsesEngine, PutLabels, PassPuts
<1>4. l \notin CallLabels
  BY DEF TaskMoves, Apart, Between, Amid, ProbeLabels, TfLabels, Uncounted, CallLabels
<1>5. PassUse'
  BY <1>2, <1>4 DEF TaskMoves, Apart, Between, Amid, ProbeLabels, TfLabels, Uncounted, PassUse, InPass,
     PutsReported, AtEngine, WithEngine, UsesEngine, PutLabels, PassPuts, Calling, CallPuts,
     UsesReport
<1>6. QuiesceUse'
  BY <1>2, <1>4 DEF QuiesceUse, PutLabels, PassPuts, Calling, CallPuts
<1>7. \A e \in Engines : HasEngine("task", e)' => HasEngine("task", e)
  BY <1>2 DEF HasEngine, WithEngine, UsesEngine, PutLabels, PassPuts
<1>8. NoGain
  BY <1>7, Gains DEF TaskMoves, Procs
<1> QED
  BY <1>1, <1>3, <1>5, <1>6, <1>8, UsePartsNext DEF Procs

(* A callback of the task calls __stp_utrace_attach().                       *)
LEMMA TaskCalls ==
    ASSUME UseInv, NEW c, NewCall("task", c), Idle(c), c.act # "NONE", pc'["task"] = "att_get",
           pc'["stap"] = pc["stap"], MemGrows, WorksUse',
           c.ret \in {"cl_match", "cl_end"}
             \/ /\ c.ret = "x_out" /\ rep'.s \in Structs /\ u'[rep'.s].mem # "unused"
                /\ u'[rep'.s].mem = "freed" \/ rep'.i \in 1..Len(u'[rep'.s].attached)
                /\ rep'.i # 0
    PROVE  UseInv' /\ NoGain
<1>0. at'["task"] = c /\ at'["stap"] = at["stap"]
  BY DEF NewCall, Procs
<1>1. UseBy("stap")'
  <2>1. UseBy("stap")
    BY UseParts DEF Procs
  <2> QED
    BY <1>0, <2>1, UseByKept
<1>3. UseBy("task")'
  BY <1>0 DEF UseBy, UsesStruct, WithEngine, UsesEngine, PutLabels
<1>5. PassUse'
  BY <1>0 DEF PassUse, InPass, PutsReported, AtEngine, WithEngine, UsesEngine, PutLabels,
     PassPuts, Calling, CallPuts, CallLabels, UsesReport
<1>6. QuiesceUse'
  BY <1>0 DEF QuiesceUse, PutLabels, Calling, CallLabels
<1>7. \A e \in Engines : HasEngine("task", e)' => HasEngine("task", e)
  BY <1>0 DEF HasEngine, WithEngine, UsesEngine, PutLabels
<1>8. NoGain
  BY <1>0, <1>7, Gains DEF Procs
<1> QED
  BY <1>1, <1>3, <1>5, <1>6, <1>8, UsePartsNext DEF Procs

(* The task goes to l, the stap thread stays.                               *)
LEMMA TaskGoes ==
    ASSUME Places, NEW l, Goto("task", l)
    PROVE  pc'["task"] = l /\ pc'["stap"] = pc["stap"]
BY DEF Places, Goto, Procs

(* The end of a callback moves the task, and the waiter if it sleeps.        *)
LEMMA WakeMoves ==
    ASSUME Places, Wake
    PROVE  /\ pc["task"] = "w_wake" /\ pc'["task"] = "tw"
           /\ \/ Goto("task", "tw")
              \/ pc["stap"] = "st_sleep" /\ pc'["stap"] = "st_wait"
BY DEF Places, Wake, Goto, Procs

(* The tracepoint probes keep UseInv.                                       *)
LEMMA ProbeUses ==
    ASSUME TypeInv, UseInv, ListInv, PlaceInv, ~Oops, ProbeStep
    PROVE  UseInv' /\ NoGain
<1>0. /\ Calls /\ Objects /\ Handles /\ table \in Seq(Structs) /\ Places /\ rep \in ReportRecord
      /\ works \in SUBSET Works /\ taken \in SUBSET Works /\ "task" \in Procs
  BY DEF TypeInv, MemoryTypes, SimpleTypes, WorkTypes, Procs
<1>u. WorksUse
  BY UseParts
<1>l. {"tp_get", "tw", "tp_out", "death_count", "user"} \subseteq Apart
  BY DEF Apart, ProbeLabels, Uncounted
<1>k. ASSUME NEW l \in Apart, Goto("task", l), at'["stap"] = at["stap"],
             UNCHANGED <<u, works, taken>>, l = "tp_get" => rep'.i # 0
      PROVE  UseInv' /\ NoGain
  <2>1. MemGrows /\ WorksUse'
    BY <1>0, <1>u, <1>k, MemEffects, WorksUseKept
  <2>2. TaskMoves(l)
    BY <1>0, <1>k, TaskGoes DEF TaskMoves
  <2> QED
    BY <2>1, <2>2, TaskUses
<1>i. pc["task"] = "tp_get" => rep.i # 0
  BY UseParts DEF PassUse
<1>1. ASSUME Exec PROVE UseInv' /\ NoGain
  BY <1>1, <1>k, <1>l DEF Exec, kernel, NoReport
<1>2. ASSUME Exit PROVE UseInv' /\ NoGain
  <2>1. /\ UNCHANGED <<u, at, works, taken>>
        /\ \/ Goto("task", "tw")
           \/ Goto("task", "tp_get") /\ rep' = [NoReport EXCEPT !.ev = "DEATH", !.tp = TRUE]
    BY <1>2 DEF Exit
  <2>2. [NoReport EXCEPT !.ev = "DEATH", !.tp = TRUE].i = 1
    BY DEF NoReport
  <2>3. CASE Goto("task", "tw")
    BY <1>k, <1>l, <2>1, <2>3
  <2>4. CASE Goto("task", "tp_get") /\ rep' = [NoReport EXCEPT !.ev = "DEATH", !.tp = TRUE]
    <3>1. rep'.i # 0
      BY <2>2, <2>4
    <3> QED
      BY <1>k, <1>l, <2>1, <2>4, <3>1
  <2> QED
    BY <2>1, <2>3, <2>4
<1>3. ASSUME TracepointGet PROVE UseInv' /\ NoGain
  <2>1. UNCHANGED taken /\ rep.i # 0
    BY <1>3, <1>i, Zenon DEF TracepointGet
  <2>2. CASE Goto("task", "tp_out") /\ UNCHANGED <<u, works, at, rep>>
    BY <1>k, <1>l, <2>1, <2>2
  <2>3. ASSUME NEW s \in Structs, table # <<>>, s = Head(table), rep'.s = s, rep'.i = rep.i,
               NEW c, NewCall("task", c), c.s = s, c.k = "tp_out", Unmoved,
               NEW l \in {"put", "rep_start", "death_count"}, Goto("task", l),
               works' \in {works, works \cup {Report(s)}}
        PROVE  UseInv' /\ NoGain
    <3>1. s \in ToSet(table)
      BY <1>0, <2>3, ToSetIs
    <3>2. u[s].mem = "live" /\ u'[s].mem = "live"
      BY <2>3, <3>1 DEF ListInv, Unmoved
    <3>3. MemGrows
      BY <2>3, MemEffects
    <3>4. WorksUse'
      BY <1>0, <1>u, <2>1, <2>3, <3>2, <3>3, WorkDistinct, WorkKinds DEF WorksUse, MemGrows
    <3>5. at'["task"] = c /\ at'["stap"] = at["stap"]
      BY <2>3 DEF NewCall, Procs
    <3>6. pc'["task"] = l /\ pc'["stap"] = pc["stap"]
      BY <1>0, <2>3, TaskGoes
    <3>7. TaskMoves(l)
      BY <1>l, <2>1, <2>3, <3>2, <3>5, <3>6 DEF TaskMoves, PassPuts, Between
    <3> QED
      BY <3>3, <3>4, <3>7, TaskUses
  <2>4. CASE \E s \in Structs :
              /\ table # <<>> /\ s = Head(table) /\ rep'.s = s /\ rep'.i = rep.i
              /\ \E c : NewCall("task", c) /\ c.s = s /\ c.k = "tp_out"
              /\ Unmoved
              /\ \E l \in {"put", "rep_start", "death_count"} : Goto("task", l)
              /\ works' \in {works, works \cup {Report(s)}}
    BY <2>3, <2>4
  <2> QED
    BY <1>0, <1>3, <2>2, <2>4, TracepointEffect DEF ReportMoves
<1>4. ASSUME DeathCount PROVE UseInv' /\ NoGain
  BY <1>4, <1>k, <1>l DEF DeathCount, kernel
<1>5. ASSUME TracepointReturn PROVE UseInv' /\ NoGain
  <2>1. /\ at' = [at EXCEPT !["task"] = NoCall] /\ UNCHANGED <<u, works, taken>>
        /\ Goto("task", "tw") \/ Goto("task", "user")
    BY <1>5 DEF TracepointReturn, kernel
  <2>2. at'["stap"] = at["stap"]
    BY <1>0, <2>1 DEF Calls, Procs
  <2> QED
    BY <1>k, <1>l, <2>1, <2>2
<1> QED
  BY <1>1, <1>2, <1>3, <1>4, <1>5, Zenon DEF ProbeStep

(* The steps of a reporting pass keep UseInv.                               *)
LEMMA PassUses ==
    ASSUME TypeInv, UseInv, ListInv, PlaceInv, ~Oops, PassStep
    PROVE  UseInv' /\ NoGain
<1>0. /\ Calls /\ Objects /\ Handles /\ table \in Seq(Structs) /\ Places /\ rep \in ReportRecord
      /\ works \in SUBSET Works /\ taken \in SUBSET Works /\ "task" \in Procs
      /\ "INTERRUPT" \in {"NONE", "RESUME", "INTERRUPT"}
      /\ {"w_done", "tp_out", "put2", "x_out"} \subseteq Labels
  BY LabelNames DEF TypeInv, MemoryTypes, SimpleTypes, WorkTypes, Procs
<1>u. WorksUse /\ PassUse
  BY UseParts
<1>r. ASSUME pc["task"] \in UsesReport PROVE rep.s \in Structs /\ u[rep.s].mem = "live"
  BY <1>0, <1>r, ReportedLive
<1>i. pc["task"] \in UsesReport => rep.i # 0 /\ rep.i \in Nat
  BY <1>0, UseParts DEF PassUse, InPass, ReportRecord
<1>c. ASSUME pc["task"] \in Amid
      PROVE  rep.i \in 1..Len(u[rep.s].attached) /\ Current \in Engines
  BY <1>0, <1>c, CurrentIs DEF Amid
<1>a. Amid \subseteq UsesReport /\ Between \subseteq UsesReport
      /\ {"notify", "fin_count"} \subseteq UsesReport
  BY DEF Amid, Between, UsesReport
<1>m. ASSUME NEW l, TaskMoves(l), MemGrows, works' \subseteq works, UNCHANGED taken
      PROVE  UseInv' /\ NoGain
  <2>1. WorksUse'
    BY <1>0, <1>u, <1>m, WorksUseKept
  <2> QED
    BY <1>m, <2>1, TaskUses
(* The structs and the calls are not changed.                               *)
<1>k. ASSUME pc["task"] \in UsesReport, NEW l \in Between \cup Amid, Goto("task", l),
             at'["stap"] = at["stap"], UNCHANGED <<u, taken>>, rep'.s = rep.s,
             rep'.i \in {rep.i, rep.i + 1},
             l \in Amid => UNCHANGED rep /\ pc["task"] \in Amid, works' \subseteq works
      PROVE  UseInv' /\ NoGain
  <2>1. MemGrows
    BY <1>k, MemEffects
  <2>2. pc'["task"] = l /\ pc'["stap"] = pc["stap"]
    BY <1>0, <1>k, TaskGoes
  <2>3. TaskMoves(l)
    BY <1>r, <1>c, <1>i, <1>k, <2>2 DEF TaskMoves
  <2> QED
    BY <1>m, <1>k, <2>1, <2>3
(* The struct was changed, and the call puts it.                            *)
<1>f. ASSUME pc["task"] \in UsesReport,
             NEW l \in {"put", "notify"} \cup Between, Goto("task", l),
             NEW c, NewCall("task", c), c.s = rep.s, c.k \in PassPuts,
             \A t \in Structs : u'[t].mem = u[t].mem, UNCHANGED <<rep, works, taken>>
      PROVE  UseInv' /\ NoGain
  <2>1. MemGrows
    BY <1>f DEF MemGrows
  <2>2. pc'["task"] = l /\ pc'["stap"] = pc["stap"] /\ at'["task"] = c /\ at'["stap"] = at["stap"]
    BY <1>0, <1>f, TaskGoes DEF NewCall, Procs
  <2>3. TaskMoves(l)
    BY <1>r, <1>i, <1>f, <2>2 DEF TaskMoves
  <2> QED
    BY <1>m, <1>f, <2>1, <2>3
<1>d. ASSUME DetachCurrent, pc["task"] \in Amid, UNCHANGED <<u, at, works, taken>>
      PROVE  UseInv' /\ NoGain
  <2>1. rep'.s = rep.s /\ rep'.i = rep.i + 1 /\ Goto("task", "cb")
    BY <1>0, <1>d DEF DetachCurrent, ReportRecord
  <2>2. "cb" \in Between /\ "cb" \notin Amid
    BY DEF Between, Amid
  <2> QED
    BY <1>a, <1>d, <1>k, <2>1, <2>2
<1>g. ASSUME NEW s \in Structs, NEW k \in Labels,
             at' = [at EXCEPT !["task"].s = s, !["task"].k = k]
      PROVE  \E c : NewCall("task", c) /\ c.s = s /\ c.k = k
  <2>1. Calls
    BY <1>0
  <2> QED
    BY <1>g, <2>1, TaskPuts
<1>1. ASSUME start_report PROVE UseInv' /\ NoGain
  <2>1. /\ pc["task"] = "rep_start" /\ UNCHANGED <<rep, works, taken>>
        /\ \E l \in {"put", "cb", "fin"} : Goto("task", l)
        /\ at' = [at EXCEPT !["task"].s = rep.s, !["task"].k = "w_done"]
    BY <1>1 DEF start_report, kernel
  <2>2. PICK s \in Structs : rep.s = s
    BY <1>r, <2>1 DEF UsesReport
  <2>3. UNCHANGED u
             \/ u' = [u EXCEPT ![s] = [splice_attaching(u[s]) EXCEPT !.resume = "RESUME"]]
    BY <1>0, <1>1, <2>2 DEF start_report, Objects
  <2>4. \A t \in Structs : u'[t].mem = u[t].mem
    <3>1. CASE UNCHANGED u
      BY <3>1
    <3>2. CASE u' = [u EXCEPT ![s] = [splice_attaching(u[s]) EXCEPT !.resume = "RESUME"]]
      <4>1. Spliced(s)
        BY <1>0, <3>2, ResumeSpliceEffect, Zenon
      <4> QED
        BY <4>1 DEF Spliced
    <3> QED
      BY <2>3, <3>1, <3>2
  <2>5. PICK c : NewCall("task", c) /\ c.s = s /\ c.k = "w_done"
    <3>1. at' = [at EXCEPT !["task"].s = s, !["task"].k = "w_done"] /\ "w_done" \in Labels
      BY <1>0, <2>1, <2>2
    <3> QED
      BY <1>g, <2>2, <3>1
  <2>6. {"put", "cb", "fin"} \subseteq {"put", "notify"} \cup Between /\ "w_done" \in PassPuts
        /\ "rep_start" \in UsesReport
    BY DEF UsesReport, PassPuts, Between
  <2> QED
    BY <1>f, <2>1, <2>2, <2>4, <2>5, <2>6
<1>2. ASSUME StartDeathReport PROVE UseInv' /\ NoGain
  <2>1. /\ pc["task"] = "rw_lock" /\ UNCHANGED <<rep, at, works, taken>> /\ Goto("task", "cb")
        /\ u' = [u EXCEPT ![rep.s] = [splice_attaching(@) EXCEPT !.death = TRUE, !.resume = "RESUME"]]
    BY <1>2 DEF StartDeathReport, kernel
  <2>2. rep.s \in Structs /\ u[rep.s].mem = "live"
    BY <1>r, <2>1 DEF UsesReport
  <2>3. Spliced(rep.s)
    <3>1. u' = [u EXCEPT ![rep.s] = [splice_attaching(u[rep.s]) EXCEPT !.death = TRUE, !.resume = "RESUME"]]
      BY <1>0, <2>1, <2>2 DEF Objects
    <3>2. "RESUME" \in {"RESUME", "INTERRUPT"} /\ TRUE \in BOOLEAN
      OBVIOUS
    <3> QED
      BY <1>0, <2>2, <3>1, <3>2, SpliceEffect, Zenon
  <2>4. MemGrows /\ u'[rep.s].mem = "live"
    BY <2>2, <2>3 DEF Spliced, MemGrows
  <2>5. TaskMoves("cb")
    BY <1>0, <1>i, <1>a, <2>1, <2>2, <2>4, TaskGoes DEF TaskMoves, Between
  <2> QED
    BY <1>m, <2>1, <2>4, <2>5
<1>3. ASSUME start_callback PROVE UseInv' /\ NoGain
  <2>1. pc["task"] = "cb" /\ UNCHANGED <<u, at, works, taken>>
    BY <1>3 DEF start_callback, kernel
  <2>2. rep.s \in Structs /\ u[rep.s].mem = "live" /\ rep.i \in Nat /\ rep' \in ReportRecord
        /\ u[rep.s] \in StructRecord
    BY <1>0, <1>3, <1>r, <2>1, ReportEdits DEF UsesReport, ReportRecord, start_callback, Objects
  <2>3. \/ rep'.s = rep.s /\ rep'.i = rep.i + 1 /\ Goto("task", "cb")
        \/ UNCHANGED rep /\ (Goto("task", "fin") \/ Goto("task", "reap"))
        \/ /\ rep'.s = rep.s /\ rep'.i = rep.i /\ ~(rep.i > Len(u[rep.s].attached))
           /\ Goto("task", "cb_q") \/ Goto("task", "cb_ev")
    BY <1>0, <1>3 DEF start_callback, ReportRecord
  <2>4. rep.i # 0
    BY <1>i, <2>1 DEF UsesReport
  <2>5. MemGrows
    BY <2>1, MemEffects
  <2>6. Len(u[rep.s].attached) \in Nat
    BY <2>2 DEF StructRecord
  <2>7. CASE rep'.s = rep.s /\ rep'.i \in {rep.i, rep.i + 1} /\ (Goto("task", "cb") \/ Goto("task", "fin") \/ Goto("task", "reap"))
    BY <1>k, <2>1, <2>7 DEF Between, Amid, UsesReport
  <2>8. CASE /\ rep'.s = rep.s /\ rep'.i = rep.i /\ ~(rep.i > Len(u[rep.s].attached))
             /\ Goto("task", "cb_q") \/ Goto("task", "cb_ev")
    <3>1. rep'.i \in 1..Len(u'[rep'.s].attached)
      BY <2>1, <2>2, <2>4, <2>6, <2>8
    <3>2. PICK l \in {"cb_q", "cb_ev"} : Goto("task", l)
      BY <2>8
    <3>3. TaskMoves(l)
      BY <1>0, <2>1, <2>2, <2>8, <3>1, <3>2, TaskGoes DEF TaskMoves, Amid
    <3> QED
      BY <1>m, <2>1, <2>5, <3>3
  <2> QED
    BY <2>3, <2>7, <2>8
<1>q. ASSUME NEW a, a \in Amid, pc["task"] = a, NEW l \in Amid, Goto("task", l),
             at'["stap"] = at["stap"], UNCHANGED <<u, taken>>, rep'.s = rep.s, rep'.i = rep.i,
             WorksUse'
      PROVE  UseInv' /\ NoGain
  <2>1. MemGrows
    BY <1>q, MemEffects
  <2>2. pc'["task"] = l /\ pc'["stap"] = pc["stap"]
    BY <1>0, <1>q, TaskGoes
  <2>3. TaskMoves(l)
    BY <1>a, <1>r, <1>c, <1>i, <1>q, <2>2 DEF TaskMoves
  <2> QED
    BY <1>q, <2>1, <2>3, TaskUses
<1>w. UNCHANGED <<u, works, taken>> => WorksUse'
  BY <1>0, <1>u, MemEffects, WorksUseKept
<1>b. /\ {"cb_q", "q_in", "q_add", "q_count", "cb_after", "cb_ev", "ev_in", "x_out",
          "end_cb"} \subseteq Amid
      /\ "cb" \in Between /\ "cb" \notin Amid
  BY DEF Amid, Between
<1>4. ASSUME QuiesceCheck PROVE UseInv' /\ NoGain
  <2>1. /\ pc["task"] = "cb_q" /\ UNCHANGED <<u, at, works, taken>>
        /\ (Goto("task", "q_in") /\ UNCHANGED rep) \/ DetachCurrent
    BY <1>4 DEF QuiesceCheck, kernel
  <2> QED
    BY <1>b, <1>d, <1>q, <1>w, <2>1
<1>5. ASSUME QuiesceEnter PROVE UseInv' /\ NoGain
  <2>1. /\ pc["task"] = "q_in" /\ UNCHANGED <<u, rep, works, taken>> /\ Goto("task", "ev_get")
        /\ at' = [at EXCEPT !["task"] = [NoCall EXCEPT !.e = Current, !.ev = BaseEvents,
                                                   !.act = "NONE", !.ret = "q_add"]]
    BY <1>5 DEF QuiesceEnter, kernel
  <2>2. /\ rep.s \in Structs /\ u[rep.s].mem = "live" /\ rep.i \in 1..Len(u[rep.s].attached)
        /\ rep.i # 0 /\ Current \in Engines
    BY <1>a, <1>b, <1>r, <1>c, <1>i, <2>1
  <2>3. /\ at'["stap"] = at["stap"] /\ at'["task"].e = Current /\ at'["task"].act = "NONE"
        /\ at'["task"].ret = "q_add"
    BY <1>0, <2>1 DEF Calls, Procs, NoCall
  <2>4. pc'["task"] = "ev_get" /\ pc'["stap"] = pc["stap"]
    BY <1>0, <2>1, TaskGoes
  <2>5. MemGrows /\ WorksUse'
    BY <1>w, <2>1, MemEffects
  <2>6. UseBy("stap")'
    <3>1. UseBy("stap")
      BY UseParts DEF Procs
    <3> QED
      BY <2>3, <2>4, <2>5, <3>1, UseByKept
  <2>7. UseBy("task")'
    BY <2>2, <2>3, <2>4 DEF UseBy, UsesStruct, WithEngine, UsesEngine, PutLabels
  <2>8. PassUse'
    BY <2>1, <2>2, <2>3, <2>4 DEF PassUse, InPass, PutsReported, PutLabels, PassPuts, Current
  <2>9. QuiesceUse'
    BY <2>4 DEF QuiesceUse, PutLabels
  <2>10. NoGain
    <3>1. \A e \in Engines : HasEngine("task", e)' => HasEngine("task", e)
      BY <2>3 DEF HasEngine
    <3> QED
      BY <2>3, <2>4, <3>1, Gains DEF Procs
  <2> QED
    BY <2>5, <2>6, <2>7, <2>8, <2>9, <2>10, UsePartsNext DEF Procs
<1>6. ASSUME QuiesceAdd PROVE UseInv' /\ NoGain
  <2>1. /\ pc["task"] = "q_add" /\ UNCHANGED <<u, at, rep, taken>>
        /\ \/ Goto("task", "q_count") /\ works' = works \cup {TfWork(Current)}
           \/ Goto("task", "cb_after") /\ UNCHANGED works
    BY <1>6 DEF QuiesceAdd
  <2>2. WorksUse'
    <3>1. TfWork(Current).kind = "tf"
      BY WorkDistinct
    <3> QED
      BY <1>u, <2>1, <3>1 DEF WorksUse
  <2> QED
    BY <1>b, <1>q, <2>1, <2>2
<1>7. ASSUME QuiesceCount PROVE UseInv' /\ NoGain
  BY <1>7, <1>b, <1>q, <1>w DEF QuiesceCount, kernel
<1>8. ASSUME AfterQuiesce PROVE UseInv' /\ NoGain
  <2>1. pc["task"] = "cb_after" /\ UNCHANGED <<u, at, works, taken>>
    BY <1>8 DEF AfterQuiesce, kernel
  <2>2. \/ Goto("task", "cb_ev") /\ rep'.s = rep.s /\ rep'.i = rep.i
        \/ Goto("task", "cb") /\ rep'.s = rep.s /\ rep'.i = rep.i + 1
    <3>1. CASE rep' = [rep EXCEPT !.spur = FALSE] /\ Goto("task", "cb_ev")
      BY <1>0, <3>1 DEF ReportRecord
    <3>2. CASE /\ rep' = [rep EXCEPT !.i = @ + 1, !.spur = @ /\ rep.ev # "NONE"]
               /\ Goto("task", "cb")
      <4> DEFINE b == rep.spur /\ rep.ev # "NONE"
                 n == rep.i + 1
      <4>1. rep' = [rep EXCEPT !.i = n, !.spur = b]
        BY <3>2
      <4> HIDE DEF b, n
      <4>2. rep'.s = rep.s /\ rep'.i = n
        BY <1>0, <4>1 DEF ReportRecord
      <4> QED
        BY <3>2, <4>2 DEF n
    <3> QED
      BY <1>8, <3>1, <3>2, Zenon DEF AfterQuiesce
  <2>3. CASE Goto("task", "cb_ev") /\ rep'.s = rep.s /\ rep'.i = rep.i
    BY <1>b, <1>q, <1>w, <2>1, <2>3
  <2>4. CASE Goto("task", "cb") /\ rep'.s = rep.s /\ rep'.i = rep.i + 1
    BY <1>a, <1>b, <1>k, <2>1, <2>4
  <2> QED
    BY <2>2, <2>3, <2>4
<1>9. ASSUME EventCheck PROVE UseInv' /\ NoGain
  <2>1. /\ pc["task"] = "cb_ev" /\ UNCHANGED <<u, at, works, taken>>
        /\ (Goto("task", "ev_in") /\ UNCHANGED rep) \/ DetachCurrent
    BY <1>9 DEF EventCheck, kernel
  <2> QED
    BY <1>b, <1>d, <1>q, <1>w, <2>1
<1>10. ASSUME EventEnter PROVE UseInv' /\ NoGain
  <2>1. /\ pc["task"] = "ev_in" /\ UNCHANGED <<u, rep, works, taken>>
        /\ \/ Call("task", "target", TargetEvents, "INTERRUPT", "x_out")
           \/ Goto("task", "end_cb") /\ UNCHANGED at
    BY <1>10 DEF EventEnter, kernel
  <2>2. CASE Call("task", "target", TargetEvents, "INTERRUPT", "x_out")
    <3>1. \E c : /\ NewCall("task", c) /\ Idle(c)
                 /\ \/ tk.mm /\ c.ops = "target" /\ c.ev = TargetEvents /\ c.act = "INTERRUPT"
                       /\ c.ret = "x_out" /\ c.rc = "0" /\ Goto("task", "att_get")
                    \/ ~tk.mm /\ c.rc = "EPERM" /\ Goto("task", "x_out")
      <4>1. Calls /\ "task" \in Procs /\ "x_out" \in Labels
            /\ "INTERRUPT" \in {"NONE", "RESUME", "INTERRUPT"}
        BY <1>0
      <4> QED
        BY <2>2, <4>1, EventSets, CallEffect
    <3>2. PICK c : /\ NewCall("task", c) /\ Idle(c)
                   /\ \/ c.act = "INTERRUPT" /\ c.ret = "x_out" /\ Goto("task", "att_get")
                      \/ Goto("task", "x_out")
      BY <3>1
    <3>3. at'["stap"] = at["stap"]
      BY <3>2 DEF NewCall, Procs
    <3>4. CASE c.act = "INTERRUPT" /\ c.ret = "x_out" /\ Goto("task", "att_get")
      <4>1. pc'["task"] = "att_get" /\ pc'["stap"] = pc["stap"] /\ MemGrows /\ WorksUse'
        BY <1>0, <1>w, <2>1, <3>4, TaskGoes, MemEffects
      <4>2. /\ rep'.s \in Structs /\ u'[rep'.s].mem # "unused" /\ rep'.i # 0
            /\ rep'.i \in 1..Len(u'[rep'.s].attached)
        BY <1>a, <1>b, <1>r, <1>c, <1>i, <2>1
      <4> QED
        BY <3>2, <3>4, <4>1, <4>2, TaskCalls
    <3>5. CASE Goto("task", "x_out")
      BY <1>b, <1>q, <1>w, <2>1, <3>3, <3>5
    <3> QED
      BY <3>2, <3>4, <3>5
  <2>3. CASE Goto("task", "end_cb") /\ UNCHANGED at
    BY <1>b, <1>q, <1>w, <2>1, <2>3
  <2> QED
    BY <2>1, <2>2, <2>3
<1>11. ASSUME ExecMatched PROVE UseInv' /\ NoGain
  <2>1. /\ pc["task"] = "x_out" /\ UNCHANGED <<u, at, works, taken>> /\ Goto("task", "cb")
        /\ rep'.s = rep.s /\ rep'.i = rep.i + 1
    BY <1>0, <1>11 DEF ExecMatched, kernel, ReportRecord
  <2> QED
    BY <1>a, <1>b, <1>k, <2>1
<1>12. ASSUME TargetEnd PROVE UseInv' /\ NoGain
  BY <1>12, <1>b, <1>d DEF TargetEnd, kernel
<1>e. ASSUME utrace_reset(rep.s), pc["task"] \in UsesReport PROVE \A t \in Structs : u'[t].mem = u[t].mem
  <2>1. Reset(rep.s)
    BY <1>0, <1>r, <1>e, ResetEffect
  <2> QED
    BY <2>1 DEF Reset
<1>13. ASSUME finish_report PROVE UseInv' /\ NoGain
  <2>1. /\ pc["task"] = "fin" /\ UNCHANGED <<rep, works, taken>> /\ Goto("task", "put")
        /\ utrace_reset(rep.s) \/ UNCHANGED u
        /\ at' = [at EXCEPT !["task"].s = rep.s, !["task"].k = IF rep.tp THEN "tp_out" ELSE "w_done"]
    BY <1>13 DEF finish_report, kernel
  <2>2. \A t \in Structs : u'[t].mem = u[t].mem
    BY <1>e, <2>1 DEF UsesReport
  <2>3. PICK s \in Structs : rep.s = s
    BY <1>r, <2>1 DEF UsesReport
  <2>4. PICK k \in {"tp_out", "w_done"} : k = IF rep.tp THEN "tp_out" ELSE "w_done"
    OBVIOUS
  <2>5. PICK c : NewCall("task", c) /\ c.s = s /\ c.k = k
    <3>1. at' = [at EXCEPT !["task"].s = s, !["task"].k = k] /\ k \in Labels
      BY <1>0, <2>1, <2>3, <2>4
    <3> QED
      BY <1>g, <3>1
  <2> QED
    BY <1>f, <2>1, <2>2, <2>3, <2>5 DEF UsesReport, PassPuts
<1>14. ASSUME InterruptAgain PROVE UseInv' /\ NoGain
  <2>1. /\ pc["task"] = "fin" /\ UNCHANGED <<rep, works, taken>> /\ Goto("task", "notify")
        /\ utrace_reset(rep.s)
        /\ at' = [at EXCEPT !["task"].s = rep.s, !["task"].k = "w_done"]
    BY <1>14 DEF InterruptAgain, kernel
  <2>2. \A t \in Structs : u'[t].mem = u[t].mem
    BY <1>e, <2>1 DEF UsesReport
  <2>3. PICK s \in Structs : rep.s = s
    BY <1>r, <2>1 DEF UsesReport
  <2>5. PICK c : NewCall("task", c) /\ c.s = s /\ c.k = "w_done"
    <3>1. at' = [at EXCEPT !["task"].s = s, !["task"].k = "w_done"] /\ "w_done" \in Labels
      BY <1>0, <2>1, <2>3
    <3> QED
      BY <1>g, <3>1
  <2> QED
    BY <1>f, <2>1, <2>2, <2>3, <2>5 DEF UsesReport, PassPuts
<1>15. ASSUME NotifyAgain PROVE UseInv' /\ NoGain
  <2>1. pc["task"] = "notify" /\ UNCHANGED <<rep, at, taken>>
    BY <1>15 DEF NotifyAgain
  <2>2. rep.s \in Structs /\ u[rep.s].mem = "live" /\ rep.i # 0
    BY <1>r, <1>i, <2>1 DEF UsesReport
  <2>3. at["task"].s = rep.s /\ at["task"].k = "w_done"
    BY <1>u, <2>1 DEF PassUse, PutsReported, PlaceInv, TaskPlace
  <2>4. CASE u[rep.s].resumeAdded
    <3>1. Goto("task", "put") /\ UNCHANGED <<u, works>>
      BY <1>15, <2>4 DEF NotifyAgain
    <3>2. TaskMoves("put")
      BY <1>0, <2>1, <2>2, <2>3, <3>1, TaskGoes DEF TaskMoves, PassPuts
    <3> QED
      BY <1>m, <2>1, <3>1, <3>2, MemEffects
  <2>5. CASE ~u[rep.s].resumeAdded
    <3>1. Goto("task", "fin_count") /\ Notified(rep.s)
      <4>1. /\ u' = [u EXCEPT ![rep.s] = stp_task_notify_resume(u[rep.s])]
            /\ works' = works \cup {Resume(rep.s)} /\ Goto("task", "fin_count")
        BY <1>0, <1>15, <2>2, <2>5 DEF NotifyAgain, Objects
      <4>2. u[rep.s] \in StructRecord
        BY <1>0, <2>2 DEF Objects
      <4> QED
        BY <1>0, <2>2, <2>5, <4>1, <4>2, NotifyEffect
    <3>2. MemGrows /\ u'[rep.s].mem = "live" /\ works' = works \cup {Resume(rep.s)}
      BY <2>2, <3>1, MemEffects DEF Notified, Unmoved
    <3>3. WorksUse'
      BY <1>0, <1>u, <2>1, <2>2, <3>2, WorkDistinct, WorkKinds DEF WorksUse, MemGrows
    <3>4. TaskMoves("fin_count")
      BY <1>0, <2>1, <2>2, <2>3, <3>1, <3>2, TaskGoes DEF TaskMoves
    <3> QED
      BY <3>2, <3>3, <3>4, TaskUses
  <2> QED
    BY <2>4, <2>5
<1>16. ASSUME NotifyCount PROVE UseInv' /\ NoGain
  <2>1. /\ pc["task"] = "fin_count" /\ UNCHANGED <<rep, at, works, taken, u>>
        /\ Goto("task", "put")
    BY <1>16 DEF NotifyCount, kernel
  <2>2. rep.s \in Structs /\ u[rep.s].mem = "live" /\ rep.i # 0
    BY <1>r, <1>i, <2>1 DEF UsesReport
  <2>3. at["task"].s = rep.s /\ at["task"].k = "w_done"
    BY <1>u, <2>1 DEF PassUse, PutsReported, PlaceInv, TaskPlace
  <2>4. TaskMoves("put")
    BY <1>0, <2>1, <2>2, <2>3, TaskGoes DEF TaskMoves, PassPuts
  <2> QED
    BY <1>m, <2>1, <2>4, MemEffects
<1>17. ASSUME utrace_maybe_reap PROVE UseInv' /\ NoGain
  <2>1. /\ pc["task"] = "reap" /\ UNCHANGED <<rep, works, taken>> /\ Goto("task", "put")
        /\ utrace_reset(rep.s)
        /\ at' = [at EXCEPT !["task"].s = rep.s, !["task"].k = "put2"]
    BY <1>17 DEF utrace_maybe_reap, kernel
  <2>2. \A t \in Structs : u'[t].mem = u[t].mem
    BY <1>e, <2>1 DEF UsesReport
  <2>3. PICK s \in Structs : rep.s = s
    BY <1>r, <2>1 DEF UsesReport
  <2>5. PICK c : NewCall("task", c) /\ c.s = s /\ c.k = "put2"
    <3>1. at' = [at EXCEPT !["task"].s = s, !["task"].k = "put2"] /\ "put2" \in Labels
      BY <1>0, <2>1, <2>3
    <3> QED
      BY <1>g, <3>1
  <2> QED
    BY <1>f, <2>1, <2>2, <2>3, <2>5 DEF UsesReport, PassPuts
<1>18. ASSUME SecondPut PROVE UseInv' /\ NoGain
  <2>1. /\ pc["task"] = "put2" /\ UNCHANGED <<rep, works, taken, u>> /\ Goto("task", "put")
        /\ at' = [at EXCEPT !["task"].k = "w_done"]
    BY <1>18 DEF SecondPut, kernel
  <2>2. /\ rep.s \in Structs /\ u[rep.s].mem # "unused" /\ rep.i # 0 /\ at["task"].s = rep.s
    BY <1>u, <2>1 DEF PassUse, PutsReported
  <2>3. at'["task"].s = at["task"].s /\ at'["task"].k = "w_done" /\ at'["stap"] = at["stap"]
    BY <1>0, <2>1 DEF Calls, CallRecord, Procs
  <2>4. TaskMoves("put")
    BY <1>0, <2>1, <2>2, <2>3, TaskGoes DEF TaskMoves, PassPuts
  <2> QED
    BY <1>m, <2>1, <2>4, MemEffects
<1> QED
  BY <1>1, <1>2, <1>3, <1>4, <1>5, <1>6, <1>7, <1>8, <1>9, <1>10, <1>11, <1>12, <1>13, <1>14,
     <1>15, <1>16, <1>17, <1>18, Zenon DEF PassStep

(* The task works.                                                          *)
LEMMA WorkUses ==
    ASSUME TypeInv, UseInv, ListInv, PlaceInv, ~Oops, WorkStep
    PROVE  UseInv' /\ NoGain
<1>0. /\ Calls /\ Objects /\ Handles /\ table \in Seq(Structs) /\ Places /\ rep \in ReportRecord
      /\ works \in SUBSET Works /\ taken \in SUBSET Works /\ "task" \in Procs
  BY DEF TypeInv, MemoryTypes, SimpleTypes, WorkTypes, Procs
<1>u. WorksUse
  BY UseParts
<1>l. {"tw", "w_done", "user", "exited", "zombie", "dead", "w_wake", "tf", "tf_chk", "tf_in",
       "tf_begin", "cl_match", "cl_end"} \subseteq Apart /\ "tp_get" \notin TfLabels \cup Uncounted
  BY DEF Apart, TfLabels, Uncounted
<1>k. ASSUME NEW l \in Apart, Goto("task", l), at'["stap"] = at["stap"], UNCHANGED u,
             works' \cup taken' \subseteq works \cup taken, l # "tp_get"
      PROVE  UseInv' /\ NoGain
  <2>1. MemGrows /\ WorksUse'
    BY <1>0, <1>u, <1>k, MemEffects, WorksUseKept
  <2>2. TaskMoves(l)
    BY <1>0, <1>k, TaskGoes DEF TaskMoves
  <2> QED
    BY <2>1, <2>2, TaskUses
<1>m. ASSUME NEW ops \in {"finder", "target"}, NEW ev \in {FinderEvents, TargetEvents},
             NEW act \in {"RESUME", "INTERRUPT"}, NEW ret \in {"cl_match", "cl_end"},
             Call("task", ops, ev, act, ret), UNCHANGED <<u, works, taken>>
      PROVE  UseInv' /\ NoGain
  <2>1. \E c : /\ NewCall("task", c) /\ Idle(c)
               /\ \/ c.act = act /\ c.ret = ret /\ Goto("task", "att_get")
                  \/ Goto("task", ret)
    <3>1. /\ Calls /\ "task" \in Procs /\ ret \in Labels /\ act \in {"NONE", "RESUME", "INTERRUPT"}
          /\ ops \in OpsValues /\ ev \in SUBSET EventBits
      BY <1>0, EventSets, LabelNames DEF OpsValues
    <3>2. \E c : /\ NewCall("task", c) /\ Idle(c)
                 /\ \/ tk.mm /\ c.ops = ops /\ c.ev = ev /\ c.act = act
                       /\ c.ret = ret /\ c.rc = "0" /\ Goto("task", "att_get")
                    \/ ~tk.mm /\ c.rc = "EPERM" /\ Goto("task", ret)
      BY <1>m, <3>1, CallEffect
    <3> QED
      BY <3>2
  <2>2. PICK c : /\ NewCall("task", c) /\ Idle(c)
                 /\ \/ c.act = act /\ c.ret = ret /\ Goto("task", "att_get")
                    \/ Goto("task", ret)
    BY <2>1
  <2>3. at'["stap"] = at["stap"]
    BY <2>2 DEF NewCall, Procs
  <2>4. CASE c.act = act /\ c.ret = ret /\ Goto("task", "att_get")
    <3>1. pc'["task"] = "att_get" /\ pc'["stap"] = pc["stap"] /\ MemGrows /\ WorksUse'
      BY <1>0, <1>m, <1>u, <2>4, TaskGoes, MemEffects, WorksUseKept
    <3>2. c.act # "NONE" /\ c.ret \in {"cl_match", "cl_end"}
      BY <2>4
    <3> QED
      BY <2>2, <3>1, <3>2, TaskCalls
  <2>5. CASE Goto("task", ret)
    BY <1>k, <1>l, <1>m, <2>3, <2>5
  <2> QED
    BY <2>2, <2>4, <2>5
<1>1. ASSUME TakeWorks PROVE UseInv' /\ NoGain
  BY <1>1, <1>k, <1>l DEF TakeWorks
<1>2. ASSUME NEW w \in taken, RunWork(w) PROVE UseInv' /\ NoGain
  <2>1. w \in Works
    BY <1>0
  <2>2. /\ Begins(w) /\ taken' = taken \ {w} /\ UNCHANGED works /\ rep'.i = 1
        /\ \/ /\ w.kind \in {"resume", "report"} /\ rep'.s = w.id
              /\ \E c : NewCall("task", c) /\ c.s = w.id /\ c.k = "w_done"
              /\ \E l \in {"put", "rep_start", "rw_lock"} : Goto("task", l)
           \/ (\E c : NewCall("task", c)) /\ Goto("task", "tf")
    <3>1. UNCHANGED works
      BY <1>2 DEF RunWork
    <3> QED
      BY <1>0, <1>2, <2>1, <3>1, RunEffect
  <2>3. MemGrows /\ WorksUse'
    BY <1>0, <1>u, <2>2, MemEffects, WorksUseKept DEF Begins
  <2>4. CASE (\E c : NewCall("task", c)) /\ Goto("task", "tf")
    <3>1. TaskMoves("tf")
      BY <1>0, <1>l, <2>4, TaskGoes DEF TaskMoves, NewCall, Procs
    <3> QED
      BY <2>3, <3>1, TaskUses
  <2>5. ASSUME w.kind \in {"resume", "report"}, rep'.s = w.id,
               NEW c, NewCall("task", c), c.s = w.id, c.k = "w_done",
               NEW l \in {"put", "rep_start", "rw_lock"}, Goto("task", l)
        PROVE  UseInv' /\ NoGain
    <3>1. w.id \in Structs /\ u[w.id].mem # "unused"
      BY <1>u, <2>1, <2>5, WorkKinds DEF WorksUse
    <3>2. u'[w.id].mem # "unused"
      BY <2>3, <3>1 DEF MemGrows
    <3>3. at'["task"] = c /\ at'["stap"] = at["stap"]
      BY <2>5 DEF NewCall, Procs
    <3>4. pc'["task"] = l /\ pc'["stap"] = pc["stap"]
      BY <1>0, <2>5, TaskGoes
    <3>5. TaskMoves(l)
      BY <2>2, <2>5, <3>1, <3>2, <3>3, <3>4 DEF TaskMoves, PassPuts, Between
    <3> QED
      BY <2>3, <3>5, TaskUses
  <2>6. CASE /\ w.kind \in {"resume", "report"} /\ rep'.s = w.id
             /\ \E c : NewCall("task", c) /\ c.s = w.id /\ c.k = "w_done"
             /\ \E l \in {"put", "rep_start", "rw_lock"} : Goto("task", l)
    BY <2>5, <2>6
  <2> QED
    BY <2>2, <2>4, <2>6
<1>3. ASSUME WorksDone PROVE UseInv' /\ NoGain
  BY <1>3, <1>k, <1>l DEF WorksDone
<1>4. ASSUME Die PROVE UseInv' /\ NoGain
  BY <1>4, <1>k, <1>l DEF Die
<1>5. ASSUME TfDequeue PROVE UseInv' /\ NoGain
  BY <1>5, <1>k, <1>l DEF TfDequeue, kernel
<1>6. ASSUME TfCheck PROVE UseInv' /\ NoGain
  BY <1>6, <1>k, <1>l DEF TfCheck, kernel
<1>7. ASSUME TfEnter PROVE UseInv' /\ NoGain
  <2>1. /\ UNCHANGED <<u, works, taken>>
        /\ \/ Call("task", "finder", FinderEvents, "RESUME", "cl_match")
           \/ Goto("task", "tf_begin") /\ UNCHANGED at
    BY <1>7 DEF TfEnter, kernel
  <2> QED
    BY <1>k, <1>l, <1>m, <2>1
<1>8. ASSUME TfBegin PROVE UseInv' /\ NoGain
  BY <1>8, <1>k, <1>l DEF TfBegin, kernel
<1>9. ASSUME CloneMatch PROVE UseInv' /\ NoGain
  <2>1. /\ UNCHANGED <<u, works, taken>>
        /\ \/ Call("task", "target", TargetEvents, "INTERRUPT", "cl_end")
           \/ Goto("task", "cl_end") /\ UNCHANGED at
    BY <1>9 DEF CloneMatch, kernel
  <2> QED
    BY <1>k, <1>l, <1>m, <2>1
<1>10. ASSUME CloneDone PROVE UseInv' /\ NoGain
  BY <1>10, <1>k, <1>l DEF CloneDone, kernel
<1>11. ASSUME stp_task_work_func_done PROVE UseInv' /\ NoGain
  <2>1. /\ at' = [at EXCEPT !["task"] = NoCall] /\ UNCHANGED <<u, works, taken>>
        /\ Goto("task", "w_wake") \/ Goto("task", "tw")
    BY <1>11 DEF stp_task_work_func_done, kernel
  <2>2. at'["stap"] = at["stap"]
    BY <1>0, <2>1 DEF Calls, Procs
  <2> QED
    BY <1>k, <1>l, <2>1, <2>2
<1>12. ASSUME Wake PROVE UseInv' /\ NoGain
  <2>1. /\ pc["task"] = "w_wake" /\ pc'["task"] = "tw"
        /\ Goto("task", "tw") \/ (pc["stap"] = "st_sleep" /\ pc'["stap"] = "st_wait")
        /\ UNCHANGED <<u, at, works, taken>>
    BY <1>0, <1>12, WakeMoves DEF Wake, kernel
  <2>2. CASE Goto("task", "tw")
    BY <1>k, <1>l, <2>1, <2>2
  <2>3. CASE pc["stap"] = "st_sleep" /\ pc'["stap"] = "st_wait"
    <3>1. UseBy("task")' /\ UseBy("stap")'
      BY <2>1, <2>3 DEF UseBy, UsesStruct, WithEngine, UsesEngine, PutLabels
    <3>2. PassUse' /\ QuiesceUse'
      BY <2>1 DEF PassUse, InPass, PutsReported, AtEngine, WithEngine, UsesEngine, PutLabels,
         Calling, CallPuts, CallLabels, UsesReport, QuiesceUse
    <3>3. WorksUse'
      BY <1>u, <2>1 DEF WorksUse
    <3>4. NoGain
      BY <2>1, <2>3 DEF NoGain, HasEngine, WithEngine, UsesEngine, PutLabels, Procs
    <3> QED
      BY <3>1, <3>2, <3>3, <3>4, UsePartsNext DEF Procs
  <2> QED
    BY <2>1, <2>2, <2>3
<1> QED
  BY <1>1, <1>2, <1>3, <1>4, <1>5, <1>6, <1>7, <1>8, <1>9, <1>10, <1>11, <1>12, Zenon DEF WorkStep

-----------------------------------------------------------------------------
(* The lists of engines, and the references on them.                        *)

SameLists == \A t \in Structs : ListOf(t)' = ListOf(t)

(* A step that only counts references on structs in memory keeps the lists.     *)
LEMMA ListKept ==
    ASSUME ListInv, UNCHANGED table, Unmoved,
           \A t \in Structs : u[t].mem # "live" => u'[t].ref = u[t].ref
    PROVE  ListInv' /\ SameLists
<1>1. SameLists
  BY DEF SameLists, Unmoved, ListOf
<1> QED
  BY <1>1 DEF ListInv, SameLists, Unmoved

(* Of one engine: it has a reference for its list and one for each call.     *)
Held(e) ==
    /\ eng[e].ref >= 0
    /\ Listed(e) => eng[e].mem = "live"
    /\ eng[e].mem = "live" =>
         eng[e].ref >= One(Listed(e)) + One(HasEngine("stap", e)) + One(HasEngine("task", e))
    /\ eng[e].mem = "unused" => ~HasEngine("stap", e) /\ ~HasEngine("task", e)

(* EngineInv by engines.                                                    *)
LEMMA HeldEngines ==
    /\ EngineInv <=> \A e \in Engines : Held(e)
    /\ EngineInv' <=> \A e \in Engines : Held(e)'
BY DEF EngineInv, Held, Listed, HasEngine, WithEngine

(* An engine that is used less and whose count stays.                       *)
LEMMA FewerUses ==
    ASSUME Handles, EngineInv, NEW e \in Engines, eng'[e].ref = eng[e].ref,
           eng'[e].mem \in {eng[e].mem, "freed"},
           Listed(e)' => Listed(e) /\ eng'[e].mem = eng[e].mem,
           HasEngine("stap", e)' => HasEngine("stap", e),
           HasEngine("task", e)' => HasEngine("task", e)
    PROVE  Held(e)'
<1>1. eng[e] \in EngineRecord
  BY DEF Handles
<1>2. eng[e].ref \in Int
  BY <1>1 DEF EngineRecord
<1>3. Held(e)
  BY HeldEngines
<1>4. One(Listed(e)') <= One(Listed(e)) /\ One(Listed(e)') \in Int /\ One(Listed(e)) \in Int
  BY DEF One
<1>5. /\ One(HasEngine("stap", e)') <= One(HasEngine("stap", e))
      /\ One(HasEngine("stap", e)') \in Int /\ One(HasEngine("stap", e)) \in Int
  BY DEF One
<1>6. /\ One(HasEngine("task", e)') <= One(HasEngine("task", e))
      /\ One(HasEngine("task", e)') \in Int /\ One(HasEngine("task", e)) \in Int
  BY DEF One
<1>7. eng'[e].mem = "live" => eng'[e].ref >=
        One(Listed(e)') + One(HasEngine("stap", e)') + One(HasEngine("task", e)')
  BY <1>2, <1>3, <1>4, <1>5, <1>6 DEF Held
<1>8. /\ eng'[e].ref >= 0
      /\ Listed(e)' => eng'[e].mem = "live"
      /\ eng'[e].mem = "unused" => ~HasEngine("stap", e)' /\ ~HasEngine("task", e)'
  BY <1>3 DEF Held
<1> QED
  BY <1>7, <1>8 DEF Held, One

(* A step that leaves the lists and the engines alone keeps their counts. *)
LEMMA EngineKept ==
    ASSUME Handles, EngineInv, SameEngines, NoGain,
           \A e \in Engines : Listed(e)' => Listed(e)
    PROVE  EngineInv'
<1>1. ASSUME NEW e \in Engines PROVE Held(e)'
  <2>1. /\ Listed(e)' => Listed(e)
        /\ HasEngine("stap", e)' => HasEngine("stap", e)
        /\ HasEngine("task", e)' => HasEngine("task", e)
    BY DEF NoGain, Procs
  <2>2. eng'[e].ref = eng[e].ref /\ eng'[e].mem = eng[e].mem
    BY DEF SameEngines
  <2> QED
    BY <2>1, <2>2, FewerUses
<1> QED
  BY <1>1, HeldEngines

(* Lists that do not grow list no other engine.                             *)
LEMMA ListsKept ==
    ASSUME SameLists
    PROVE  \A e \in Engines : Listed(e)' => Listed(e)
BY DEF SameLists, Listed

(* The common case: nothing but the references of live structs changes.      *)
LEMMA CountsKept ==
    ASSUME Handles, ListInv, EngineInv, NoGain, UNCHANGED <<table, eng>>, Unmoved,
           \A t \in Structs : u[t].mem # "live" => u'[t].ref = u[t].ref
    PROVE  ListInv' /\ EngineInv'
<1>1. ListInv' /\ SameLists
  BY ListKept
<1>2. SameEngines
  BY DEF SameEngines
<1> QED
  BY <1>1, <1>2, EngineKept, ListsKept

(* Structs are freed with the engines on their lists.                       *)
LEMMA FreedKept ==
    ASSUME Handles, ListInv, EngineInv, NoGain, NEW S \in SUBSET Structs, Freed(S)
    PROVE  ListInv' /\ EngineInv'
<1>1. \A t \in Structs : t \notin S => ListOf(t)' = ListOf(t)
  BY DEF Freed, ListOf
<1>2. ListInv'
  BY <1>1 DEF ListInv, Freed
<1>3. ASSUME NEW e \in Engines PROVE Held(e)'
  <2>1. /\ HasEngine("stap", e)' => HasEngine("stap", e)
        /\ HasEngine("task", e)' => HasEngine("task", e)
    BY DEF NoGain, Procs
  <2>2. Listed(e)' => Listed(e) /\ ~(\E s \in S : e \in ListOf(s))
    <3> SUFFICES ASSUME NEW t \in Structs, e \in ListOf(t)'
                 PROVE  Listed(e) /\ ~(\E s \in S : e \in ListOf(s))
      BY DEF Listed
    <3>1. t \notin S
      BY DEF Freed
    <3>2. e \in ListOf(t)
      BY <1>1, <3>1
    <3>3. \A s \in S : e \notin ListOf(s)
      BY <3>1, <3>2 DEF ListInv
    <3> QED
      BY <3>2, <3>3 DEF Listed
  <2>3. /\ eng'[e].ref = eng[e].ref
        /\ eng'[e].mem = IF \E s \in S : e \in ListOf(s) THEN "freed" ELSE eng[e].mem
    BY DEF Freed
  <2> QED
    BY <2>1, <2>2, <2>3, FewerUses
<1> QED
  BY <1>2, <1>3, HeldEngines

(* A struct is made without engines.                                        *)
LEMMA MadeKept ==
    ASSUME Handles, ListInv, EngineInv, NoGain, NEW p, NEW s \in Structs, Made(p, s), UNCHANGED eng
    PROVE  ListInv' /\ EngineInv'
<1>1. \A t \in Structs : ListOf(t)' = IF t = s THEN {} ELSE ListOf(t)
  BY DEF Made, ListOf
<1>2. ListInv'
  BY <1>1 DEF ListInv, Made
<1>3. \A e \in Engines : Listed(e)' => Listed(e)
  BY <1>1 DEF Listed
<1>4. SameEngines
  BY DEF SameEngines
<1> QED
  BY <1>2, <1>3, <1>4, EngineKept

(* An engine is queued with a reference for the list and one for the caller. *)
LEMMA QueuedKept ==
    ASSUME Handles, ListInv, EngineInv, NEW p \in Procs, NEW s \in Structs, NEW e \in Engines,
           u[s].mem = "live", Queued(p, s, e), UNCHANGED table,
           \A q \in Procs : q # p => pc'[q] = pc[q] /\ at'[q] = at[q]
    PROVE  ListInv' /\ EngineInv'
<1>1. \A t \in Structs : t # s => ListOf(t)' = ListOf(t)
  BY DEF Queued, ListOf
<1>2. ~Listed(e) /\ ~HasEngine("stap", e) /\ ~HasEngine("task", e)
  BY DEF EngineInv, Queued
<1>3. ListOf(s)' = ListOf(s) \cup {e}
  BY DEF Queued
<1>4. ListInv'
  <2>1. \A t \in Structs : u'[t].mem = u[t].mem /\ u'[t].ref = u[t].ref
    BY DEF Queued, SameRefs
  <2>2. \A t \in Structs : t # s => u'[t].flags = u[t].flags
    BY DEF Queued
  <2>3. u'[s].flags # {}
    BY DEF Queued
  <2>4. \A t \in Structs : e \notin ListOf(t)
    BY <1>2 DEF Listed
  <2>5. \A t, r \in Structs : t # r => ListOf(t)' \cap ListOf(r)' = {}
    BY <1>1, <1>3, <2>4 DEF ListInv
  <2> QED
    BY <1>1, <1>3, <2>1, <2>2, <2>3, <2>5 DEF ListInv
<1>5. at'[p].e = e
  BY DEF Queued, NewCall
<1>6. ASSUME NEW d \in Engines PROVE Held(d)'
  <2>1. \A q \in Procs : q # p => (HasEngine(q, d)' <=> HasEngine(q, d))
    BY DEF HasEngine, WithEngine
  <2>2. CASE d = e
    <3>1. eng'[d].mem = "live" /\ eng'[d].ref = 2
      BY <2>2 DEF Queued
    <3>2. ~HasEngine("stap", d)' \/ ~HasEngine("task", d)'
      BY <1>2, <2>1, <2>2 DEF Procs
    <3> QED
      BY <3>1, <3>2 DEF Held, One
  <2>3. CASE d # e
    <3>1. eng'[d] = eng[d]
      BY <2>3 DEF Queued
    <3>2. ~HasEngine(p, d)'
      BY <1>5, <2>3 DEF HasEngine
    <3>3. Listed(d)' => Listed(d)
      BY <1>1, <1>3, <2>3 DEF Listed
    <3>4. /\ HasEngine("stap", d)' => HasEngine("stap", d)
          /\ HasEngine("task", d)' => HasEngine("task", d)
      BY <2>1, <3>2 DEF Procs
    <3> QED
      BY <3>1, <3>3, <3>4, FewerUses
  <2> QED
    BY <2>2, <2>3
<1> QED
  BY <1>4, <1>6, HeldEngines

(* The caller's reference on an engine is dropped.                          *)
LEMMA PutKept ==
    ASSUME Handles, ListInv, EngineInv, NEW p \in Procs, NEW e \in Engines, HasEngine(p, e),
           eng[e].mem # "freed", Dropped({e}), UNCHANGED <<table, u>>,
           \A d \in Engines : ~HasEngine(p, d)',
           \A q \in Procs : q # p => pc'[q] = pc[q] /\ at'[q] = at[q]
    PROVE  ListInv' /\ EngineInv'
<1>0. Unmoved /\ \A t \in Structs : u'[t].ref = u[t].ref
  BY DEF Unmoved
<1>1. ListInv' /\ SameLists
  BY <1>0, ListKept
<1>2. ASSUME NEW d \in Engines PROVE Held(d)'
  <2>1. \A q \in Procs : q # p => (HasEngine(q, d)' <=> HasEngine(q, d))
    BY DEF HasEngine, WithEngine
  <2>2. /\ HasEngine("stap", d)' => HasEngine("stap", d) /\ p # "stap"
        /\ HasEngine("task", d)' => HasEngine("task", d) /\ p # "task"
        /\ Listed(d)' => Listed(d)
    BY <1>1, <2>1, ListsKept DEF Procs
  <2>3. /\ eng'[d].ref = IF d = e THEN eng[d].ref - 1 ELSE eng[d].ref
        /\ eng'[d].mem = IF d = e /\ eng[d].ref = 1 THEN "freed" ELSE eng[d].mem
    BY DEF Dropped
  <2>4. eng[d] \in EngineRecord
    BY DEF Handles
  <2>5. eng[d].ref \in Int /\ eng[d].mem \in {"unused", "live", "freed"}
    BY <2>4 DEF EngineRecord
  <2>6. CASE d # e
    BY <2>2, <2>3, <2>6, FewerUses
  <2>7. CASE d = e
    <3>1. eng[d].mem = "live"
      BY <2>5, <2>7 DEF EngineInv, Procs
    <3>2. eng[d].ref >= One(Listed(d)) + One(HasEngine("stap", d)) + One(HasEngine("task", d))
      BY <3>1 DEF EngineInv
    <3>3. CASE p = "stap"
      BY <2>2, <2>3, <2>5, <2>7, <3>1, <3>2, <3>3 DEF Held, One
    <3>4. CASE p = "task"
      BY <2>2, <2>3, <2>5, <2>7, <3>1, <3>2, <3>4 DEF Held, One
    <3> QED
      BY <3>3, <3>4 DEF Procs
  <2> QED
    BY <2>6, <2>7
<1> QED
  BY <1>1, <1>2, HeldEngines

(* A reset takes engines off the list of a struct with the list's reference. *)
LEMMA ResetKept ==
    ASSUME Handles, ListInv, EngineInv, NoGain, NEW s \in Structs, u[s].mem = "live", Reset(s),
           UNCHANGED table
    PROVE  ListInv' /\ EngineInv'
<1>1. \A t \in Structs : t # s => ListOf(t)' = ListOf(t)
  BY DEF Reset, ListOf
<1>2. ListInv'
  <2>1. \A t \in Structs : u'[t].mem = u[t].mem /\ u'[t].ref = u[t].ref
    BY DEF Reset, SameRefs
  <2>2. \A t \in Structs : t # s => u'[t].flags = u[t].flags
    BY DEF Reset
  <2>3. ListOf(s)' \subseteq ListOf(s) /\ (ListOf(s)' # {} => u'[s].flags # {})
    BY DEF Reset
  <2>4. \A t, r \in Structs : t # r => ListOf(t)' \cap ListOf(r)' = {}
    BY <1>1, <2>3 DEF ListInv
  <2> QED
    BY <1>1, <2>1, <2>2, <2>3, <2>4 DEF ListInv
<1>3. ASSUME NEW d \in Engines PROVE Held(d)'
  <2>1. /\ HasEngine("stap", d)' => HasEngine("stap", d)
        /\ HasEngine("task", d)' => HasEngine("task", d)
    BY DEF NoGain, Procs
  <2>2. Listed(d)' => Listed(d) /\ d \notin ListOf(s) \ ListOf(s)'
    <3> SUFFICES ASSUME NEW t \in Structs, d \in ListOf(t)'
                 PROVE  Listed(d) /\ d \notin ListOf(s) \ ListOf(s)'
      BY DEF Listed
    <3>1. ListOf(s)' \subseteq ListOf(s)
      BY DEF Reset
    <3> QED
      BY <1>1, <3>1 DEF Listed, ListInv
  <2>3. /\ eng'[d].ref = IF d \in ListOf(s) \ ListOf(s)' THEN eng[d].ref - 1 ELSE eng[d].ref
        /\ eng'[d].mem = IF d \in ListOf(s) \ ListOf(s)' /\ eng[d].ref = 1 THEN "freed"
                         ELSE eng[d].mem
    BY DEF Reset, Dropped
  <2>4. CASE d \notin ListOf(s) \ ListOf(s)'
    BY <2>1, <2>2, <2>3, <2>4, FewerUses
  <2>5. CASE d \in ListOf(s) \ ListOf(s)'
    <3>1. eng[d] \in EngineRecord
      BY DEF Handles
    <3>2. eng[d].ref \in Int
      BY <3>1 DEF EngineRecord
    <3>3. Listed(d) /\ ~Listed(d)' /\ Held(d)
      BY <2>2, <2>5, HeldEngines DEF Listed
    <3>4. eng[d].mem = "live" /\ One(Listed(d)) = 1 /\ One(Listed(d)') = 0
      BY <3>3 DEF Held, One
    <3>5. eng[d].ref >= 1 + One(HasEngine("stap", d)) + One(HasEngine("task", d))
      BY <3>3, <3>4 DEF Held
    <3>6. /\ One(HasEngine("stap", d)') <= One(HasEngine("stap", d))
          /\ One(HasEngine("stap", d)') \in Int /\ One(HasEngine("stap", d)) \in Nat
          /\ One(HasEngine("task", d)') <= One(HasEngine("task", d))
          /\ One(HasEngine("task", d)') \in Int /\ One(HasEngine("task", d)) \in Nat
      BY <2>1 DEF One
    <3>7. /\ eng'[d].ref = eng[d].ref - 1 /\ eng'[d].mem # "unused"
          /\ eng'[d].ref >= One(HasEngine("stap", d)') + One(HasEngine("task", d)')
          /\ eng'[d].ref >= 0
      BY <2>3, <2>5, <3>2, <3>4, <3>5, <3>6
    <3>8. eng'[d].ref >= One(Listed(d)') + One(HasEngine("stap", d)') + One(HasEngine("task", d)')
      BY <3>2, <3>4, <3>6, <3>7
    <3> QED
      BY <3>3, <3>7, <3>8 DEF Held, One
  <2> QED
    BY <2>4, <2>5
<1> QED
  BY <1>2, <1>3, HeldEngines

(* The attaching engines move to the attached list.                         *)
LEMMA SpliceKept ==
    ASSUME Handles, ListInv, EngineInv, NoGain, NEW s \in Structs, Spliced(s),
           UNCHANGED <<table, eng>>
    PROVE  ListInv' /\ EngineInv'
<1>1. SameLists /\ SameEngines
  BY DEF SameLists, SameEngines, Spliced
<1>2. ListInv'
  BY <1>1 DEF ListInv, SameLists, Spliced, SameRefs
<1> QED
  BY <1>1, <1>2, EngineKept, ListsKept

(* Events are added to the flags of a struct.                               *)
LEMMA EventsKept ==
    ASSUME Handles, ListInv, EngineInv, NoGain, NEW p, NEW s \in Structs, EventsSet(p, s),
           UNCHANGED table
    PROVE  ListInv' /\ EngineInv'
<1>1. SameLists /\ SameEngines
  BY DEF SameLists, ListOf, EventsSet
<1>2. \A t \in Structs : u'[t].mem = u[t].mem /\ u'[t].ref = u[t].ref /\ u[t].flags \subseteq u'[t].flags
  BY DEF EventsSet, SameRefs
<1>3. \A t \in Structs : u[t].flags # {} => u'[t].flags # {}
  BY <1>2
<1>4. ListInv'
  BY <1>1, <1>2, <1>3 DEF ListInv, SameLists
<1> QED
  BY <1>1, <1>4, EngineKept, ListsKept

(* The other process of a step in a call.                                   *)
LEMMA OthersStay ==
    ASSUME Places, NEW p \in Procs, NEW l, Goto(p, l),
           UNCHANGED at \/ \E c : NewCall(p, c)
    PROVE  pc'[p] = l /\ \A q \in Procs : q # p => pc'[q] = pc[q] /\ at'[q] = at[q]
BY DEF Places, Goto, NewCall

(* The steps of __stp_utrace_attach() keep lists and engine counts.         *)
LEMMA AttachLists ==
    ASSUME TypeInv, UseInv, ListInv, EngineInv, PlaceInv, ~Oops, NEW p \in Procs, AttachStep(p)
    PROVE  ListInv' /\ EngineInv'
<1>0. Calls /\ Objects /\ Handles /\ table \in Seq(Structs) /\ Places
  BY DEF TypeInv, MemoryTypes, SimpleTypes
<1>u. pc[p] \in UsesStruct => at[p].s \in Structs /\ u[at[p].s].mem = "live"
  BY <1>0, UsedLive
<1>e. WithEngine(p) => at[p].e \in Engines
  BY UseParts DEF UseBy
<1>g. NoGain \/ utrace_add_engine(p)
  BY AttachUses
<1>n. pc[p] # "att_eng" => NoGain
  BY <1>g DEF utrace_add_engine
<1>c. ASSUME NEW s \in Structs, u[s].mem = "live", NEW d, Counts(s, d)
      PROVE  \A t \in Structs : u[t].mem # "live" => u'[t].ref = u[t].ref
  BY <1>c DEF Counts
<1>t. ASSUME NEW found, NEW none, NEW rc \in ReturnCodes, GetStruct(p, found, none, rc), NoGain
      PROVE  ListInv' /\ EngineInv'
  <2>1. UNCHANGED <<table, eng>>
    BY <1>t DEF GetStruct
  <2>2. PICK c : /\ Unmoved
                 /\ \/ UNCHANGED u
                    \/ c.s \in Structs /\ table # <<>> /\ c.s = Head(table) /\ Counts(c.s, 1)
    BY <1>0, <1>t, GetEffect
  <2>3. \A t \in Structs : u[t].mem # "live" => u'[t].ref = u[t].ref
    <3>1. CASE UNCHANGED u
      BY <3>1
    <3>2. CASE c.s \in Structs /\ table # <<>> /\ c.s = Head(table) /\ Counts(c.s, 1)
      <4>1. c.s \in ToSet(table)
        BY <1>0, <3>2, ToSetIs
      <4>2. u[c.s].mem = "live"
        BY <3>2, <4>1 DEF ListInv
      <4> QED
        BY <1>c, <3>2, <4>2
    <3> QED
      BY <2>2, <3>1, <3>2
  <2> QED
    BY <1>0, <1>t, <2>1, <2>2, <2>3, CountsKept
<1>s. ASSUME UNCHANGED <<table, eng, u>>, NoGain PROVE ListInv' /\ EngineInv'
  BY <1>0, <1>s, MemEffects, CountsKept
<1>r. {"0", "ESRCH"} \subseteq ReturnCodes
  BY DEF ReturnCodes
<1>1. ASSUME PutStruct(p) PROVE ListInv' /\ EngineInv'
  <2>1. pc[p] = "put" /\ UNCHANGED <<table, eng>>
    BY <1>1 DEF PutStruct
  <2>2. at[p].s \in Structs /\ u[at[p].s].mem = "live" /\ NoGain
    BY <1>u, <1>n, <2>1 DEF UsesStruct
  <2>3. Unmoved /\ Counts(at[p].s, -1)
    BY <1>0, <1>1, <2>2, PutEffect
  <2> QED
    BY <1>0, <1>c, <2>1, <2>2, <2>3, CountsKept
<1>2. ASSUME utrace_cleanup(p) PROVE ListInv' /\ EngineInv'
  <2>1. pc[p] = "cleanup" /\ FreeStructs({at[p].s})
    BY <1>2 DEF utrace_cleanup
  <2>2. at[p].s \in Structs /\ NoGain
    BY <1>u, <1>n, <2>1 DEF UsesStruct
  <2>3. Freed({at[p].s}) /\ {at[p].s} \in SUBSET Structs
    BY <1>0, <2>1, <2>2, FreeEffect
  <2> QED
    BY <1>0, <2>2, <2>3, FreedKept
<1>3. ASSUME AttachGet(p) PROVE ListInv' /\ EngineInv'
  BY <1>3, <1>t, <1>n, <1>r DEF AttachGet
<1>4. ASSUME utrace_task_alloc(p) PROVE ListInv' /\ EngineInv'
  <2>1. pc[p] = "att_alloc" /\ UNCHANGED eng
    BY <1>4 DEF utrace_task_alloc
  <2>2. NoGain
    BY <1>n, <2>1
  <2>3. (\E s \in Structs : Made(p, s)) \/ UNCHANGED <<u, table>>
    BY <1>0, <1>4, AllocEffect
  <2> QED
    BY <1>0, <1>s, <2>1, <2>2, <2>3, MadeKept
<1>5. ASSUME utrace_add_engine(p) PROVE ListInv' /\ EngineInv'
  <2>1. pc[p] = "att_eng" /\ UNCHANGED table
    BY <1>5 DEF utrace_add_engine
  <2>2. PICK s \in Structs : at[p].s = s /\ u[s].mem = "live"
    BY <1>u, <2>1 DEF UsesStruct
  <2>3. \/ \E e \in Engines :
             /\ Queued(p, s, e) /\ Goto(p, IF at[p].found THEN "put" ELSE "ev_get")
        \/ /\ UNCHANGED <<u, eng>> /\ Goto(p, "put")
           /\ \E c : NewCall(p, c) /\ SameCall(p, c) /\ c.e = at[p].e /\ c.k = "att_fail"
    BY <1>0, <1>5, <2>2, AddEffect
  <2>4. ASSUME NEW e \in Engines, Queued(p, s, e), NEW l, Goto(p, l) PROVE ListInv' /\ EngineInv'
    <3>1. \A q \in Procs : q # p => pc'[q] = pc[q] /\ at'[q] = at[q]
      BY <1>0, <2>4, OthersStay DEF Queued
    <3> QED
      BY <1>0, <2>1, <2>2, <2>4, <3>1, QueuedKept
  <2>5. CASE /\ UNCHANGED <<u, eng>> /\ Goto(p, "put")
             /\ \E c : NewCall(p, c) /\ SameCall(p, c) /\ c.e = at[p].e /\ c.k = "att_fail"
    <3>1. PICK c : NewCall(p, c) /\ c.k = "att_fail"
      BY <2>5
    <3>2. pc'[p] = "put" /\ at'[p].k = "att_fail"
          /\ \A q \in Procs : q # p => pc'[q] = pc[q] /\ at'[q] = at[q]
      BY <1>0, <2>5, <3>1, OthersStay DEF NewCall
    <3>3. \A e \in Engines : HasEngine(p, e)' => HasEngine(p, e)
      BY <3>2 DEF HasEngine, WithEngine, UsesEngine
    <3>4. NoGain
      BY <3>2, <3>3, Gains
    <3> QED
      BY <1>s, <2>1, <2>5, <3>4
  <2> QED
    BY <2>3, <2>4, <2>5
<1>6. ASSUME AttachFailed(p) PROVE ListInv' /\ EngineInv'
  BY <1>6, <1>s, <1>n DEF AttachFailed
<1>7. ASSUME SetEventsGet(p) PROVE ListInv' /\ EngineInv'
  BY <1>7, <1>t, <1>n, <1>r DEF SetEventsGet
<1>8. ASSUME utrace_set_events(p) PROVE ListInv' /\ EngineInv'
  <2>1. pc[p] = "ev_set" /\ UNCHANGED table
    BY <1>8 DEF utrace_set_events
  <2>2. at[p].e \in Engines /\ NoGain
    BY <1>e, <1>n, <2>1 DEF WithEngine, UsesEngine
  <2>3. PICK s \in Structs : at[p].s = s
    BY <1>u, <2>1 DEF UsesStruct
  <2>4. UNCHANGED <<u, eng>> \/ EventsSet(p, s)
    BY <1>0, <1>8, <2>2, <2>3, SetEventsEffect
  <2> QED
    BY <1>0, <1>s, <2>1, <2>2, <2>4, EventsKept
<1>9. ASSUME ControlGet(p) PROVE ListInv' /\ EngineInv'
  BY <1>9, <1>t, <1>n, <1>r DEF ControlGet
<1>10. ASSUME utrace_control(p) PROVE ListInv' /\ EngineInv'
  <2>1. pc[p] = "ctl_lock" /\ UNCHANGED <<table, eng>>
    BY <1>10 DEF utrace_control
  <2>2. PICK s \in Structs : at[p].s = s /\ u[s].mem = "live"
    BY <1>u, <2>1 DEF UsesStruct
  <2>3. UNCHANGED u \/ (Unmoved /\ SameRefs) \/ (Unmoved /\ Counts(s, 1))
    BY <1>0, <1>10, <2>2, ControlEffect DEF Notified
  <2>4. Unmoved /\ \A t \in Structs : u[t].mem # "live" => u'[t].ref = u[t].ref
    BY <1>c, <2>2, <2>3, MemEffects DEF SameRefs
  <2> QED
    BY <1>0, <1>n, <2>1, <2>4, CountsKept
<1>11. ASSUME stp_task_work_get(p) PROVE ListInv' /\ EngineInv'
  BY <1>11, <1>s, <1>n DEF stp_task_work_get
<1>12. ASSUME EnginePut(p) PROVE ListInv' /\ EngineInv'
  <2>1. pc[p] = "eng_put" /\ UNCHANGED <<table, u>>
    BY <1>12 DEF EnginePut
  <2>2. PICK e \in Engines : at[p].e = e
    BY <1>e, <2>1 DEF WithEngine, UsesEngine
  <2>3. Calling(p) /\ at[p].act # "NONE"
    BY <2>1, UseParts DEF Calling, CallLabels, PutLabels, QuiesceUse, PlaceInv, StapPlace, Procs
  <2>4. HasEngine(p, e)
    BY <2>1, <2>2, <2>3 DEF HasEngine, WithEngine, UsesEngine
  <2>5. at[p].ret \in {"s_finder", "s_target", "running", "q_add", "x_out", "cl_match", "cl_end"}
    BY <2>3 DEF PlaceInv, StapPlace, TaskPlace, Procs
  <2>6. \/ UNCHANGED eng
        \/ /\ eng[e].mem # "freed" /\ Dropped({e}) /\ Goto(p, at[p].ret)
           /\ \E c : NewCall(p, c)
    BY <1>0, <1>12, <2>2, EnginePutEffect
  <2>7. CASE UNCHANGED eng
    BY <1>s, <1>n, <2>1, <2>7
  <2>8. CASE /\ eng[e].mem # "freed" /\ Dropped({e}) /\ Goto(p, at[p].ret)
             /\ \E c : NewCall(p, c)
    <3>1. pc'[p] = at[p].ret /\ \A q \in Procs : q # p => pc'[q] = pc[q] /\ at'[q] = at[q]
      BY <1>0, <2>8, OthersStay
    <3>2. \A d \in Engines : ~HasEngine(p, d)'
      BY <2>5, <3>1 DEF HasEngine, WithEngine, UsesEngine, PutLabels
    <3> QED
      BY <1>0, <2>1, <2>4, <2>8, <3>1, <3>2, PutKept
  <2> QED
    BY <2>6, <2>7, <2>8
<1> QED
  BY <1>1, <1>2, <1>3, <1>4, <1>5, <1>6, <1>7, <1>8, <1>9, <1>10, <1>11, <1>12, Zenon DEF AttachStep

(* find_matching_engine() leaves with a reference on an engine of the list.  *)
LEMMA FindKept ==
    ASSUME Handles, Objects, ListInv, EngineInv, NEW s \in Structs, NEW e \in ListOf(s),
           e \in Engines, UNCHANGED <<table, u>>, pc["stap"] = "post_find",
           \A d \in Engines : /\ eng'[d].mem = eng[d].mem
                              /\ eng'[d].ref = IF d = e THEN eng[d].ref + 1 ELSE eng[d].ref,
           at'["stap"].e = e, pc'["task"] = pc["task"], at'["task"] = at["task"]
    PROVE  ListInv' /\ EngineInv'
<1>0. Unmoved /\ \A t \in Structs : u'[t].ref = u[t].ref
  BY DEF Unmoved
<1>1. ListInv' /\ SameLists
  BY <1>0, ListKept
<1>2. ASSUME NEW d \in Engines PROVE Held(d)'
  <2>1. /\ HasEngine("task", d)' => HasEngine("task", d)
        /\ ~HasEngine("stap", d)
        /\ HasEngine("stap", d)' => d = e
        /\ Listed(d)' => Listed(d)
    BY <1>1, ListsKept DEF HasEngine, WithEngine, UsesEngine, PutLabels
  <2>2. CASE d # e
    BY <2>1, <2>2, FewerUses
  <2>3. CASE d = e
    <3>1. eng[d] \in EngineRecord
      BY DEF Handles
    <3>2. eng[d].ref \in Int
      BY <3>1 DEF EngineRecord
    <3>3. Listed(d) /\ Held(d)
      BY <2>3, HeldEngines DEF Listed
    <3>4. eng[d].mem = "live" /\ eng'[d].mem = "live" /\ eng'[d].ref = eng[d].ref + 1
      BY <2>3, <3>3 DEF Held
    <3>5. eng[d].ref >= 1 + One(HasEngine("task", d))
      BY <2>1, <3>2, <3>3, <3>4 DEF Held, One
    <3>6. /\ One(HasEngine("task", d)') <= One(HasEngine("task", d))
          /\ One(HasEngine("task", d)') \in Nat /\ One(HasEngine("task", d)) \in Nat
          /\ One(HasEngine("stap", d)') <= 1 /\ One(HasEngine("stap", d)') \in Nat
          /\ One(Listed(d)') <= 1 /\ One(Listed(d)') \in Nat
      BY <2>1 DEF One
    <3>7. /\ eng'[d].ref >= 0
          /\ eng'[d].ref >= One(Listed(d)') + One(HasEngine("stap", d)') + One(HasEngine("task", d)')
      BY <3>2, <3>4, <3>5, <3>6
    <3> QED
      BY <3>4, <3>7 DEF Held, One
  <2> QED
    BY <2>2, <2>3
<1> QED
  BY <1>1, <1>2, HeldEngines

(* The other steps of the stap thread keep them.                            *)
LEMMA StapLists ==
    ASSUME TypeInv, UseInv, ListInv, EngineInv, PlaceInv, ~Oops, StapStep
    PROVE  ListInv' /\ EngineInv'
<1>0. Calls /\ Objects /\ Handles /\ table \in Seq(Structs) /\ Places /\ "stap" \in Procs
  BY DEF TypeInv, MemoryTypes, SimpleTypes, Procs
<1>g. pc["stap"] # "post_find" => NoGain
  <2>1. NoGain \/ find_matching_engine
    BY StapUses
  <2> QED
    BY <2>1 DEF find_matching_engine
<1>s. ASSUME UNCHANGED <<table, eng, u>>, NoGain PROVE ListInv' /\ EngineInv'
  BY <1>0, <1>s, MemEffects, CountsKept
<1>1. ASSUME StartFinder PROVE ListInv' /\ EngineInv'
  BY <1>1, <1>s, <1>g DEF StartFinder
<1>2. ASSUME StartTarget PROVE ListInv' /\ EngineInv'
  BY <1>2, <1>s, <1>g DEF StartTarget
<1>3. ASSUME StartDone PROVE ListInv' /\ EngineInv'
  BY <1>3, <1>s, <1>g DEF StartDone
<1>4. ASSUME PostGet PROVE ListInv' /\ EngineInv'
  <2>1. NoGain /\ UNCHANGED <<table, eng>>
    BY <1>4, <1>g DEF PostGet, GetStruct
  <2>2. CASE UNCHANGED u
    BY <1>s, <2>1, <2>2
  <2>3. CASE GetStruct("stap", "post_find", "running", "0")
    <3>1. "0" \in ReturnCodes
      BY DEF ReturnCodes
    <3>2. PICK c : /\ Unmoved
                   /\ \/ UNCHANGED u
                      \/ c.s \in Structs /\ table # <<>> /\ c.s = Head(table) /\ Counts(c.s, 1)
      BY <1>0, <2>3, <3>1, GetEffect
    <3>3. CASE c.s \in Structs /\ table # <<>> /\ c.s = Head(table) /\ Counts(c.s, 1)
      <4>1. c.s \in ToSet(table)
        BY <1>0, <3>3, ToSetIs
      <4>2. u[c.s].mem = "live"
        BY <3>3, <4>1 DEF ListInv
      <4>3. \A t \in Structs : u[t].mem # "live" => u'[t].ref = u[t].ref
        BY <3>3, <4>2 DEF Counts
      <4> QED
        BY <1>0, <2>1, <3>2, <4>3, CountsKept
    <3> QED
      BY <2>2, <3>2, <3>3
  <2> QED
    BY <1>4, <2>2, <2>3 DEF PostGet
<1>5. ASSUME find_matching_engine PROVE ListInv' /\ EngineInv'
  <2>1. pc["stap"] = "post_find" /\ UNCHANGED <<table, u>> /\ Goto("stap", "put")
    BY <1>5 DEF find_matching_engine
  <2>2. PICK s \in Structs : at["stap"].s = s
    BY <1>0, <2>1, UsedLive DEF UsesStruct
  <2>3. \/ UNCHANGED eng /\ \E c : NewCall("stap", c) /\ c.k = "running"
        \/ \E e \in ListOf(s) :
           /\ e \in Engines
           /\ \A d \in Engines : /\ eng'[d].mem = eng[d].mem
                                 /\ eng'[d].ref = IF d = e THEN eng[d].ref + 1 ELSE eng[d].ref
           /\ \E c : NewCall("stap", c) /\ c.e = e
    BY <1>0, <1>5, <2>2, FindEffect
  <2>4. CASE UNCHANGED eng /\ \E c : NewCall("stap", c) /\ c.k = "running"
    <3>1. PICK c : NewCall("stap", c) /\ c.k = "running"
      BY <2>4
    <3>2. pc'["stap"] = "put" /\ at'["stap"].k = "running"
          /\ \A q \in Procs : q # "stap" => pc'[q] = pc[q] /\ at'[q] = at[q]
      BY <1>0, <2>1, <3>1, OthersStay DEF NewCall
    <3>3. \A e \in Engines : HasEngine("stap", e)' => HasEngine("stap", e)
      BY <3>2 DEF HasEngine, WithEngine, UsesEngine
    <3>4. NoGain
      BY <1>0, <3>2, <3>3, Gains
    <3> QED
      BY <1>s, <2>1, <2>4, <3>4
  <2>5. ASSUME NEW e \in ListOf(s), e \in Engines,
               \A d \in Engines : /\ eng'[d].mem = eng[d].mem
                                  /\ eng'[d].ref = IF d = e THEN eng[d].ref + 1 ELSE eng[d].ref,
               NEW c, NewCall("stap", c), c.e = e
        PROVE  ListInv' /\ EngineInv'
    <3>1. at'["stap"] = c /\ at'["task"] = at["task"] /\ pc'["task"] = pc["task"]
      BY <1>0, <2>1, <2>5, OthersStay DEF NewCall, Procs
    <3> QED
      BY <1>0, <2>1, <2>5, <3>1, FindKept
  <2> QED
    BY <2>3, <2>4, <2>5
<1>6. ASSUME Stop PROVE ListInv' /\ EngineInv'
  BY <1>6, <1>s, <1>g DEF Stop
<1>7. ASSUME CloseFinder PROVE ListInv' /\ EngineInv'
  BY <1>7, <1>s, <1>g DEF CloseFinder
<1>8. ASSUME utrace_shutdown PROVE ListInv' /\ EngineInv'
  BY <1>8, <1>s, <1>g DEF utrace_shutdown
<1>9. ASSUME Synchronize PROVE ListInv' /\ EngineInv'
  BY <1>9, <1>s, <1>g DEF Synchronize
<1>10. ASSUME CancelUtraceWork PROVE ListInv' /\ EngineInv'
  BY <1>10, <1>s, <1>g DEF CancelUtraceWork
<1>11. ASSUME WaitInuse PROVE ListInv' /\ EngineInv'
  BY <1>11, <1>s, <1>g DEF WaitInuse
<1>12. ASSUME CancelTfWork PROVE ListInv' /\ EngineInv'
  BY <1>12, <1>s, <1>g DEF CancelTfWork
<1>13. ASSUME stp_task_work_exit PROVE ListInv' /\ EngineInv'
  BY <1>13, <1>s, <1>g DEF stp_task_work_exit
<1>14. ASSUME utrace_exit PROVE ListInv' /\ EngineInv'
  <2> DEFINE S == {s \in ToSet(table) : u[s].ref > 0}
  <2>1. S \in SUBSET Structs
    BY <1>0, ToSetIs
  <2>2. FreeStructs(S) /\ NoGain
    BY <1>14, <1>g DEF utrace_exit
  <2> HIDE DEF S
  <2>3. Freed(S)
    BY <1>0, <2>1, <2>2, FreeEffect
  <2> QED
    BY <1>0, <2>1, <2>2, <2>3, FreedKept
<1> QED
  BY <1>1, <1>2, <1>3, <1>4, <1>5, <1>6, <1>7, <1>8, <1>9, <1>10, <1>11, <1>12, <1>13, <1>14, Zenon
     DEF StapStep

(* The tracepoint probes keep them.                                         *)
LEMMA ProbeLists ==
    ASSUME TypeInv, UseInv, ListInv, EngineInv, PlaceInv, ~Oops, ProbeStep
    PROVE  ListInv' /\ EngineInv'
<1>0. /\ Calls /\ Objects /\ Handles /\ table \in Seq(Structs) /\ rep \in ReportRecord
  BY DEF TypeInv, MemoryTypes, SimpleTypes
<1>g. NoGain
  BY ProbeUses
<1>s. ASSUME UNCHANGED <<table, eng, u>> PROVE ListInv' /\ EngineInv'
  BY <1>0, <1>g, <1>s, MemEffects, CountsKept
<1>1. ASSUME Exec PROVE ListInv' /\ EngineInv'
  BY <1>1, <1>s DEF Exec, others
<1>2. ASSUME Exit PROVE ListInv' /\ EngineInv'
  BY <1>2, <1>s DEF Exit, others
<1>3. ASSUME TracepointGet PROVE ListInv' /\ EngineInv'
  <2>1. UNCHANGED <<table, eng>>
    BY <1>3, Zenon DEF TracepointGet, others
  <2>2. \/ UNCHANGED u
        \/ \E s \in Structs : table # <<>> /\ s = Head(table) /\ Unmoved /\ Counts(s, 1)
    BY <1>0, <1>3, TracepointEffect
  <2>3. ASSUME NEW s \in Structs, table # <<>>, s = Head(table), Unmoved, Counts(s, 1)
        PROVE  ListInv' /\ EngineInv'
    <3>1. s \in ToSet(table)
      BY <1>0, <2>3, ToSetIs
    <3>2. u[s].mem = "live"
      BY <3>1 DEF ListInv
    <3>3. \A t \in Structs : u[t].mem # "live" => u'[t].ref = u[t].ref
      BY <2>3, <3>2 DEF Counts
    <3> QED
      BY <1>0, <1>g, <2>1, <2>3, <3>3, CountsKept
  <2> QED
    BY <1>s, <2>1, <2>2, <2>3
<1>4. ASSUME DeathCount PROVE ListInv' /\ EngineInv'
  BY <1>4, <1>s DEF DeathCount, others
<1>5. ASSUME TracepointReturn PROVE ListInv' /\ EngineInv'
  BY <1>5, <1>s DEF TracepointReturn, others
<1> QED
  BY <1>1, <1>2, <1>3, <1>4, <1>5, Zenon DEF ProbeStep

(* The steps of a reporting pass keep them.                                 *)
LEMMA PassLists ==
    ASSUME TypeInv, UseInv, ListInv, EngineInv, PlaceInv, ~Oops, PassStep
    PROVE  ListInv' /\ EngineInv'
<1>0. /\ Calls /\ Objects /\ Handles /\ table \in Seq(Structs)
  BY DEF TypeInv, MemoryTypes
<1>g. NoGain
  BY PassUses
<1>r. pc["task"] \in UsesReport => rep.s \in Structs /\ u[rep.s].mem = "live"
  BY <1>0, ReportedLive
<1>s. ASSUME UNCHANGED <<table, eng, u>> PROVE ListInv' /\ EngineInv'
  BY <1>0, <1>g, <1>s, MemEffects, CountsKept
<1>p. ASSUME NEW s \in Structs, Spliced(s), UNCHANGED <<table, eng>> PROVE ListInv' /\ EngineInv'
  BY <1>0, <1>g, <1>p, SpliceKept
<1>d. ASSUME DetachCurrent, pc["task"] \in {"cb_q", "cb_ev", "end_cb"}, UNCHANGED <<table, u>>
      PROVE  ListInv' /\ EngineInv'
  <2>1. SameEngines
    BY <1>0, <1>d, DetachTypes
  <2>2. Unmoved /\ \A t \in Structs : u'[t].ref = u[t].ref
    BY <1>d DEF Unmoved
  <2>3. ListInv' /\ SameLists
    BY <1>d, <2>2, ListKept
  <2> QED
    BY <1>0, <1>g, <2>1, <2>3, EngineKept, ListsKept
<1>e. ASSUME utrace_reset(rep.s), pc["task"] \in UsesReport, UNCHANGED table
      PROVE  ListInv' /\ EngineInv'
  <2>1. Reset(rep.s)
    BY <1>0, <1>r, <1>e, ResetEffect
  <2> QED
    BY <1>0, <1>g, <1>r, <1>e, <2>1, ResetKept
<1>1. ASSUME start_report PROVE ListInv' /\ EngineInv'
  <2>1. /\ pc["task"] = "rep_start" /\ UNCHANGED <<table, eng>>
        /\ \/ u' = [u EXCEPT ![rep.s] = [splice_attaching(u[rep.s]) EXCEPT !.resume = "RESUME"]]
           \/ UNCHANGED u
    <3>1. pc["task"] = "rep_start" /\ UNCHANGED <<table, eng>>
      BY <1>1, Zenon DEF start_report, others
    <3>2. rep.s \in Structs
      BY <1>r, <3>1 DEF UsesReport
    <3> QED
      BY <1>0, <1>1, <3>1, <3>2 DEF start_report, Objects
  <2>2. rep.s \in Structs
    BY <1>r, <2>1 DEF UsesReport
  <2>3. CASE u' = [u EXCEPT ![rep.s] = [splice_attaching(u[rep.s]) EXCEPT !.resume = "RESUME"]]
    <3>1. Spliced(rep.s)
      BY <1>0, <2>2, <2>3, ResumeSpliceEffect
    <3> QED
      BY <1>p, <2>1, <2>2, <3>1
  <2> QED
    BY <1>s, <2>1, <2>3
<1>2. ASSUME StartDeathReport PROVE ListInv' /\ EngineInv'
  <2>1. pc["task"] = "rw_lock" /\ UNCHANGED <<table, eng>>
    BY <1>2 DEF StartDeathReport, others
  <2>2. rep.s \in Structs
    BY <1>r, <2>1 DEF UsesReport
  <2>3. u' = [u EXCEPT ![rep.s] = [splice_attaching(u[rep.s]) EXCEPT !.death = TRUE,
                                                                     !.resume = "RESUME"]]
    BY <1>0, <1>2, <2>2 DEF StartDeathReport, Objects
  <2>4. TRUE \in BOOLEAN /\ "RESUME" \in {"RESUME", "INTERRUPT"}
    OBVIOUS
  <2>5. Spliced(rep.s)
    BY <1>0, <2>2, <2>3, <2>4, SpliceEffect, Zenon
  <2> QED
    BY <1>p, <2>1, <2>2, <2>5
<1>3. ASSUME start_callback PROVE ListInv' /\ EngineInv'
  BY <1>3, <1>s DEF start_callback, others
<1>4. ASSUME QuiesceCheck PROVE ListInv' /\ EngineInv'
  BY <1>4, <1>s, <1>d DEF QuiesceCheck, others
<1>5. ASSUME QuiesceEnter PROVE ListInv' /\ EngineInv'
  BY <1>5, <1>s, Zenon DEF QuiesceEnter, others
<1>6. ASSUME QuiesceAdd PROVE ListInv' /\ EngineInv'
  BY <1>6, <1>s DEF QuiesceAdd
<1>7. ASSUME QuiesceCount PROVE ListInv' /\ EngineInv'
  BY <1>7, <1>s DEF QuiesceCount, others
<1>8. ASSUME AfterQuiesce PROVE ListInv' /\ EngineInv'
  BY <1>8, <1>s, Zenon DEF AfterQuiesce, others
<1>9. ASSUME EventCheck PROVE ListInv' /\ EngineInv'
  BY <1>9, <1>s, <1>d DEF EventCheck, others
<1>10. ASSUME EventEnter PROVE ListInv' /\ EngineInv'
  BY <1>10, <1>s DEF EventEnter, others
<1>11. ASSUME ExecMatched PROVE ListInv' /\ EngineInv'
  BY <1>11, <1>s DEF ExecMatched, others
<1>12. ASSUME TargetEnd PROVE ListInv' /\ EngineInv'
  BY <1>12, <1>d DEF TargetEnd, others
<1>13. ASSUME finish_report PROVE ListInv' /\ EngineInv'
  <2>1. /\ pc["task"] = "fin" /\ UNCHANGED table
        /\ utrace_reset(rep.s) \/ UNCHANGED <<u, eng>>
    BY <1>13, Zenon DEF finish_report, others
  <2> QED
    BY <1>s, <1>e, <2>1 DEF UsesReport
<1>14. ASSUME InterruptAgain PROVE ListInv' /\ EngineInv'
  <2>1. pc["task"] = "fin" /\ UNCHANGED table /\ utrace_reset(rep.s)
    BY <1>14, Zenon DEF InterruptAgain, others
  <2> QED
    BY <1>e, <2>1 DEF UsesReport
<1>15. ASSUME NotifyAgain PROVE ListInv' /\ EngineInv'
  <2>1. pc["task"] = "notify" /\ UNCHANGED <<table, eng>>
    BY <1>15, Zenon DEF NotifyAgain, others
  <2>2. rep.s \in Structs /\ u[rep.s].mem = "live"
    BY <1>r, <2>1 DEF UsesReport
  <2>3. CASE u[rep.s].resumeAdded
    BY <1>15, <1>s, <2>1, <2>3 DEF NotifyAgain
  <2>4. CASE ~u[rep.s].resumeAdded
    <3>1. /\ u' = [u EXCEPT ![rep.s] = stp_task_notify_resume(u[rep.s])]
          /\ works' = works \cup {Resume(rep.s)}
      BY <1>0, <1>15, <2>2, <2>4 DEF NotifyAgain, Objects
    <3>2. u[rep.s] \in StructRecord
      BY <1>0, <2>2 DEF Objects
    <3>3. Notified(rep.s)
      BY <1>0, <2>2, <2>4, <3>1, <3>2, NotifyEffect
    <3>4. Unmoved /\ \A t \in Structs : u[t].mem # "live" => u'[t].ref = u[t].ref
      BY <2>2, <3>3 DEF Notified, Counts
    <3> QED
      BY <1>0, <1>g, <2>1, <3>4, CountsKept
  <2> QED
    BY <2>3, <2>4
<1>16. ASSUME NotifyCount PROVE ListInv' /\ EngineInv'
  BY <1>16, <1>s DEF NotifyCount, others
<1>17. ASSUME utrace_maybe_reap PROVE ListInv' /\ EngineInv'
  <2>1. pc["task"] = "reap" /\ UNCHANGED table /\ utrace_reset(rep.s)
    BY <1>17, Zenon DEF utrace_maybe_reap, others
  <2> QED
    BY <1>e, <2>1 DEF UsesReport
<1>18. ASSUME SecondPut PROVE ListInv' /\ EngineInv'
  BY <1>18, <1>s DEF SecondPut, others
<1> QED
  BY <1>1, <1>2, <1>3, <1>4, <1>5, <1>6, <1>7, <1>8, <1>9, <1>10, <1>11, <1>12, <1>13, <1>14,
     <1>15, <1>16, <1>17, <1>18, Zenon DEF PassStep

(* The task works keep them.                                                *)
LEMMA WorkLists ==
    ASSUME TypeInv, UseInv, ListInv, EngineInv, PlaceInv, ~Oops, WorkStep
    PROVE  ListInv' /\ EngineInv'
<1>0. /\ Calls /\ Objects /\ Handles /\ taken \in SUBSET Works
  BY DEF TypeInv, MemoryTypes, SimpleTypes, WorkTypes
<1>g. NoGain
  BY WorkUses
<1>s. ASSUME UNCHANGED <<table, eng, u>> PROVE ListInv' /\ EngineInv'
  BY <1>0, <1>g, <1>s, MemEffects, CountsKept
<1>1. ASSUME TakeWorks PROVE ListInv' /\ EngineInv'
  BY <1>1, <1>s DEF TakeWorks, others
<1>2. ASSUME NEW w \in taken, RunWork(w) PROVE ListInv' /\ EngineInv'
  <2>1. UNCHANGED <<table, eng>>
    BY <1>2, Zenon DEF RunWork, others
  <2>2. Begins(w)
    BY <1>0, <1>2, RunEffect
  <2>3. Unmoved /\ \A t \in Structs : u[t].mem # "live" => u'[t].ref = u[t].ref
    BY <2>2 DEF Begins, SameRefs
  <2> QED
    BY <1>0, <1>g, <2>1, <2>3, CountsKept
<1>3. ASSUME WorksDone PROVE ListInv' /\ EngineInv'
  BY <1>3, <1>s DEF WorksDone, others
<1>4. ASSUME Die PROVE ListInv' /\ EngineInv'
  BY <1>4, <1>s DEF Die, others
<1>5. ASSUME TfDequeue PROVE ListInv' /\ EngineInv'
  BY <1>5, <1>s DEF TfDequeue
<1>6. ASSUME TfCheck PROVE ListInv' /\ EngineInv'
  BY <1>6, <1>s DEF TfCheck, others
<1>7. ASSUME TfEnter PROVE ListInv' /\ EngineInv'
  BY <1>7, <1>s DEF TfEnter, others
<1>8. ASSUME TfBegin PROVE ListInv' /\ EngineInv'
  BY <1>8, <1>s DEF TfBegin, others
<1>9. ASSUME CloneMatch PROVE ListInv' /\ EngineInv'
  BY <1>9, <1>s DEF CloneMatch, others
<1>10. ASSUME CloneDone PROVE ListInv' /\ EngineInv'
  BY <1>10, <1>s DEF CloneDone, others
<1>11. ASSUME stp_task_work_func_done PROVE ListInv' /\ EngineInv'
  BY <1>11, <1>s DEF stp_task_work_func_done, others
<1>12. ASSUME Wake PROVE ListInv' /\ EngineInv'
  BY <1>12, <1>s DEF Wake, others
<1> QED
  BY <1>1, <1>2, <1>3, <1>4, <1>5, <1>6, <1>7, <1>8, <1>9, <1>10, <1>11, <1>12, Zenon DEF WorkStep

-----------------------------------------------------------------------------
(* The types of the state, and with them the lists and the references of the
   engines, whatever the processes do.                                      *)

EnginesInv == TypeInv /\ UseInv /\ ListInv /\ EngineInv

(* All of it holds before anything is allocated.                            *)
LEMMA InitEngines ==
    ASSUME Init
    PROVE  EnginesInv
<1>0. NStructs \in Nat /\ NEngines \in Nat /\ MaxTrouble \in Nat
  BY UtraceAssumption
<1>1. /\ pc = [p \in Procs |-> IF p = "stap" THEN "start" ELSE "user"]
      /\ at = [p \in Procs |-> NoCall] /\ rep = NoReport /\ table = <<>>
      /\ u = [s \in Structs |-> FreshStruct] /\ eng = [e \in Engines |-> FreshEngine]
      /\ taken = {}
      /\ tk = [mm |-> TRUE, exiting |-> FALSE, workExited |-> FALSE, exit |-> "none"]
  BY DEF Init
<1>2. pc["stap"] = "start" /\ pc["task"] = "user"
  BY <1>1 DEF Procs
<1>3. forked \in BOOLEAN /\ works \subseteq {TfWork(CloneId)} /\ tfs \in Seq({CloneId})
  <2>1. forked \in BOOLEAN
    <3>1. forked = FALSE \/ forked = (MaxTrouble > 0)
      BY Zenon DEF Init
    <3>2. (MaxTrouble > 0) \in BOOLEAN
      BY <1>0
    <3> QED
      BY <3>1, <3>2, Zenon
  <2>2. works = {TfWork(CloneId)} \/ works = {}
    BY Zenon DEF Init
  <2>3. tfs = <<CloneId>> \/ tfs = <<>>
    BY Zenon DEF Init
  <2>4. <<CloneId>> \in Seq({CloneId}) /\ <<>> \in Seq({CloneId})
    OBVIOUS
  <2> QED
    BY <2>1, <2>2, <2>3, <2>4
<1>4. SimpleTypes
  <2>1. Places
    BY <1>1, LabelNames DEF Places
  <2>2. WorkTypes
    <3>1. TfWork(CloneId) \in Works
      BY WorkDistinct
    <3>2. works \in SUBSET Works /\ taken \in SUBSET Works
      BY <1>1, <1>3, <3>1
    <3>3. tfs \in Seq(Engines \cup {CloneId})
      BY <1>3
    <3> QED
      BY <1>1, <3>2, <3>3 DEF WorkTypes
  <2>3. OtherTypes
    BY <1>3 DEF Init, OtherTypes, HistoryType
  <2>4. rep \in ReportRecord
    BY <1>1 DEF NoReport, ReportRecord
  <2> QED
    BY <2>1, <2>2, <2>3, <2>4 DEF SimpleTypes
<1>5. MemoryTypes
  <2>1. Calls
    BY <1>1, EmptyCall DEF Calls
  <2>2. Objects
    BY <1>1, FreshRecord DEF Objects
  <2>3. FreshEngine \in EngineRecord
    BY DEF FreshEngine, EngineRecord, OpsValues
  <2>4. Handles
    BY <1>1, <2>3 DEF Handles
  <2> QED
    BY <1>1, <2>1, <2>2, <2>4 DEF MemoryTypes
<1>6. UseInv
  <2>1. \A p \in Procs : UseBy(p)
    BY <1>2 DEF Procs, UseBy, UsesStruct, WithEngine, UsesEngine, PutLabels
  <2>2. PassUse /\ QuiesceUse
    BY <1>2 DEF PassUse, QuiesceUse, InPass, PutsReported, AtEngine, WithEngine, UsesEngine,
       UsesReport, PutLabels, PassPuts, Calling, CallLabels
  <2>3. WorksUse
    BY <1>1, <1>3, WorkDistinct DEF WorksUse
  <2> QED
    BY <2>1, <2>2, <2>3, UseParts
<1>7. \A s \in Structs : u[s] = FreshStruct /\ ListOf(s) = {}
  BY <1>1, FreshRecord, ToSetParts DEF ListOf
<1>8. ListInv
  <2>1. ToSet(table) = {}
    BY <1>1, ToSetParts
  <2> QED
    BY <1>7, <2>1, FreshRecord DEF ListInv
<1>9. EngineInv
  <2>1. \A e \in Engines : eng[e].mem = "unused" /\ eng[e].ref = 0
    BY <1>1 DEF FreshEngine
  <2>2. \A e \in Engines : ~HasEngine("stap", e) /\ ~HasEngine("task", e)
    BY <1>2 DEF HasEngine, WithEngine, UsesEngine, PutLabels
  <2>3. \A e \in Engines : ~Listed(e)
    BY <1>7 DEF Listed
  <2> QED
    BY <2>1, <2>2, <2>3 DEF EngineInv
<1> QED
  BY <1>4, <1>5, <1>6, <1>8, <1>9 DEF EnginesInv, TypeInv

(* A stuttering step keeps it.                                              *)
LEMMA StutterEngines ==
    ASSUME EnginesInv, UNCHANGED vars
    PROVE  EnginesInv'
<1>0. UNCHANGED <<tf, reg, inuse, tgtAttached, table, u, eng, cnt, works, taken, tk, tfs, pc, at,
                  rep, fails, forked, raced, early, execs, nbegin, nend>>
  BY DEF vars, finder, kernel, hist
<1>1. TypeInv'
  BY <1>0 DEF EnginesInv, TypeInv, SimpleTypes, MemoryTypes, Places, WorkTypes, OtherTypes,
     HistoryType, Calls, Objects, Handles
<1>2. UseInv'
  BY <1>0 DEF EnginesInv, UseInv, InPass, PutsReported, AtEngine, WithEngine, Calling
<1>3. ListInv'
  BY <1>0 DEF EnginesInv, ListInv, ListOf
<1>4. NoGain
  BY <1>0 DEF NoGain, HasEngine, WithEngine
<1>5. Handles /\ SameEngines /\ SameLists
  BY <1>0 DEF EnginesInv, TypeInv, MemoryTypes, SameEngines, SameLists, ListOf
<1>6. EngineInv'
  BY <1>4, <1>5, EngineKept, ListsKept DEF EnginesInv
<1> QED
  BY <1>1, <1>2, <1>3, <1>6 DEF EnginesInv

(* A step that changes anything is not taken in a state that is past help.   *)
LEMMA StepsRun ==
    ASSUME Next
    PROVE  \/ ~Oops /\ ((\E p \in Procs : AttachStep(p)) \/ StapStep \/ ProbeStep \/ PassStep
                        \/ WorkStep)
           \/ UNCHANGED vars
<1>1. CASE Oops
  BY <1>1 DEF Next, Over
<1>2. CASE ~Oops
  BY <1>2, NextSteps
<1> QED
  BY <1>1, <1>2

(* Every step keeps it.                                                     *)
LEMMA NextEngines ==
    ASSUME EnginesInv, PlaceInv, [Next]_vars
    PROVE  EnginesInv'
<1>0. TypeInv /\ UseInv /\ ListInv /\ EngineInv
  BY DEF EnginesInv
<1>1. CASE UNCHANGED vars
  BY <1>1, StutterEngines
<1>2. ASSUME ~Oops, NEW p \in Procs, AttachStep(p) PROVE EnginesInv'
  BY <1>0, <1>2, AttachSimple, AttachMemory, AttachUses, AttachLists DEF EnginesInv, TypeInv
<1>3. CASE ~Oops /\ StapStep
  BY <1>0, <1>3, StapSimple, StapMemory, StapUses, StapLists DEF EnginesInv, TypeInv
<1>4. CASE ~Oops /\ ProbeStep
  BY <1>0, <1>4, ProbeSimple, ProbeMemory, ProbeUses, ProbeLists DEF EnginesInv, TypeInv
<1>5. CASE ~Oops /\ PassStep
  BY <1>0, <1>5, PassSimple, PassMemory, PassUses, PassLists DEF EnginesInv, TypeInv
<1>6. CASE ~Oops /\ WorkStep
  BY <1>0, <1>6, WorkSimple, WorkMemory, WorkUses, WorkLists DEF EnginesInv, TypeInv
<1>7. \/ ~Oops /\ ((\E p \in Procs : AttachStep(p)) \/ StapStep \/ ProbeStep \/ PassStep
                        \/ WorkStep)
      \/ UNCHANGED vars
  BY StepsRun
<1> QED
  BY <1>1, <1>2, <1>3, <1>4, <1>5, <1>6, <1>7

(* The references on an engine, for any number of structs, engines, failures
   and execs: an engine on a list of a struct is in memory; one in memory has a
   reference for its list and one for each call that uses it; and every process
   uses a struct that was made and, in a pass, an engine of its list.        *)
THEOREM EnginesCounted == Spec => []EnginesInv
<1>1. Init => EnginesInv
  BY InitEngines
<1>2. EnginesInv /\ PlaceInv /\ [Next]_vars => EnginesInv'
  BY NextEngines
<1>3. QuietInv => PlaceInv
  BY DEF QuietInv
<1> QED
  BY <1>1, <1>2, <1>3, WorksAlwaysCounted, PTL DEF Spec

(* Every piece of state of the utrace layer keeps its type, and neither
   __stp_inuse_count nor the count of an engine is ever below zero.          *)
THEOREM UtraceTypes == Spec => []TypeOK
<1>1. EnginesInv /\ QuietInv => TypeOK
  <2> SUFFICES ASSUME EnginesInv, QuietInv PROVE TypeOK
    OBVIOUS
  <2>0. TypeInv /\ EngineInv /\ PlaceInv /\ CountInv
    BY DEF EnginesInv, QuietInv
  <2>1. inuse \in Int /\ inuse >= 0 /\ cnt \in Int
    BY <2>0 DEF PlaceInv, InuseCounts, CountInv, WorksCounted
  <2>2. FinderType /\ HistoryType /\ WorkType
    BY <2>0, <2>1 DEF TypeInv, SimpleTypes, WorkTypes, OtherTypes, FinderType, WorkType
  <2>3. StructType
    BY <2>0, Zenon DEF TypeInv, MemoryTypes, Objects, StructRecord, StructType
  <2>4. EngineType
    BY <2>0, Zenon DEF TypeInv, MemoryTypes, Handles, EngineRecord, EngineType
  <2>5. PlaceType
    BY <2>0, Zenon DEF TypeInv, SimpleTypes, MemoryTypes, Places, Calls, CallRecord, ReportRecord,
       PlaceType
  <2>6. \A e \in Engines : eng[e].ref >= 0
    BY <2>0 DEF EngineInv
  <2> QED
    BY <2>1, <2>2, <2>3, <2>4, <2>5, <2>6 DEF TypeOK
<1> QED
  BY <1>1, EnginesCounted, WorksAlwaysCounted, PTL

====
