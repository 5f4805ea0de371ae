---------------------------- MODULE Utrace_structs ----------------------------
(***************************************************************************)
(* The structs of the utrace layer, for any number of structs, engines,    *)
(* failures and execs: every reference on a struct utrace is counted, and  *)
(* no struct and no engine is freed while it is used.                      *)
(***************************************************************************)
EXTENDS Utrace_memory

-----------------------------------------------------------------------------
(* What holds whatever the processes do.                                    *)

(* The task exits once; only before that does it attach anything, and only
   after it is its death reported.                                          *)
LifeInv ==
    /\ tk.mm = ~tk.exiting
    /\ tk.exit # "none" => tk.exiting
    /\ tk.exiting => pc["task"] # "user" /\ rep.ev # "EXEC"
    /\ rep.ev = "DEATH" => tk.exiting
    /\ pc["task"] = "tp_get" => rep.ev # "NONE"
    /\ Calling("task") /\ at["task"].act # "NONE" => ~tk.exiting
    /\ \A s \in Structs : Report(s) \in works \cup taken => tk.exiting

(* The report that drops two references is that of a death, and a task that
   dies has exited.                                                         *)
DeathInv ==
    /\ pc["task"] = "reap" \/ (pc["task"] \in PutLabels /\ at["task"].k = "put2") => rep.ev = "DEATH"
    /\ pc["task"] \in {"exited", "zombie"} => tk.exiting

(* A work of a struct is queued or taken, not both, and the struct says so.  *)
WorkInv == \A s \in Structs :
    /\ Resume(s) \in works \cup taken => u[s].resumeAdded
    /\ Report(s) \in works \cup taken => u[s].reportAdded
    /\ ~(Resume(s) \in works /\ Resume(s) \in taken)
    /\ ~(Report(s) \in works /\ Report(s) \in taken)

(* The attach of the stap thread failed.                                    *)
Failing == pc["stap"] = "att_fail" \/ (pc["stap"] \in PutLabels /\ at["stap"].k = "att_fail")

(* What its return code tells.                                              *)
CodeInv ==
    /\ at["stap"].rc = "ENOMEM" =>
         Failing \/ pc["stap"] \in {"s_finder", "s_target", "running"} \cup StopLabels
    /\ at["stap"].rc = "EPERM" => tk.exiting
    /\ Failing => at["stap"].rc = "ENOMEM" \/ (at["stap"].rc = "ESRCH" /\ tk.exiting)

-----------------------------------------------------------------------------
(* The references on a struct.                                              *)

(* p looked s up and has not put it.                                        *)
CallHolds(p, s) ==
    /\ at[p].s = s
    /\ \/ pc[p] \in {"ev_set", "ctl_lock", "ctl_count", "post_find"}
       \/ pc[p] = "att_eng" /\ at[p].found
       \/ /\ pc[p] = "put" /\ at[p].k \in CallPuts \cup {"running"}
          /\ at[p].k = "att_fail" => at[p].found

(* p made s and has not queued an engine on it: all it has is the reference
   of the table.                                                            *)
Making(p, s) ==
    /\ at[p].s = s /\ ~at[p].found
    /\ pc[p] = "att_eng" \/ (pc[p] = "put" /\ at[p].k = "att_fail")

(* The references of a reporting pass: its own and, for a death, the one of
   the table, which the report drops in the end.                            *)
PassRefs(s) ==
    IF ~InPass \/ rep.s # s THEN 0
    ELSE IF /\ rep.ev = "DEATH" /\ ~rep.tp /\ pc["task"] # "put2"
            /\ ~(pc["task"] = "put" /\ at["task"].k = "w_done") THEN 2
    ELSE 1

(* The references of the queued and taken works, counted in the same way.    *)
WorkRefs(s) == One(Resume(s) \in works \cup taken) + 2 * One(Report(s) \in works \cup taken)

(* The stap thread, after it failed to attach, dropped the table's reference
   while a tracepoint probe of the task was looking at the struct.          *)
GaveUp == at["stap"].rc = "ENOMEM" /\ pc["stap"] # "put"
TracepointPuts == pc["task"] = "put" /\ at["task"].k = "tp_out"
Orphan(s) ==
    /\ TracepointPuts /\ rep.s = s /\ GaveUp
    /\ u[s].flags = {} /\ Resume(s) \notin works \cup taken

(* The table's reference on s is there, and nobody is about to drop it.      *)
Owned(s) ==
    \/ Making("stap", s) \/ Making("task", s)
    \/ u[s].ref > 0 /\ (~tk.exiting \/ pc["task"] = "tp_get") /\ ~Orphan(s)

Refs(s) == One(Owned(s)) + One(CallHolds("stap", s)) + One(CallHolds("task", s))
              + PassRefs(s) + WorkRefs(s)
RefsCounted == \A s \in Structs : u[s].ref >= Refs(s)

(* Somebody has a reference on s, and not only for a moment.                *)
InUse(s) == PassRefs(s) > 0 /\ ~TracepointPuts
Busy(s) == CallHolds("stap", s) \/ CallHolds("task", s) \/ InUse(s) \/ WorkRefs(s) > 0

(* There is one struct at a time that can be looked up.                      *)
OneCurrent == \A s \in Structs : u[s].ref > 0 => table # <<>> /\ s = Head(table)

(* One that is being made is nobody else's.                                 *)
MakingInv ==
    /\ \A p \in Procs : pc[p] = "att_alloc" => \A s \in Structs : u[s].ref = 0
    /\ \A p \in Procs, s \in Structs : Making(p, s) => ~Busy(s) /\ u[s].flags = {}
    /\ ~(BeingMade("stap") /\ BeingMade("task"))

(* Without the table's reference a struct has no engines, until the task
   exits.                                                                   *)
EmptyInv == \A s \in Structs : ~tk.exiting /\ u[s].ref = 0 => ListOf(s) = {}

(* p queued an engine on a struct of the task.                              *)
AttachedBy(p) ==
    \/ WithEngine(p) /\ at[p].act # "NONE"
    \/ pc[p] \in {"ev_set", "ctl_lock", "post", "post_find"} /\ p = "stap"
    \/ pc[p] \in PutLabels /\ at[p].k = "running"
    \/ pc[p] \in {"s_finder", "s_target"} /\ at[p].rc = "0"

(* So there is a struct that can be looked up, as long as the task lives.    *)
AttachedInv ==
    /\ AttachedBy("stap") /\ ~tk.exiting => ~BeingMade("task") /\ \E s \in Structs : u[s].ref > 0
    /\ AttachedBy("task") => ~BeingMade("stap") /\ \E s \in Structs : u[s].ref > 0

(* A struct at zero is cleaned up by the one that put it last.              *)
CleanInv ==
    /\ \A p \in Procs : pc[p] = "cleanup" => u[at[p].s].mem = "live" /\ u[at[p].s].ref = 0
    /\ pc["stap"] = "cleanup" /\ pc["task"] = "cleanup" => at["stap"].s # at["task"].s
    /\ pc["task"] = "cleanup" => at["task"].k # "put2"

(* The engine of a call is there, until the task exits.                     *)
EngineHeld ==
    ~tk.exiting => \A p \in Procs, e \in Engines : HasEngine(p, e) => eng[e].mem = "live"

HeldInv ==
    RefsCounted /\ OneCurrent /\ MakingInv /\ EmptyInv /\ AttachedInv /\ CleanInv /\ EngineHeld

-----------------------------------------------------------------------------
(* Steps that keep the structs held, part by part.                          *)

(* The parts of a count are numbers.                                        *)
LEMMA Parts ==
    ASSUME NEW s
    PROVE  /\ PassRefs(s) \in Nat /\ WorkRefs(s) \in Nat
           /\ One(Owned(s)) \in {0, 1}
           /\ One(CallHolds("stap", s)) \in {0, 1} /\ One(CallHolds("task", s)) \in {0, 1}
           /\ Refs(s) = One(Owned(s)) + One(CallHolds("stap", s)) + One(CallHolds("task", s))
                           + PassRefs(s) + WorkRefs(s)
           /\ Refs(s) \in Nat
<1>1. PassRefs(s) \in {0, 1, 2}
  BY DEF PassRefs
<1>2. WorkRefs(s) \in {0, 1, 2, 3}
  BY DEF WorkRefs, One
<1>3. One(Owned(s)) \in {0, 1} /\ One(CallHolds("stap", s)) \in {0, 1}
      /\ One(CallHolds("task", s)) \in {0, 1}
  BY DEF One
<1> QED
  BY <1>1, <1>2, <1>3 DEF Refs

(* The same, after a step.                                                  *)
LEMMA PartsNext ==
    ASSUME NEW s
    PROVE  /\ PassRefs(s)' \in Nat /\ WorkRefs(s)' \in Nat
           /\ One(Owned(s)') \in {0, 1}
           /\ One(CallHolds("stap", s)') \in {0, 1} /\ One(CallHolds("task", s)') \in {0, 1}
           /\ Refs(s)' = One(Owned(s)') + One(CallHolds("stap", s)') + One(CallHolds("task", s)')
                           + PassRefs(s)' + WorkRefs(s)'
           /\ Refs(s)' \in Nat
<1>1. PassRefs(s)' \in {0, 1, 2}
  BY DEF PassRefs
<1>2. WorkRefs(s)' \in {0, 1, 2, 3}
  BY DEF WorkRefs, One
<1>3. One(Owned(s)') \in {0, 1} /\ One(CallHolds("stap", s)') \in {0, 1}
      /\ One(CallHolds("task", s)') \in {0, 1}
  BY DEF One
<1>4. Refs(s)' = One(Owned(s)') + One(CallHolds("stap", s)') + One(CallHolds("task", s)')
                    + PassRefs(s)' + WorkRefs(s)'
  BY DEF Refs, One
<1> QED
  BY <1>1, <1>2, <1>3, <1>4

(* No count is below zero, and a struct that is held has one.               *)
LEMMA Counted ==
    ASSUME Objects, RefsCounted, NEW s \in Structs
    PROVE  /\ u[s].ref \in Nat /\ Refs(s) \in Nat /\ u[s].ref >= Refs(s)
           /\ Owned(s) \/ CallHolds("stap", s) \/ CallHolds("task", s) \/ PassRefs(s) > 0
                \/ WorkRefs(s) > 0 \/ Busy(s) => u[s].ref > 0
           /\ \A p \in Procs : CallHolds(p, s) \/ Making(p, s) => u[s].ref > 0
<1>1. u[s].ref \in Int /\ u[s].ref >= Refs(s)
  BY DEF Objects, StructRecord, RefsCounted
<1>2. /\ Owned(s) => One(Owned(s)) = 1
      /\ CallHolds("stap", s) => One(CallHolds("stap", s)) = 1
      /\ CallHolds("task", s) => One(CallHolds("task", s)) = 1
  BY DEF One
<1>3. /\ Refs(s) \in Nat
      /\ Owned(s) \/ CallHolds("stap", s) \/ CallHolds("task", s) \/ PassRefs(s) > 0
           \/ WorkRefs(s) > 0 => Refs(s) > 0
  BY <1>2, Parts
<1>4. Busy(s) => CallHolds("stap", s) \/ CallHolds("task", s) \/ PassRefs(s) > 0 \/ WorkRefs(s) > 0
  BY DEF Busy, InUse
<1>5. \A p \in Procs : Making(p, s) => Owned(s)
  BY DEF Owned, Procs
<1> QED
  BY <1>1, <1>3, <1>4, <1>5 DEF Procs

(* Each part falls, and so does the sum.                                    *)
LEMMA RefsFall ==
    ASSUME NEW s, Owned(s)' => Owned(s), PassRefs(s)' <= PassRefs(s), WorkRefs(s)' <= WorkRefs(s),
           \A p \in Procs : CallHolds(p, s)' => CallHolds(p, s)
    PROVE  Refs(s)' <= Refs(s)
<1>1. One(Owned(s)') <= One(Owned(s))
  BY DEF One
<1>2. One(CallHolds("stap", s)') <= One(CallHolds("stap", s))
  BY DEF One, Procs
<1>3. One(CallHolds("task", s)') <= One(CallHolds("task", s))
  BY DEF One, Procs
<1> QED
  BY <1>1, <1>2, <1>3, Parts, PartsNext

(* The table's reference does not come back.                                *)
LEMMA OwnedKept ==
    ASSUME NEW s, \A p \in Procs : Making(p, s)' => Making(p, s), u'[s].ref > 0 => u[s].ref > 0,
           ~tk'.exiting \/ pc'["task"] = "tp_get" => ~tk.exiting \/ pc["task"] = "tp_get",
           Orphan(s) => Orphan(s)'
    PROVE  Owned(s)' => Owned(s)
BY DEF Owned, Procs

(* The processes other than p stay where they are.                          *)
Stays(p) == \A q \in Procs : q # p => pc'[q] = pc[q] /\ at'[q] = at[q]

(* p found no struct, and the other process makes none.                     *)
MayMake(p) ==
    /\ Stays(p) /\ \A q \in Procs : q # p => ~BeingMade(q)
    /\ \A s \in Structs : u[s].ref = 0

(* What a step of p may do without further ado.                             *)
LessCall(p) ==
    /\ \A s \in Structs : Making(p, s)' => Making(p, s)
    /\ BeingMade(p)' => BeingMade(p) \/ MayMake(p)
    /\ pc'[p] = "att_alloc" => pc[p] = "att_alloc" \/ MayMake(p)
    /\ pc'[p] = "cleanup" => pc[p] = "cleanup" /\ at'[p].s = at[p].s /\ at'[p].k = at[p].k
    /\ AttachedBy(p)' =>
         \/ AttachedBy(p) \/ (p = "stap" /\ tk.exiting)
         \/ (\A q \in Procs : q # p => ~BeingMade(q)) /\ \E s \in Structs : u[s].ref > 0

(* A process that does not move does nothing of it.                         *)
LEMMA StaysLess ==
    ASSUME NEW p, pc'[p] = pc[p], at'[p] = at[p]
    PROVE  /\ LessCall(p)
           /\ \A s \in Structs : CallHolds(p, s)' => CallHolds(p, s)
BY DEF LessCall, Making, BeingMade, AttachedBy, CallHolds, WithEngine

(* The counts of the structs rise with what is counted, from above zero.     *)
CountsRise ==
    /\ UNCHANGED table
    /\ \A s \in Structs :
         /\ u'[s].ref >= u[s].ref /\ (u[s].ref = 0 => u'[s].ref = 0)
         /\ u'[s].mem = u[s].mem
         /\ u[s].ref = 0 => ListOf(s)' \subseteq ListOf(s)
         /\ Refs(s)' + u[s].ref <= Refs(s) + u'[s].ref

(* A step that does this keeps the structs held.                            *)
LEMMA HeldKept ==
    ASSUME Objects, Objects', UseInv, HeldInv, CountsRise, \A p \in Procs : LessCall(p),
           \A p \in Procs, s \in Structs : Making(p, s) /\ Making(p, s)' =>
               (Busy(s)' => Busy(s)) /\ (u'[s].flags = u[s].flags \/ Busy(s)),
           EngineHeld', tk.exiting => tk'.exiting
    PROVE  HeldInv'
<1> USE DEF HeldInv
<1>0. \A s \in Structs : /\ u[s].ref \in Nat /\ u'[s].ref \in Int /\ Refs(s) \in Nat
                         /\ Refs(s)' \in Nat /\ u[s].ref >= Refs(s)
  BY Counted, Parts, PartsNext DEF Objects, StructRecord
<1>1. RefsCounted'
  BY <1>0 DEF RefsCounted, CountsRise
<1>2. \A s \in Structs : u'[s].ref > 0 <=> u[s].ref > 0
  BY <1>0 DEF CountsRise
<1>3. OneCurrent'
  BY <1>2 DEF OneCurrent, CountsRise
<1>4. MakingInv'
  <2>1. \A p \in Procs : pc'[p] = "att_alloc" => \A s \in Structs : u'[s].ref = 0
    BY DEF MakingInv, CountsRise, LessCall, MayMake
  <2>2. \A p \in Procs, s \in Structs : Making(p, s)' => ~Busy(s)' /\ u'[s].flags = {}
    BY DEF MakingInv, LessCall
  <2>3. ~(BeingMade("stap")' /\ BeingMade("task")')
    <3>1. \A p \in Procs : pc'[p] = pc[p] /\ at'[p] = at[p] /\ BeingMade(p)' => BeingMade(p)
      BY DEF BeingMade
    <3>2. ASSUME MayMake("stap") \/ MayMake("task"), BeingMade("stap")', BeingMade("task")'
          PROVE  FALSE
      BY <3>1, <3>2 DEF MayMake, Stays, Procs
    <3> QED
      BY <3>2 DEF MakingInv, LessCall, Procs
  <2> QED
    BY <2>1, <2>2, <2>3 DEF MakingInv
<1>5. EmptyInv'
  <2> SUFFICES ASSUME NEW s \in Structs, ~tk'.exiting, u'[s].ref = 0 PROVE ListOf(s)' = {}
    BY DEF EmptyInv
  <2>1. u[s].ref = 0
    BY <1>0, <1>2
  <2>2. ListOf(s) = {}
    BY <2>1 DEF EmptyInv
  <2> QED
    BY <2>1, <2>2 DEF CountsRise
<1>6. AttachedInv'
  <2>1. (\E s \in Structs : u[s].ref > 0) => \E s \in Structs : u'[s].ref > 0
    BY <1>2
  <2>2. /\ BeingMade("stap")' => BeingMade("stap") \/ \A s \in Structs : u[s].ref = 0
        /\ BeingMade("task")' => BeingMade("task") \/ \A s \in Structs : u[s].ref = 0
    BY DEF LessCall, Procs, MayMake
  <2>3. AttachedBy("stap")' /\ ~tk'.exiting =>
           ~BeingMade("task") /\ \E s \in Structs : u[s].ref > 0
    BY DEF LessCall, Procs, AttachedInv
  <2>4. AttachedBy("task")' => ~BeingMade("stap") /\ \E s \in Structs : u[s].ref > 0
    BY DEF LessCall, Procs, AttachedInv
  <2> QED
    BY <2>1, <2>2, <2>3, <2>4 DEF AttachedInv
<1>7. CleanInv'
  <2>1. \A p \in Procs : pc[p] = "cleanup" => at[p].s \in Structs
    BY DEF UseInv, UsesStruct
  <2>2. \A p \in Procs : pc'[p] = "cleanup" => u'[at'[p].s].mem = "live" /\ u'[at'[p].s].ref = 0
    BY <2>1 DEF CleanInv, CountsRise, LessCall
  <2>3. pc'["stap"] = "cleanup" /\ pc'["task"] = "cleanup" => at'["stap"].s # at'["task"].s
    BY DEF CleanInv, LessCall, Procs
  <2>4. pc'["task"] = "cleanup" => at'["task"].k # "put2"
    BY DEF CleanInv, LessCall, Procs
  <2> QED
    BY <2>2, <2>3, <2>4 DEF CleanInv
<1> QED
  BY <1>1, <1>3, <1>4, <1>5, <1>6, <1>7

-----------------------------------------------------------------------------
(* Steps that change no count.                                              *)

(* No work of a struct is queued or taken that was not.                     *)
NoNewWork == \A s \in Structs :
    /\ Resume(s) \in works' => Resume(s) \in works
    /\ Resume(s) \in taken' => Resume(s) \in taken
    /\ Report(s) \in works' => Report(s) \in works
    /\ Report(s) \in taken' => Report(s) \in taken

(* So it is when works are taken off the queue, or a work of the task finder
   is added.                                                                *)
LEMMA NoNewWorks ==
    ASSUME taken' \subseteq taken,
           works' \subseteq works \/ \E e : works' = works \cup {TfWork(e)}
    PROVE  NoNewWork
BY WorkDistinct DEF NoNewWork

(* Then the works have no more references ...                               *)
LEMMA WorkRefsFall ==
    ASSUME NoNewWork, NEW s \in Structs
    PROVE  WorkRefs(s)' <= WorkRefs(s)
<1>1. /\ Resume(s) \in works' \cup taken' => Resume(s) \in works \cup taken
      /\ Report(s) \in works' \cup taken' => Report(s) \in works \cup taken
  BY DEF NoNewWork
<1>2. Resume(s)' = Resume(s) /\ Report(s)' = Report(s)
  BY DEF Resume, Report
<1> QED
  BY <1>1, <1>2 DEF WorkRefs, One

(* ... and the structs still say which they have.                           *)
LEMMA WorkInvKept ==
    ASSUME WorkInv, NoNewWork, SameAdded
    PROVE  WorkInv'
<1>1. \A s : Resume(s)' = Resume(s) /\ Report(s)' = Report(s)
  BY DEF Resume, Report
<1> QED
  BY <1>1 DEF WorkInv, NoNewWork, SameAdded

(* The stap thread does not move: neither does its return code.             *)
LEMMA CodeKept ==
    ASSUME CodeInv, pc'["stap"] = pc["stap"], at'["stap"] = at["stap"], tk.exiting => tk'.exiting
    PROVE  CodeInv'
BY DEF CodeInv, Failing

(* The life of the task goes on in a call or a pass.                        *)
FewerReports == \A s \in Structs : Report(s) \in works' \cup taken' => Report(s) \in works \cup taken

(* Then what was so of its life is so.                                      *)
LEMMA LifeGoesOn ==
    ASSUME LifeInv, UNCHANGED tk, rep'.ev = rep.ev, FewerReports,
           pc'["task"] = pc["task"] \/ pc'["task"] \notin {"user", "tp_get"},
           Calling("task")' /\ at'["task"].act # "NONE" => ~tk.exiting
    PROVE  LifeInv'
<1>1. \A s : Report(s)' = Report(s)
  BY DEF Report
<1>2. \A s \in Structs : Report(s)' \in works' \cup taken' => tk'.exiting
  BY <1>1 DEF LifeInv, FewerReports
<1> QED
  BY <1>2 DEF LifeInv

(* So it does when no work is added.                                        *)
LEMMA LifeKept ==
    ASSUME LifeInv, UNCHANGED tk, rep'.ev = rep.ev, NoNewWork,
           pc'["task"] = pc["task"] \/ pc'["task"] \notin {"user", "tp_get"},
           Calling("task")' /\ at'["task"].act # "NONE" => ~tk.exiting
    PROVE  LifeInv'
<1>1. FewerReports
  BY DEF FewerReports, NoNewWork
<1> QED
  BY <1>1, LifeGoesOn

(* What the stap thread does to it: nothing.                                *)
LEMMA LifeStays ==
    ASSUME LifeInv, UNCHANGED <<tk, rep>>, NoNewWork, pc'["task"] = pc["task"],
           at'["task"] = at["task"]
    PROVE  LifeInv'
<1>1. Calling("task")' /\ at'["task"].act # "NONE" => ~tk.exiting
  BY DEF LifeInv, Calling
<1> QED
  BY <1>1, LifeKept

(* The pass has no more references.                                         *)
LessPass == \A s \in Structs : PassRefs(s)' <= PassRefs(s) /\ (InUse(s)' => InUse(s))

(* A task that does not move keeps them.                                    *)
LEMMA PassStays ==
    ASSUME pc'["task"] = pc["task"], at'["task"] = at["task"], UNCHANGED rep
    PROVE  LessPass /\ (TracepointPuts' <=> TracepointPuts)
           /\ \A s \in Structs : PassRefs(s)' = PassRefs(s) /\ (InUse(s)' <=> InUse(s))
<1>1. InPass' <=> InPass
  BY DEF InPass, Calling
<1>2. \A s \in Structs : PassRefs(s)' = PassRefs(s)
  BY <1>1 DEF PassRefs
<1>3. TracepointPuts' <=> TracepointPuts
  BY DEF TracepointPuts
<1>4. \A s \in Structs : PassRefs(s) \in Nat
  BY Parts
<1> QED
  BY <1>2, <1>3, <1>4 DEF LessPass, InUse

(* A struct without the table's reference stays without, or there is none.   *)
LEMMA OrphanKept ==
    ASSUME NEW p \in Procs, Stays(p), NEW s \in Structs, NoNewWork, u'[s].flags = u[s].flags,
           p = "task" => ~TracepointPuts,
           p = "stap" => UNCHANGED rep /\ (GaveUp => GaveUp')
    PROVE  Orphan(s) => Orphan(s)'
<1>1. CASE p = "task"
  BY <1>1 DEF Orphan
<1>2. CASE p = "stap"
  <2>1. TracepointPuts' <=> TracepointPuts
    BY <1>2 DEF TracepointPuts, Stays, Procs
  <2>2. Resume(s)' = Resume(s) /\ (Resume(s) \in works' \cup taken' => Resume(s) \in works \cup taken)
    BY DEF Resume, NoNewWork
  <2> QED
    BY <1>2, <2>1, <2>2 DEF Orphan
<1> QED
  BY <1>1, <1>2 DEF Procs

(* p moves, and takes no reference.                                         *)
LessHeld(p) ==
    /\ LessCall(p)
    /\ \A s \in Structs : CallHolds(p, s)' => CallHolds(p, s)

(* Such a step keeps the structs held.                                      *)
LEMMA MoveHeld ==
    ASSUME Objects, Objects', UseInv, HeldInv, NEW p \in Procs, Stays(p), LessHeld(p),
           UNCHANGED table, NoNewWork, EngineHeld', tk.exiting => tk'.exiting,
           \A s \in Structs : /\ u'[s].ref = u[s].ref /\ u'[s].mem = u[s].mem
                              /\ ListOf(s)' \subseteq ListOf(s)
                              /\ u'[s].flags = u[s].flags \/ (Busy(s) /\ (p = "stap" => ~GaveUp)),
           p = "task" => LessPass /\ ~TracepointPuts
                         /\ (pc'["task"] = "tp_get" => pc["task"] = "tp_get" \/ ~tk.exiting),
           p = "stap" => UNCHANGED rep /\ (GaveUp => GaveUp')
    PROVE  HeldInv'
<1>1. \A q \in Procs : LessHeld(q)
  BY StaysLess DEF Stays, LessHeld
<1>2. LessPass
  BY PassStays DEF Stays, Procs
<1>3. \A s \in Structs : Orphan(s) => Orphan(s)'
  <2> SUFFICES ASSUME NEW s \in Structs, Orphan(s) PROVE Orphan(s)'
    OBVIOUS
  <2>1. p = "stap" /\ GaveUp
    BY DEF Orphan, Procs
  <2>2. u'[s].flags = u[s].flags
    BY <2>1
  <2> QED
    BY <2>2, OrphanKept
<1>4. \A s \in Structs : Owned(s)' => Owned(s)
  <2>1. ~tk'.exiting \/ pc'["task"] = "tp_get" => ~tk.exiting \/ pc["task"] = "tp_get"
    BY DEF Stays, Procs
  <2>2. \A q \in Procs, s \in Structs : Making(q, s)' => Making(q, s)
    BY <1>1 DEF LessHeld, LessCall
  <2> QED
    BY <1>3, <2>1, <2>2, OwnedKept
<1>5. \A s \in Structs : Refs(s)' <= Refs(s)
  <2> SUFFICES ASSUME NEW s \in Structs PROVE Refs(s)' <= Refs(s)
    OBVIOUS
  <2>1. /\ Owned(s)' => Owned(s) /\ PassRefs(s)' <= PassRefs(s)
        /\ \A q \in Procs : CallHolds(q, s)' => CallHolds(q, s)
    BY <1>1, <1>2, <1>4 DEF LessPass, LessHeld
  <2> QED
    BY <1>2, <1>4, <2>1, WorkRefsFall, RefsFall DEF LessPass
<1>6. CountsRise
  <2>1. \A s \in Structs : u[s].ref \in Int /\ Refs(s) \in Nat /\ Refs(s)' \in Nat
    BY Parts, PartsNext DEF Objects, StructRecord
  <2> QED
    BY <1>5, <2>1 DEF CountsRise
<1>7. \A s \in Structs : Busy(s)' => Busy(s)
  <2> SUFFICES ASSUME NEW s \in Structs, Busy(s)' PROVE Busy(s)
    OBVIOUS
  <2>1. WorkRefs(s)' > 0 => WorkRefs(s) > 0
    BY WorkRefsFall, Parts, PartsNext
  <2> QED
    BY <1>1, <1>2, <2>1 DEF Busy, LessPass, LessHeld, Procs
<1> QED
  BY <1>1, <1>6, <1>7, HeldKept DEF LessHeld

(* No process gets an engine, and no engine is freed that is held.           *)
LEMMA EnginesStay ==
    ASSUME HeldInv, NoGain, tk.exiting => tk'.exiting,
           \A e \in Engines : eng'[e].mem = eng[e].mem
    PROVE  EngineHeld'
BY DEF HeldInv, EngineHeld, NoGain

-----------------------------------------------------------------------------
(* The steps of __stp_utrace_attach().                                      *)

ControlInv == LifeInv /\ WorkInv /\ CodeInv
Sound == EnginesInv /\ QuietInv /\ ControlInv /\ DeathInv

(* What a step has to keep.                                                 *)
KeepsHeld == ControlInv' /\ (HeldInv /\ ~raced' /\ ~early' => HeldInv')

(* The shapes, by name.                                                     *)
LEMMA Shapes ==
    ASSUME Sound
    PROVE  /\ Places /\ Calls /\ Objects /\ Handles /\ table \in Seq(Structs)
           /\ rep \in ReportRecord /\ works \in SUBSET Works /\ taken \in SUBSET Works
           /\ TypeInv /\ UseInv /\ ListInv /\ EngineInv /\ PlaceInv
           /\ LifeInv /\ WorkInv /\ CodeInv /\ ControlInv
BY DEF Sound, EnginesInv, TypeInv, MemoryTypes, SimpleTypes, WorkTypes, ControlInv, QuietInv

(* A call leaves the pass that made it alone.                               *)
LEMMA CallPass ==
    ASSUME Calling("task"), Calling("task")', at'["task"].ret = at["task"].ret, UNCHANGED rep
    PROVE  LessPass /\ ~TracepointPuts /\ ~TracepointPuts'
           /\ \A s \in Structs : PassRefs(s)' = PassRefs(s) /\ (InUse(s)' <=> InUse(s))
<1>1. /\ pc["task"] \in CallLabels \/ (pc["task"] \in PutLabels /\ at["task"].k \in CallPuts)
      /\ pc'["task"] \in CallLabels \/ (pc'["task"] \in PutLabels /\ at'["task"].k \in CallPuts)
  BY DEF Calling
<1>2. ~TracepointPuts /\ ~TracepointPuts'
  BY <1>1 DEF TracepointPuts, CallLabels, PutLabels, CallPuts
<1>3. InPass <=> at["task"].ret \in {"q_add", "x_out"}
  BY <1>1 DEF InPass, CallLabels, PutLabels, CallPuts, UsesReport, PassPuts
<1>4. InPass' <=> at'["task"].ret \in {"q_add", "x_out"}
  BY <1>1 DEF InPass, CallLabels, PutLabels, CallPuts, UsesReport, PassPuts
<1>5. /\ pc["task"] # "put2" /\ ~(pc["task"] = "put" /\ at["task"].k = "w_done")
      /\ pc'["task"] # "put2" /\ ~(pc'["task"] = "put" /\ at'["task"].k = "w_done")
  BY <1>1 DEF CallLabels, PutLabels, CallPuts
<1>6. \A s \in Structs : PassRefs(s)' = PassRefs(s)
  BY <1>3, <1>4, <1>5 DEF PassRefs
<1>7. \A s \in Structs : PassRefs(s) \in Nat
  BY Parts
<1> QED
  BY <1>2, <1>6, <1>7 DEF LessPass, InUse

(* ... and returns to it.                                                   *)
LEMMA ReturnPass ==
    ASSUME PlaceInv, Calling("task"), pc'["task"] = at["task"].ret, UNCHANGED rep
    PROVE  LessPass /\ ~TracepointPuts
<1>1. /\ pc["task"] \in CallLabels \/ (pc["task"] \in PutLabels /\ at["task"].k \in CallPuts)
      /\ pc'["task"] \in {"q_add", "x_out", "cl_match", "cl_end"}
  BY DEF Calling, PlaceInv, TaskPlace
<1>2. ~TracepointPuts /\ ~TracepointPuts'
  BY <1>1 DEF TracepointPuts, CallLabels, PutLabels, CallPuts
<1>3. InPass <=> at["task"].ret \in {"q_add", "x_out"}
  BY <1>1 DEF InPass, CallLabels, PutLabels, CallPuts, UsesReport, PassPuts
<1>4. InPass' => pc'["task"] \in {"q_add", "x_out"}
  BY <1>1 DEF InPass, CallLabels, PutLabels, CallPuts, UsesReport, PassPuts, Calling
<1>5. /\ pc["task"] # "put2" /\ ~(pc["task"] = "put" /\ at["task"].k = "w_done")
      /\ pc'["task"] # "put2" /\ ~(pc'["task"] = "put" /\ at'["task"].k = "w_done")
  BY <1>1 DEF CallLabels, PutLabels, CallPuts
<1>6. \A s \in Structs : PassRefs(s)' \in {0, PassRefs(s)}
  BY <1>3, <1>4, <1>5 DEF PassRefs
<1>7. \A s \in Structs : PassRefs(s) \in Nat
  BY Parts
<1> QED
  BY <1>2, <1>6, <1>7 DEF LessPass, InUse

(* At a place where no struct is used, none is held.                        *)
LEMMA Rests ==
    ASSUME NEW p, pc'[p] \notin UsesStruct \cup {"att_alloc"}
    PROVE  /\ \A s : ~CallHolds(p, s)' /\ ~Making(p, s)'
           /\ ~BeingMade(p)' /\ pc'[p] # "att_alloc" /\ pc'[p] # "cleanup"
BY DEF UsesStruct, CallHolds, Making, BeingMade

(* ... nor was before.                                                      *)
LEMMA Rested ==
    ASSUME NEW p, pc[p] \notin UsesStruct \cup {"att_alloc"}
    PROVE  (\A s : ~CallHolds(p, s) /\ ~Making(p, s)) /\ ~BeingMade(p)
BY DEF UsesStruct, CallHolds, Making, BeingMade

(* A call returned: its process holds nothing.                              *)
LEMMA ReturnLess ==
    ASSUME PlaceInv, NEW p \in Procs, Calling(p), pc'[p] = at[p].ret
    PROVE  /\ \A s : ~CallHolds(p, s)' /\ ~Making(p, s)'
           /\ ~BeingMade(p)' /\ pc'[p] # "att_alloc" /\ pc'[p] # "cleanup"
           /\ AttachedBy(p)' => p = "stap" /\ at'[p].rc = "0"
           /\ ~Calling(p)' /\ pc'[p] \notin {"user", "tp_get", "put"}
           /\ p = "task" => pc'[p] \in {"q_add", "x_out", "cl_match", "cl_end"}
           /\ p = "stap" => pc'[p] \in {"s_finder", "s_target", "running"} /\ ~Failing'
<1>1. \/ p = "task" /\ pc'[p] \in {"q_add", "x_out", "cl_match", "cl_end"}
      \/ p = "stap" /\ pc'[p] \in {"s_finder", "s_target", "running"}
  BY DEF PlaceInv, TaskPlace, StapPlace, Procs
<1>2. pc'[p] \notin UsesStruct \cup {"att_alloc"}
  BY <1>1 DEF UsesStruct
<1>3. AttachedBy(p)' => p = "stap" /\ at'[p].rc = "0"
  BY <1>1 DEF AttachedBy, WithEngine, UsesEngine, PutLabels
<1>4. ~Calling(p)' /\ (p = "stap" => ~Failing')
  BY <1>1 DEF Calling, CallLabels, PutLabels, Failing
<1> QED
  BY <1>1, <1>2, <1>3, <1>4, Rests

(* The parts a step of p in a call keeps.                                   *)
LEMMA CallControl2 ==
    ASSUME Sound, NEW p \in Procs, Calling(p), Stays(p), UNCHANGED <<rep, tk>>, NoNewWork, SameAdded,
           pc'[p] \notin {"user", "tp_get"}, Calling(p)' => at'[p].act = at[p].act,
           p = "stap" => CodeInv'
    PROVE  ControlInv'
<1>1. WorkInv'
  BY Shapes, WorkInvKept
<1>2. CASE p = "task"
  <2>1. Calling("task")' /\ at'["task"].act # "NONE" => ~tk.exiting
    BY <1>2, Shapes DEF LifeInv
  <2>2. LifeInv'
    BY <1>2, <2>1, Shapes, LifeKept
  <2>3. CodeInv'
    BY <1>2, Shapes, CodeKept DEF Stays, Procs
  <2> QED
    BY <1>1, <2>2, <2>3 DEF ControlInv
<1>3. CASE p = "stap"
  BY <1>1, <1>3, Shapes, LifeStays DEF Stays, Procs, ControlInv
<1> QED
  BY <1>2, <1>3 DEF Procs

(* The error return of utrace_attach_task().                                *)
LEMMA FailedHeld ==
    ASSUME Sound, ~Oops, NEW p \in Procs, AttachFailed(p)
    PROVE  KeepsHeld
<1>s. Calls /\ Objects /\ Places /\ UseInv /\ PlaceInv /\ CodeInv
  BY Shapes
<1>1. /\ pc[p] = "att_fail" /\ Goto(p, at[p].ret)
      /\ UNCHANGED <<table, u, eng, kernel, rep, hist>>
      /\ Returned(p, IF at[p].rc = "ESRCH" THEN "0" ELSE at[p].rc)
  BY DEF AttachFailed
<1>2. PICK c : NewCall(p, c) /\ Idle(c) /\ c.rc = (IF at[p].rc = "ESRCH" THEN "0" ELSE at[p].rc)
  <2>1. (IF at[p].rc = "ESRCH" THEN "0" ELSE at[p].rc) \in ReturnCodes
    BY <1>s, CallLabelled DEF ReturnCodes
  <2> QED
    BY <1>s, <1>1, <2>1, ReturnEffect
<1>3. pc'[p] = at[p].ret /\ Stays(p) /\ at'[p] = c
  BY <1>s, <1>1, <1>2, OthersStay DEF Stays, NewCall
<1>4. Calling(p)
  BY <1>1 DEF Calling, CallLabels
<1>5. NoNewWork /\ SameAdded /\ Objects'
  BY <1>s, <1>1, NoNewWorks, SameMemory, MemEffects DEF kernel
<1>6. p = "stap" => /\ at[p].rc = "ENOMEM" \/ (at[p].rc = "ESRCH" /\ tk.exiting)
                    /\ (c.rc = "ENOMEM" <=> at[p].rc = "ENOMEM") /\ (c.rc = "0" => tk.exiting)
                    /\ c.rc # "EPERM"
  BY <1>s, <1>1, <1>2 DEF CodeInv, Failing
<1>7. p = "stap" => CodeInv'
  BY <1>s, <1>3, <1>4, <1>6, ReturnLess DEF CodeInv
<1>8. ControlInv'
  BY <1>s, <1>1, <1>3, <1>4, <1>5, <1>7, ReturnLess, CallControl2 DEF kernel
<1>9. ASSUME HeldInv PROVE HeldInv'
  <2>1. LessHeld(p)
    BY <1>s, <1>3, <1>4, <1>6, ReturnLess DEF LessHeld, LessCall
  <2>2. p = "task" => LessPass /\ ~TracepointPuts
    BY <1>s, <1>1, <1>3, <1>4, ReturnPass
  <2>3. p = "stap" => (GaveUp => GaveUp')
    BY <1>s, <1>3, <1>4, <1>6, ReturnLess DEF GaveUp
  <2>4. NoGain
    <3>1. utrace_add_engine(p) => pc[p] = "att_eng"
      BY DEF utrace_add_engine
    <3> QED
      BY <1>1, <3>1, Shapes, AttachUses DEF AttachStep
  <2>5. EngineHeld' /\ tk'.exiting = tk.exiting
    BY <1>1, <1>9, <2>4, EnginesStay DEF kernel
  <2>6. pc'[p] # "tp_get"
    BY <1>s, <1>3, <1>4, ReturnLess
  <2> QED
    BY <1>s, <1>1, <1>3, <1>5, <1>9, <2>1, <2>2, <2>3, <2>5, <2>6, MoveHeld DEF ListOf
<1> QED
  BY <1>8, <1>9 DEF KeepsHeld

(* p moves in a call and changes no count.                                  *)
LEMMA CallHeld ==
    ASSUME Sound, NEW p \in Procs, Calling(p), Stays(p), UNCHANGED <<rep, tk, table>>, NoNewWork,
           SameAdded, Objects', pc'[p] \notin {"user", "tp_get"},
           Calling(p)' => at'[p].act = at[p].act, p = "stap" => CodeInv' /\ (GaveUp => GaveUp'),
           HeldInv =>
             /\ LessHeld(p) /\ EngineHeld'
             /\ \A s \in Structs : /\ u'[s].ref = u[s].ref /\ u'[s].mem = u[s].mem
                                   /\ ListOf(s)' \subseteq ListOf(s)
                                   /\ \/ u'[s].flags = u[s].flags
                                      \/ Busy(s) /\ (p = "stap" => ~GaveUp),
           p = "task" => LessPass /\ ~TracepointPuts
    PROVE  KeepsHeld
<1>1. ControlInv'
  BY CallControl2
<1>2. ASSUME HeldInv PROVE HeldInv'
  <2>1. Objects /\ UseInv
    BY Shapes
  <2>2. p = "task" => pc'["task"] # "tp_get"
    OBVIOUS
  <2> QED
    BY <1>2, <2>1, <2>2, MoveHeld
<1> QED
  BY <1>1, <1>2 DEF KeepsHeld

(* The return code of the stap thread in a call that has not failed.        *)
LEMMA CodeCall ==
    ASSUME CodeInv, pc["stap"] \in CallLabels \ {"att_fail"}, UNCHANGED tk,
           at'["stap"].rc \in {at["stap"].rc, "0", "ESRCH", "EALREADY"}, ~Failing'
    PROVE  CodeInv' /\ ~GaveUp
BY DEF CodeInv, GaveUp, CallLabels, StopLabels, Failing, PutLabels

(* get_utrace_struct() found s, which nobody is making.                      *)
LEMMA FoundHeld ==
    ASSUME Sound, HeldInv, NEW p \in Procs, NEW s \in Structs,
           Objects', Unmoved, Counts(s, 1), u[s].ref > 0, UNCHANGED <<table, eng, works, taken, tk, rep>>,
           Stays(p), pc[p] \in {"att_get", "ev_get", "ctl_get", "post"},
           at'[p].s = s, pc'[p] \in {"att_eng", "ev_set", "ctl_lock", "post_find"},
           pc'[p] = "att_eng" => at'[p].found, NoGain, AttachedBy(p)' => AttachedBy(p),
           \A q \in Procs : ~Making(q, s),
           p = "task" => ~TracepointPuts /\
             \A t \in Structs : PassRefs(t)' = PassRefs(t) /\ (InUse(t)' <=> InUse(t)),
           p = "stap" => ~GaveUp
    PROVE  HeldInv'
<1>s. Objects /\ UseInv
  BY Shapes
<1>1. \A t \in Structs : /\ u[t].ref \in Int
                         /\ u'[t].ref = (IF t = s THEN u[t].ref + 1 ELSE u[t].ref)
  BY <1>s DEF Counts, Objects, StructRecord
<1>2. ~BeingMade(p) /\ (\A t : ~CallHolds(p, t) /\ ~Making(p, t)) /\ ~BeingMade(p)'
      /\ (\A t : ~Making(p, t)') /\ (\A t : CallHolds(p, t)' <=> t = s)
      /\ pc'[p] # "att_alloc" /\ pc'[p] # "cleanup"
  BY DEF BeingMade, CallHolds, Making
<1>3. \A q \in Procs : q # p => /\ LessCall(q)
                                /\ \A t \in Structs : (CallHolds(q, t)' <=> CallHolds(q, t))
                                                      /\ (Making(q, t)' <=> Making(q, t))
  BY StaysLess DEF Stays, CallHolds, Making
<1>4. \A q \in Procs : LessCall(q)
  BY <1>2, <1>3 DEF LessCall
<1>5. \A t \in Structs : PassRefs(t)' = PassRefs(t) /\ (InUse(t)' <=> InUse(t))
  BY PassStays DEF Stays, Procs
<1>6. \A t \in Structs : WorkRefs(t)' = WorkRefs(t)
  BY DEF WorkRefs, Resume, Report
<1>7. \A t \in Structs : ~Orphan(t)
  BY DEF Orphan, Procs
<1>8. \A t \in Structs : Owned(t)' => Owned(t)
  <2>1. pc'["task"] = "tp_get" => pc["task"] = "tp_get"
    BY DEF Stays, Procs
  <2>2. \A t \in Structs : u'[t].ref > 0 => u[t].ref > 0
    BY <1>1
  <2>3. \A q \in Procs, t \in Structs : Making(q, t)' => Making(q, t)
    BY <1>2, <1>3
  <2> QED
    BY <1>7, <2>1, <2>2, <2>3, OwnedKept
<1>9. \A t \in Structs : Refs(t)' + u[t].ref <= Refs(t) + u'[t].ref
  <2> SUFFICES ASSUME NEW t \in Structs PROVE Refs(t)' + u[t].ref <= Refs(t) + u'[t].ref
    OBVIOUS
  <2>1. One(Owned(t)') <= One(Owned(t))
    BY <1>8 DEF One
  <2>2. One(CallHolds("stap", t)') + One(CallHolds("task", t)') + u[t].ref
          <= One(CallHolds("stap", t)) + One(CallHolds("task", t)) + u'[t].ref
    BY <1>1, <1>2, <1>3 DEF One, Procs
  <2> QED
    BY <1>1, <1>5, <1>6, <2>1, <2>2, Parts, PartsNext
<1>10. CountsRise
  BY <1>1, <1>9 DEF CountsRise, Unmoved, ListOf
<1>11. \A q \in Procs, t \in Structs : Making(q, t) => (Busy(t)' => Busy(t))
  BY <1>2, <1>3, <1>5, <1>6 DEF Busy, Procs
<1>12. EngineHeld'
  BY EnginesStay
<1> QED
  BY <1>s, <1>4, <1>10, <1>11, <1>12, HeldKept DEF Unmoved

(* The task makes a struct only while it lives.                             *)
LEMMA TaskMakes ==
    ASSUME Sound, BeingMade("task")
    PROVE  ~tk.exiting /\ Calling("task")
<1>1. Calling("task")
  BY DEF BeingMade, Calling, CallLabels, PutLabels, CallPuts
<1>2. at["task"].act # "NONE"
  <2>1. UseInv
    BY Shapes
  <2> QED
    BY <1>1, <2>1 DEF BeingMade, UseInv, PutLabels
<1> QED
  BY <1>1, <1>2, Shapes DEF LifeInv

(* The new struct has the one reference of the table.                       *)
LEMMA MakesStruct ==
    ASSUME NEW p, NEW s, Making(p, s)
    PROVE  BeingMade(p)
BY DEF Making, BeingMade

(* While p is attached no struct is being made.                             *)
LEMMA NotMade ==
    ASSUME Sound, HeldInv, NEW p \in Procs, AttachedBy(p), ~BeingMade(p)
    PROVE  \A q \in Procs, s \in Structs : ~Making(q, s)
<1>1. CASE p = "task"
  BY <1>1, MakesStruct DEF HeldInv, AttachedInv, Procs
<1>2. CASE p = "stap"
  BY <1>2, MakesStruct, TaskMakes DEF HeldInv, AttachedInv, Procs
<1> QED
  BY <1>1, <1>2 DEF Procs

(* The struct a pass is on is the one it finds.                             *)
LEMMA PassFinds ==
    ASSUME Sound, HeldInv, InPass, ~TracepointPuts, NEW s \in Structs, table # <<>>, s = Head(table)
    PROVE  Busy(s) /\ \A q \in Procs : ~Making(q, s)
<1>1. rep.s \in Structs
  BY Shapes DEF UseInv
<1>2. PassRefs(rep.s) > 0
  BY DEF PassRefs
<1>3. u[rep.s].ref > 0
  BY <1>1, <1>2, Shapes, Counted DEF HeldInv
<1>4. rep.s = s
  BY <1>1, <1>3 DEF HeldInv, OneCurrent
<1>5. Busy(s)
  BY <1>2, <1>4 DEF Busy, InUse
<1> QED
  BY <1>5 DEF HeldInv, MakingInv

(* utrace_set_events() looks the struct up.                                 *)
LEMMA SetEventsGetHeld ==
    ASSUME Sound, ~Oops, NEW p \in Procs, SetEventsGet(p)
    PROVE  KeepsHeld
<1>s. Calls /\ Objects /\ Places /\ UseInv /\ PlaceInv /\ CodeInv /\ table \in Seq(Structs)
  BY Shapes
<1>1. /\ pc[p] = "ev_get" /\ UNCHANGED <<table, eng, works, taken, tk, rep, raced>>
      /\ GetStruct(p, "ev_set", IF at[p].act = "NONE" THEN at[p].ret ELSE "eng_put", "ESRCH")
  BY DEF SetEventsGet, GetStruct, kernel
<1>2. PICK c : /\ NewCall(p, c) /\ SameCall(p, c) /\ c.e = at[p].e /\ c.k = at[p].k
               /\ Objects' /\ Unmoved /\ SameAdded
               /\ \/ /\ c.s = NoStruct /\ UNCHANGED u /\ c.rc = "ESRCH"
                     /\ Goto(p, IF at[p].act = "NONE" THEN at[p].ret ELSE "eng_put")
                  \/ /\ c.s \in Structs /\ table # <<>> /\ c.s = Head(table)
                     /\ u[c.s].ref > 0 /\ Goto(p, "ev_set") /\ Counts(c.s, 1)
                     /\ c.rc = at[p].rc
  <2>1. "ESRCH" \in ReturnCodes
    BY DEF ReturnCodes
  <2> QED
    BY <1>s, <1>1, <2>1, GetEffect
<1>3. Calling(p) /\ Stays(p) /\ at'[p] = c
  <2>1. \E l : Goto(p, l)
    BY <1>2
  <2> QED
    BY <1>s, <1>1, <1>2, <2>1, OthersStay DEF Calling, CallLabels, Stays, NewCall
<1>4. NoGain
  <2>1. ~utrace_add_engine(p)
    BY <1>1 DEF utrace_add_engine
  <2> QED
    BY <2>1, Shapes, AttachUses DEF AttachStep
<1>5. NoNewWork
  BY <1>1, NoNewWorks
<1>6. p = "stap" => at[p].act # "NONE" /\ pc["stap"] \in CallLabels \ {"att_fail"}
  BY <1>s, <1>1, <1>3 DEF PlaceInv, StapPlace, CallLabels
<1>r. (\A t : ~CallHolds(p, t) /\ ~Making(p, t)) /\ ~BeingMade(p)
  BY <1>1, Rested DEF UsesStruct
<1>7. CASE /\ c.s = NoStruct /\ UNCHANGED u /\ c.rc = "ESRCH"
           /\ Goto(p, IF at[p].act = "NONE" THEN at[p].ret ELSE "eng_put")
  <2>1. pc'[p] = IF at[p].act = "NONE" THEN at[p].ret ELSE "eng_put"
    BY <1>s, <1>2, <1>7, OthersStay
  <2>2. p = "stap" => CodeInv' /\ ~GaveUp
    <3>1. p = "stap" => ~Failing'
      BY <1>6, <2>1 DEF Failing, PutLabels
    <3> QED
      BY <1>s, <1>1, <1>3, <1>6, <1>7, <3>1, CodeCall
  <2>3. CASE at[p].act = "NONE"
    <3>1. LessHeld(p) /\ ~Calling(p)' /\ pc'[p] \notin {"user", "tp_get"}
      BY <1>s, <1>3, <1>6, <2>1, <2>3, ReturnLess DEF LessHeld, LessCall
    <3>2. p = "task" => LessPass /\ ~TracepointPuts
      BY <1>s, <1>1, <1>3, <2>1, <2>3, ReturnPass
    <3> QED
      BY <1>1, <1>2, <1>3, <1>4, <1>5, <1>7, <2>2, <3>1, <3>2, CallHeld, EnginesStay DEF ListOf
  <2>4. CASE at[p].act # "NONE"
    <3>1. pc'[p] = "eng_put"
      BY <2>1, <2>4
    <3>2. AttachedBy(p)
      BY <1>1, <2>4 DEF AttachedBy, WithEngine, UsesEngine
    <3>3. LessHeld(p)
      BY <3>1, <3>2, Rests DEF LessHeld, LessCall, UsesStruct
    <3>4. Calling(p)' /\ at'[p].act = at[p].act /\ at'[p].ret = at[p].ret
      BY <1>2, <1>3, <3>1 DEF Calling, CallLabels, SameCall
    <3>5. p = "task" => LessPass /\ ~TracepointPuts
      BY <1>1, <1>3, <3>4, CallPass
    <3> QED
      BY <1>1, <1>2, <1>3, <1>4, <1>5, <1>7, <2>2, <3>1, <3>3, <3>4, <3>5, CallHeld, EnginesStay
         DEF ListOf
  <2> QED
    BY <2>3, <2>4
<1>8. CASE /\ c.s \in Structs /\ table # <<>> /\ c.s = Head(table)
           /\ u[c.s].ref > 0 /\ Goto(p, "ev_set") /\ Counts(c.s, 1) /\ c.rc = at[p].rc
  <2>1. pc'[p] = "ev_set"
    BY <1>s, <1>2, <1>8, OthersStay
  <2>2. p = "stap" => CodeInv' /\ ~GaveUp
    <3>1. p = "stap" => ~Failing'
      BY <2>1 DEF Failing, PutLabels
    <3> QED
      BY <1>s, <1>1, <1>3, <1>6, <1>8, <3>1, CodeCall
  <2>3. Calling(p)' /\ at'[p].act = at[p].act /\ at'[p].ret = at[p].ret
    BY <1>2, <1>3, <2>1 DEF Calling, CallLabels, SameCall
  <2>4. ControlInv'
    BY <1>1, <1>2, <1>3, <1>5, <2>1, <2>2, <2>3, CallControl2
  <2>5. p = "task" => ~TracepointPuts /\
             \A t \in Structs : PassRefs(t)' = PassRefs(t) /\ (InUse(t)' <=> InUse(t))
    BY <1>1, <1>3, <2>3, CallPass
  <2>6. ASSUME HeldInv PROVE HeldInv'
    <3>1. at[p].act # "NONE" => AttachedBy(p)
      BY <1>1 DEF AttachedBy, WithEngine, UsesEngine
    <3>2. AttachedBy(p)' => AttachedBy(p)
      BY <1>6, <2>1, <2>3, <3>1 DEF AttachedBy, WithEngine, PutLabels
    <3>3. at[p].act = "NONE" => p = "task" /\ InPass
      BY <1>s, <1>3, <1>6 DEF PlaceInv, TaskPlace, InPass, Procs
    <3>4. \A q \in Procs : ~Making(q, c.s)
      BY <1>r, <1>8, <2>5, <2>6, <3>1, <3>3, NotMade, PassFinds
    <3> QED
      BY <1>1, <1>2, <1>3, <1>4, <1>8, <2>1, <2>2, <2>5, <2>6, <3>2, <3>4, FoundHeld
  <2> QED
    BY <2>4, <2>6 DEF KeepsHeld
<1> QED
  BY <1>2, <1>7, <1>8

(* utrace_control() looks the struct up.                                    *)
LEMMA ControlGetHeld ==
    ASSUME Sound, ~Oops, NEW p \in Procs, ControlGet(p)
    PROVE  KeepsHeld
<1>s. Calls /\ Objects /\ Places /\ UseInv /\ PlaceInv /\ CodeInv /\ table \in Seq(Structs)
  BY Shapes
<1>1. /\ pc[p] = "ctl_get" /\ UNCHANGED <<table, eng, works, taken, tk, rep, raced>>
      /\ GetStruct(p, "ctl_lock", "eng_put", "0")
  BY DEF ControlGet, GetStruct, kernel
<1>2. PICK c : /\ NewCall(p, c) /\ SameCall(p, c) /\ c.e = at[p].e /\ c.k = at[p].k
               /\ Objects' /\ Unmoved /\ SameAdded
               /\ \/ c.s = NoStruct /\ UNCHANGED u /\ c.rc = "0" /\ Goto(p, "eng_put")
                  \/ /\ c.s \in Structs /\ table # <<>> /\ c.s = Head(table)
                     /\ u[c.s].ref > 0 /\ Goto(p, "ctl_lock") /\ Counts(c.s, 1)
                     /\ c.rc = at[p].rc
  <2>1. "0" \in ReturnCodes
    BY DEF ReturnCodes
  <2> QED
    BY <1>s, <1>1, <2>1, GetEffect
<1>3. Calling(p) /\ Stays(p) /\ at'[p] = c /\ pc'[p] \in {"eng_put", "ctl_lock"}
  <2>1. \E l \in {"eng_put", "ctl_lock"} : Goto(p, l)
    BY <1>2
  <2> QED
    BY <1>s, <1>1, <1>2, <2>1, OthersStay DEF Calling, CallLabels, Stays, NewCall
<1>4. NoGain
  <2>1. ~utrace_add_engine(p)
    BY <1>1 DEF utrace_add_engine
  <2> QED
    BY <2>1, Shapes, AttachUses DEF AttachStep
<1>5. NoNewWork
  BY <1>1, NoNewWorks
<1>6. at[p].act # "NONE"
  BY <1>s, <1>1, <1>3 DEF PlaceInv, StapPlace, UseInv, Procs, PutLabels
<1>r. (\A t : ~CallHolds(p, t) /\ ~Making(p, t)) /\ ~BeingMade(p)
  BY <1>1, Rested DEF UsesStruct
<1>a. AttachedBy(p)
  BY <1>1, <1>6 DEF AttachedBy, WithEngine, UsesEngine
<1>c. p = "stap" => CodeInv' /\ ~GaveUp
  <2>1. p = "stap" => ~Failing' /\ pc["stap"] \in CallLabels \ {"att_fail"}
    BY <1>1, <1>3 DEF Failing, PutLabels, CallLabels
  <2> QED
    BY <1>s, <1>1, <1>2, <1>3, <2>1, CodeCall
<1>k. Calling(p)' /\ at'[p].act = at[p].act /\ at'[p].ret = at[p].ret
  BY <1>2, <1>3 DEF Calling, CallLabels, SameCall
<1>p. p = "task" => /\ LessPass /\ ~TracepointPuts
                    /\ \A t \in Structs : PassRefs(t)' = PassRefs(t) /\ (InUse(t)' <=> InUse(t))
  BY <1>1, <1>3, <1>k, CallPass
<1>7. CASE c.s = NoStruct /\ UNCHANGED u /\ c.rc = "0" /\ Goto(p, "eng_put")
  <2>1. pc'[p] = "eng_put"
    BY <1>s, <1>2, <1>7, OthersStay
  <2>2. LessHeld(p)
    BY <1>a, <2>1, Rests DEF LessHeld, LessCall, UsesStruct
  <2> QED
    BY <1>1, <1>2, <1>3, <1>4, <1>5, <1>7, <1>c, <1>k, <1>p, <2>1, <2>2, CallHeld, EnginesStay
       DEF ListOf
<1>8. CASE /\ c.s \in Structs /\ table # <<>> /\ c.s = Head(table)
           /\ u[c.s].ref > 0 /\ Goto(p, "ctl_lock") /\ Counts(c.s, 1) /\ c.rc = at[p].rc
  <2>1. pc'[p] = "ctl_lock"
    BY <1>s, <1>2, <1>8, OthersStay
  <2>2. ControlInv'
    BY <1>1, <1>2, <1>3, <1>5, <1>c, <1>k, <2>1, CallControl2
  <2>3. ASSUME HeldInv PROVE HeldInv'
    <3>1. \A q \in Procs : ~Making(q, c.s)
      BY <1>a, <1>r, <1>8, <2>3, NotMade
    <3> QED
      BY <1>1, <1>2, <1>3, <1>4, <1>8, <1>a, <1>c, <1>p, <2>1, <2>3, <3>1, FoundHeld
  <2> QED
    BY <2>2, <2>3 DEF KeepsHeld
<1> QED
  BY <1>2, <1>7, <1>8

(* utrace_attach_task() looks the struct up, and goes on to make one.       *)
LEMMA AttachGetHeld ==
    ASSUME Sound, ~Oops, NEW p \in Procs, AttachGet(p)
    PROVE  KeepsHeld
<1>s. Calls /\ Objects /\ Places /\ UseInv /\ PlaceInv /\ CodeInv /\ table \in Seq(Structs)
  BY Shapes
<1>1. /\ pc[p] = "att_get" /\ UNCHANGED <<table, eng, works, taken, tk, rep>>
      /\ GetStruct(p, "att_eng", "att_alloc", "0")
      /\ ~raced' => \A q \in Procs : q # p => ~BeingMade(q)
  BY DEF AttachGet, GetStruct, kernel
<1>2. PICK c : /\ NewCall(p, c) /\ SameCall(p, c) /\ c.e = at[p].e /\ c.k = at[p].k
               /\ Objects' /\ Unmoved /\ SameAdded
               /\ \/ /\ c.s = NoStruct /\ UNCHANGED u /\ c.rc = "0" /\ Goto(p, "att_alloc")
                     /\ Lookup = NoStruct
                  \/ /\ c.s \in Structs /\ table # <<>> /\ c.s = Head(table)
                     /\ u[c.s].ref > 0 /\ Goto(p, "att_eng") /\ Counts(c.s, 1)
                     /\ c.found /\ c.rc = at[p].rc
  <2>1. "0" \in ReturnCodes
    BY DEF ReturnCodes
  <2>2. PICK f : f = "att_eng"
    OBVIOUS
  <2>3. GetStruct(p, f, "att_alloc", "0")
    BY <1>1, <2>2
  <2>4. \E c : /\ NewCall(p, c) /\ SameCall(p, c) /\ c.e = at[p].e /\ c.k = at[p].k
              /\ Objects' /\ Unmoved /\ SameAdded
              /\ \/ /\ c.s = NoStruct /\ ~c.found /\ Goto(p, "att_alloc") /\ UNCHANGED u
                    /\ Lookup = NoStruct /\ c.rc = "0"
                 \/ /\ c.s \in Structs /\ table # <<>> /\ c.s = Head(table)
                    /\ u[c.s].ref > 0 /\ Goto(p, f) /\ Counts(c.s, 1)
                    /\ c.found = (f = "att_eng") /\ c.rc = at[p].rc
    BY <1>s, <2>1, <2>3, GetEffect
  <2> QED
    BY <2>2, <2>4
<1>3. Calling(p) /\ Stays(p) /\ at'[p] = c /\ pc'[p] \in {"att_alloc", "att_eng"}
  <2>1. \E l \in {"att_alloc", "att_eng"} : Goto(p, l)
    BY <1>2
  <2> QED
    BY <1>s, <1>1, <1>2, <2>1, OthersStay DEF Calling, CallLabels, Stays, NewCall
<1>4. NoGain
  <2>1. ~utrace_add_engine(p)
    BY <1>1 DEF utrace_add_engine
  <2> QED
    BY <2>1, Shapes, AttachUses DEF AttachStep
<1>5. NoNewWork
  BY <1>1, NoNewWorks
<1>r. (\A t : ~CallHolds(p, t) /\ ~Making(p, t)) /\ ~BeingMade(p)
  BY <1>1, Rested DEF UsesStruct
<1>a. ~AttachedBy(p)'
  BY <1>3 DEF AttachedBy, WithEngine, UsesEngine, PutLabels
<1>c. p = "stap" => CodeInv' /\ ~GaveUp
  <2>1. p = "stap" => ~Failing' /\ pc["stap"] \in CallLabels \ {"att_fail"}
    BY <1>1, <1>3 DEF Failing, PutLabels, CallLabels
  <2> QED
    BY <1>s, <1>1, <1>2, <1>3, <2>1, CodeCall
<1>k. Calling(p)' /\ at'[p].act = at[p].act /\ at'[p].ret = at[p].ret
  BY <1>2, <1>3 DEF Calling, CallLabels, SameCall
<1>p. p = "task" => /\ LessPass /\ ~TracepointPuts
                    /\ \A t \in Structs : PassRefs(t)' = PassRefs(t) /\ (InUse(t)' <=> InUse(t))
  BY <1>1, <1>3, <1>k, CallPass
<1>6. ControlInv'
  BY <1>1, <1>2, <1>3, <1>5, <1>c, <1>k, CallControl2
<1>7. ASSUME HeldInv, ~raced', c.s = NoStruct, UNCHANGED u, Goto(p, "att_alloc"), Lookup = NoStruct
      PROVE  HeldInv'
  <2>1. pc'[p] = "att_alloc"
    BY <1>s, <1>2, <1>7, OthersStay
  <2>2. \A s \in Structs : u[s].ref = 0
    <3>1. table = <<>> \/ ~(u[Head(table)].ref > 0)
      BY <1>s, <1>7, LookupFinds
    <3>2. \A s \in Structs : u[s].ref \in Nat
      BY <1>s, <1>7, Counted DEF HeldInv
    <3> QED
      BY <1>7, <3>1, <3>2 DEF HeldInv, OneCurrent
  <2>3. MayMake(p)
    BY <1>1, <1>3, <1>7, <2>2 DEF MayMake
  <2>4. LessHeld(p)
    BY <1>a, <2>1, <2>3 DEF LessHeld, LessCall, Making, CallHolds
  <2>5. EngineHeld'
    BY <1>1, <1>4, <1>7, EnginesStay
  <2> QED
    BY <1>s, <1>1, <1>2, <1>3, <1>5, <1>7, <1>c, <1>p, <2>1, <2>4, <2>5, MoveHeld DEF ListOf
<1>8. ASSUME HeldInv, ~raced', c.s \in Structs, table # <<>>, c.s = Head(table),
             u[c.s].ref > 0, Goto(p, "att_eng"), Counts(c.s, 1), c.found
      PROVE  HeldInv'
  <2>1. pc'[p] = "att_eng"
    BY <1>s, <1>2, <1>8, OthersStay
  <2>2. \A q \in Procs : ~Making(q, c.s)
    BY <1>1, <1>r, <1>8, MakesStruct
  <2> QED
    BY <1>1, <1>2, <1>3, <1>4, <1>8, <1>a, <1>c, <1>p, <2>1, <2>2, FoundHeld
<1> QED
  BY <1>2, <1>6, <1>7, <1>8 DEF KeepsHeld

(* No struct has a reference: nobody holds any.                             *)
LEMMA NoneHeld ==
    ASSUME Sound, HeldInv, \A s \in Structs : u[s].ref = 0
    PROVE  \A s \in Structs : /\ PassRefs(s) = 0 /\ WorkRefs(s) = 0 /\ ~Owned(s)
                              /\ ~CallHolds("stap", s) /\ ~CallHolds("task", s)
<1> SUFFICES ASSUME NEW s \in Structs
             PROVE  /\ PassRefs(s) = 0 /\ WorkRefs(s) = 0 /\ ~Owned(s)
                    /\ ~CallHolds("stap", s) /\ ~CallHolds("task", s)
  OBVIOUS
<1>1. ~(u[s].ref > 0)
  OBVIOUS
<1>2. Objects /\ RefsCounted
  BY Shapes DEF HeldInv
<1> QED
  BY <1>1, <1>2, Counted, Parts

(* utrace_task_alloc() makes the struct s of the task.                      *)
LEMMA MadeHeld ==
    ASSUME Sound, HeldInv, NEW p \in Procs, NEW s \in Structs, pc[p] = "att_alloc", Made(p, s),
           Stays(p), pc'[p] = "att_eng", UNCHANGED <<eng, works, taken, tk, rep>>, NoGain
    PROVE  HeldInv'
<1>s. Objects /\ UseInv
  BY Shapes
<1>0. \A t \in Structs : u[t].ref = 0
  BY DEF HeldInv, MakingInv
<1>1. at'[p].s = s /\ ~at'[p].found /\ SameCall(p, at'[p])
  BY <1>s DEF Made, NewCall, UseInv
<1>2. \A q \in Procs : q # p => ~BeingMade(q)
  <2>1. BeingMade(p)
    BY DEF BeingMade
  <2> QED
    BY <2>1 DEF HeldInv, MakingInv, Procs
<1>3. \A q \in Procs : q # p => /\ ~BeingMade(q)' /\ pc'[q] # "att_alloc"
                                /\ \A t \in Structs : ~Making(q, t)' /\ ~CallHolds(q, t)'
  <2> SUFFICES ASSUME NEW q \in Procs, q # p
               PROVE  /\ ~BeingMade(q)' /\ pc'[q] # "att_alloc"
                      /\ \A t \in Structs : ~Making(q, t)' /\ ~CallHolds(q, t)'
    OBVIOUS
  <2>1. pc'[q] = pc[q] /\ at'[q] = at[q]
    BY DEF Stays
  <2>2. ~BeingMade(q)' /\ pc'[q] # "att_alloc"
    BY <1>2, <2>1 DEF BeingMade
  <2>3. \A t \in Structs : ~CallHolds(q, t)
    BY <1>0, NoneHeld DEF Procs
  <2> QED
    BY <2>1, <2>2, <2>3 DEF CallHolds, Making, BeingMade
<1>4. \A t \in Structs : (Making(p, t)' <=> t = s) /\ ~CallHolds(p, t)'
  BY <1>1 DEF Making, CallHolds
<1>5. \A t \in Structs : PassRefs(t)' = 0
  <2>1. \A t \in Structs : PassRefs(t)' = PassRefs(t)
    <3>1. CASE p = "task"
      <4>1. Calling("task") /\ Calling("task")' /\ at'["task"].ret = at["task"].ret
        BY <1>1, <3>1 DEF Calling, CallLabels, SameCall
      <4> QED
        BY <4>1, CallPass
    <3>2. CASE p = "stap"
      BY <3>2, PassStays DEF Stays, Procs
    <3> QED
      BY <3>1, <3>2 DEF Procs
  <2> QED
    BY <1>0, <2>1, NoneHeld
<1>6. \A t \in Structs : WorkRefs(t)' = 0
  <2>1. \A t \in Structs : WorkRefs(t)' = WorkRefs(t)
    BY DEF WorkRefs, Resume, Report
  <2> QED
    BY <1>0, <2>1, NoneHeld
<1>7. \A t \in Structs : t # s => u'[t] = u[t] /\ u'[t].ref = 0 /\ ListOf(t)' = ListOf(t)
  BY <1>0 DEF Made, ListOf
<1>8. u'[s].ref = 1 /\ u'[s].flags = {} /\ u'[s].mem = "live" /\ u[s].mem = "unused"
  BY DEF Made
<1>9. RefsCounted'
  <2> SUFFICES ASSUME NEW t \in Structs PROVE u'[t].ref >= Refs(t)'
    BY DEF RefsCounted
  <2>1. One(CallHolds("stap", t)') = 0 /\ One(CallHolds("task", t)') = 0
    BY <1>3, <1>4 DEF One, Procs
  <2>2. CASE t = s
    BY <1>5, <1>6, <1>8, <2>1, <2>2, PartsNext
  <2>3. CASE t # s
    <3>1. ~Owned(t)'
      BY <1>3, <1>4, <1>7, <2>3 DEF Owned, Procs
    <3> QED
      BY <1>5, <1>6, <1>7, <2>1, <2>3, <3>1, PartsNext DEF One
  <2> QED
    BY <2>2, <2>3
<1>10. OneCurrent'
  BY <1>7 DEF OneCurrent, Made
<1>11. MakingInv'
  <2>1. ~Busy(s)'
    BY <1>3, <1>4, <1>5, <1>6 DEF Busy, InUse, Procs
  <2>2. \A q \in Procs, t \in Structs : Making(q, t)' => t = s
    BY <1>3, <1>4
  <2>3. ~(BeingMade("stap")' /\ BeingMade("task")')
    BY <1>3 DEF Procs
  <2> QED
    BY <1>3, <1>8, <2>1, <2>2, <2>3 DEF MakingInv
<1>12. EmptyInv'
  BY <1>7, <1>8 DEF HeldInv, EmptyInv
<1>13. AttachedInv'
  <2>1. ~AttachedBy(p)'
    BY DEF AttachedBy, WithEngine, UsesEngine, PutLabels
  <2>2. \A q \in Procs : q # p /\ AttachedBy(q)' => AttachedBy(q)
    BY DEF Stays, AttachedBy, WithEngine
  <2>3. ~(\E t \in Structs : u[t].ref > 0)
    BY <1>0
  <2> QED
    BY <2>1, <2>2, <2>3 DEF HeldInv, AttachedInv, Procs
<1>14. CleanInv'
  <2>1. \A q \in Procs : pc'[q] = "cleanup" => q # p /\ pc[q] = "cleanup" /\ at'[q] = at[q]
    BY DEF Stays
  <2>2. \A q \in Procs : pc[q] = "cleanup" => /\ at[q].s \in Structs /\ at[q].s # s
                                              /\ u'[at[q].s] = u[at[q].s]
    BY <1>s, <1>7, <1>8 DEF UseInv, UsesStruct, HeldInv, CleanInv
  <2> QED
    BY <2>1, <2>2 DEF HeldInv, CleanInv, Procs
<1>15. EngineHeld'
  BY EnginesStay
<1> QED
  BY <1>9, <1>10, <1>11, <1>12, <1>13, <1>14, <1>15 DEF HeldInv

(* utrace_task_alloc(): there was no struct, and now there is one, or none.  *)
LEMMA AllocHeld ==
    ASSUME Sound, ~Oops, NEW p \in Procs, utrace_task_alloc(p)
    PROVE  KeepsHeld
<1>s. Calls /\ Objects /\ Places /\ UseInv /\ PlaceInv /\ LifeInv /\ WorkInv /\ CodeInv
      /\ table \in Seq(Structs)
  BY Shapes
<1>1. pc[p] = "att_alloc" /\ UNCHANGED <<eng, works, taken, tk, rep>> /\ Calling(p)
  BY DEF utrace_task_alloc, kernel, Calling, CallLabels
<1>2. NoGain
  <2>1. ~utrace_add_engine(p)
    BY <1>1 DEF utrace_add_engine
  <2> QED
    BY <2>1, Shapes, AttachUses DEF AttachStep
<1>3. NoNewWork
  BY <1>1, NoNewWorks
<1>4. p = "stap" => ~GaveUp
  BY <1>s, <1>1 DEF GaveUp, CodeInv, Failing, PutLabels, StopLabels
<1>5. ASSUME NEW s \in Structs, Made(p, s), Goto(p, "att_eng") PROVE KeepsHeld
  <2>1. PICK c : NewCall(p, c) /\ SameCall(p, c) /\ c.rc = at[p].rc
    BY <1>5 DEF Made
  <2>2. pc'[p] = "att_eng" /\ Stays(p) /\ at'[p] = c
    BY <1>s, <1>5, <2>1, OthersStay DEF Stays, NewCall
  <2>3. HeldInv => HeldInv'
    BY <1>1, <1>2, <1>5, <2>2, MadeHeld
  <2>4. WorkInv'
    <3>1. /\ Resume(s) \notin works \cup taken /\ Report(s) \notin works \cup taken
      BY <1>s, <1>5, WorkDistinct DEF UseInv, Made
    <3>2. \A t \in Structs : t # s => u'[t] = u[t]
      BY <1>5 DEF Made
    <3> QED
      BY <1>s, <1>1, <3>1, <3>2 DEF WorkInv, Resume, Report
  <2>5. Calling(p)' /\ at'[p].act = at[p].act
    BY <2>1, <2>2 DEF Calling, CallLabels, SameCall
  <2>6. CASE p = "task"
    <3>1. LifeInv'
      BY <1>s, <1>1, <1>3, <2>2, <2>5, <2>6, LifeKept DEF LifeInv
    <3>2. CodeInv'
      BY <1>s, <1>1, <2>2, <2>6, CodeKept DEF Stays, Procs
    <3> QED
      BY <2>3, <2>4, <3>1, <3>2 DEF KeepsHeld, ControlInv
  <2>7. CASE p = "stap"
    <3>1. LifeInv'
      BY <1>s, <1>1, <1>3, <2>2, <2>7, LifeStays DEF Stays, Procs
    <3>2. CodeInv'
      <4>1. pc["stap"] \in CallLabels \ {"att_fail"} /\ ~Failing'
        BY <1>1, <2>2, <2>7 DEF CallLabels, Failing, PutLabels
      <4> QED
        BY <1>s, <1>1, <2>1, <2>2, <2>7, <4>1, CodeCall
    <3> QED
      BY <2>3, <2>4, <3>1, <3>2 DEF KeepsHeld, ControlInv
  <2> QED
    BY <2>6, <2>7 DEF Procs
<1>6. ASSUME UNCHANGED <<u, table>>, Goto(p, at[p].ret), NEW c, NewCall(p, c), c.rc = "ENOMEM"
      PROVE  KeepsHeld
  <2>1. pc'[p] = at[p].ret /\ Stays(p) /\ at'[p] = c
    BY <1>s, <1>6, OthersStay DEF Stays, NewCall
  <2>2. LessHeld(p) /\ ~Calling(p)' /\ pc'[p] \notin {"user", "tp_get"}
    BY <1>s, <1>1, <1>6, <2>1, ReturnLess DEF LessHeld, LessCall
  <2>3. p = "stap" => CodeInv'
    BY <1>s, <1>1, <1>6, <2>1, ReturnLess DEF CodeInv
  <2>4. p = "task" => LessPass /\ ~TracepointPuts
    BY <1>s, <1>1, <2>1, ReturnPass
  <2>5. SameAdded /\ Objects' /\ \A s \in Structs : u'[s] = u[s] /\ ListOf(s)' = ListOf(s)
    BY <1>s, <1>6, MemEffects, SameMemory DEF ListOf
  <2>6. HeldInv => EngineHeld'
    BY <1>1, <1>2, EnginesStay
  <2> QED
    BY <1>1, <1>3, <1>4, <1>6, <2>1, <2>2, <2>3, <2>4, <2>5, <2>6, CallHeld
<1> QED
  BY <1>s, <1>5, <1>6, AllocEffect

(* While a struct is in use none is being made.                             *)
LEMMA BusyAlone ==
    ASSUME Sound, HeldInv, NEW s \in Structs, Busy(s)
    PROVE  \A q \in Procs : ~BeingMade(q) /\ \A t \in Structs : ~Making(q, t)
<1> SUFFICES ASSUME NEW q \in Procs, BeingMade(q) PROVE FALSE
  BY MakesStruct
<1>s. Objects /\ UseInv /\ RefsCounted
  BY Shapes DEF HeldInv
<1>1. u[s].ref > 0
  BY <1>s, Counted
<1>2. pc[q] # "att_alloc"
  BY <1>1 DEF HeldInv, MakingInv
<1>3. at[q].s \in Structs /\ Making(q, at[q].s)
  BY <1>s, <1>2 DEF BeingMade, Making, UseInv, UsesStruct
<1>4. u[at[q].s].ref > 0
  BY <1>s, <1>3, Counted
<1>5. at[q].s = s
  BY <1>1, <1>3, <1>4 DEF HeldInv, OneCurrent
<1> QED
  BY <1>3, <1>5 DEF HeldInv, MakingInv

(* utrace_add_engine() queued e on s: the attacher has a reference on it, and
   there is a struct now that stays as long as the task lives.               *)
LEMMA QueuedHeld ==
    ASSUME Sound, HeldInv, NEW p \in Procs, NEW s \in Structs, NEW e \in Engines,
           pc[p] = "att_eng", at[p].s = s, Queued(p, s, e), Stays(p),
           pc'[p] = (IF at[p].found THEN "put" ELSE "ev_get"),
           UNCHANGED <<table, works, taken, tk, rep>>, p = "stap" => ~GaveUp
    PROVE  HeldInv'
<1>s. Objects /\ UseInv /\ RefsCounted /\ Calls /\ Objects'
  BY Shapes DEF HeldInv, Queued
<1>1. at'[p].s = s /\ ~at'[p].found /\ at'[p].e = e /\ at'[p].k = "ev_get"
      /\ at'[p].act = at[p].act /\ at'[p].ret = at[p].ret
  BY DEF Queued, NewCall, SameCall
<1>2. CallHolds(p, s) \/ Making(p, s)
  <2>1. at[p].found \in BOOLEAN
    BY <1>s DEF Calls, CallRecord
  <2> QED
    BY <2>1 DEF CallHolds, Making
<1>3. u[s].ref > 0
  BY <1>s, <1>2, Counted
<1>4. \A q \in Procs : q # p => ~BeingMade(q) /\ \A t \in Structs : ~Making(q, t)
  <2>1. CASE CallHolds(p, s)
    <3>1. Busy(s)
      BY <2>1 DEF Busy, Procs
    <3> QED
      BY <3>1, BusyAlone
  <2>2. CASE Making(p, s)
    BY <2>2, MakesStruct DEF HeldInv, MakingInv, Procs
  <2> QED
    BY <1>2, <2>1, <2>2
<1>5. /\ \A t \in Structs : ~Making(p, t)' /\ (CallHolds(p, t)' => CallHolds(p, t))
      /\ ~BeingMade(p)' /\ pc'[p] # "att_alloc" /\ pc'[p] # "cleanup"
  BY <1>1 DEF Making, CallHolds, BeingMade
<1>6. \A q \in Procs : /\ LessCall(q)
                       /\ \A t \in Structs : ~Making(q, t)' /\ (CallHolds(q, t)' => CallHolds(q, t))
  <2>1. LessCall(p)
    BY <1>3, <1>4, <1>5 DEF LessCall
  <2>2. ASSUME NEW q \in Procs, q # p
        PROVE  /\ LessCall(q)
               /\ \A t \in Structs : ~Making(q, t)' /\ (CallHolds(q, t)' => CallHolds(q, t))
    BY <1>4, <2>2, StaysLess DEF Stays, Making
  <2> QED
    BY <1>5, <2>1, <2>2
<1>7. /\ \A t \in Structs : PassRefs(t)' = PassRefs(t)
      /\ p = "task" => ~TracepointPuts
  <2>1. CASE p = "task"
    <3>1. Calling("task") /\ Calling("task")'
      BY <1>1, <2>1 DEF Calling, CallLabels, PutLabels, CallPuts
    <3> QED
      BY <1>1, <2>1, <3>1, CallPass
  <2>2. CASE p = "stap"
    BY <2>2, PassStays DEF Stays, Procs
  <2> QED
    BY <2>1, <2>2 DEF Procs
<1>8. \A t \in Structs : WorkRefs(t)' = WorkRefs(t)
  BY DEF WorkRefs, Resume, Report
<1>9. \A t \in Structs : u'[t].ref = u[t].ref /\ u'[t].mem = u[t].mem
                         /\ (t # s => ListOf(t)' = ListOf(t))
  BY DEF Queued, SameRefs, ListOf
<1>10. \A t \in Structs : Owned(t)' => Owned(t)
  <2>1. \A t \in Structs : ~Orphan(t)
    BY <1>7 DEF Orphan, Procs
  <2>2. pc'["task"] = "tp_get" => pc["task"] = "tp_get"
    BY DEF Stays, Procs
  <2> QED
    BY <1>6, <1>9, <2>1, <2>2, OwnedKept
<1>11. CountsRise
  <2>1. \A t \in Structs : Refs(t)' <= Refs(t)
    <3> SUFFICES ASSUME NEW t \in Structs PROVE Refs(t)' <= Refs(t)
      OBVIOUS
    <3>1. PassRefs(t)' <= PassRefs(t) /\ WorkRefs(t)' <= WorkRefs(t)
      BY <1>7, <1>8, Parts
    <3> QED
      BY <1>6, <1>10, <3>1, RefsFall
  <2>2. \A t \in Structs : u[t].ref \in Int /\ Refs(t) \in Nat /\ Refs(t)' \in Nat
    BY <1>s, Parts, PartsNext DEF Objects, StructRecord
  <2>3. \A t \in Structs : u[t].ref = 0 => ListOf(t)' \subseteq ListOf(t)
    BY <1>3, <1>9
  <2> QED
    BY <1>9, <2>1, <2>2, <2>3 DEF CountsRise
<1>12. EngineHeld'
  <2> SUFFICES ASSUME ~tk'.exiting, NEW q \in Procs, NEW d \in Engines, HasEngine(q, d)'
               PROVE  eng'[d].mem = "live"
    BY DEF EngineHeld
  <2>1. CASE q = p
    <3>1. d = e
      BY <1>1, <2>1 DEF HasEngine
    <3> QED
      BY <3>1 DEF Queued
  <2>2. CASE q # p
    <3>1. HasEngine(q, d)
      BY <2>2 DEF Stays, HasEngine, WithEngine
    <3>2. eng[d].mem = "live"
      BY <3>1 DEF HeldInv, EngineHeld
    <3> QED
      BY <3>2 DEF Queued
  <2> QED
    BY <2>1, <2>2
<1> QED
  BY <1>s, <1>6, <1>11, <1>12, HeldKept

(* utrace_add_engine()                                                      *)
LEMMA AddHeld ==
    ASSUME Sound, ~Oops, NEW p \in Procs, utrace_add_engine(p)
    PROVE  KeepsHeld
<1>s. Calls /\ Objects /\ Handles /\ Places /\ UseInv /\ PlaceInv /\ LifeInv /\ CodeInv
  BY Shapes
<1>1. pc[p] = "att_eng" /\ UNCHANGED <<table, works, taken, tk, rep>> /\ Calling(p)
  BY DEF utrace_add_engine, kernel, Calling, CallLabels
<1>2. PICK s \in Structs : at[p].s = s
  BY <1>s, <1>1 DEF UseInv, UsesStruct
<1>3. NoNewWork
  BY <1>1, NoNewWorks
<1>4. p = "stap" => ~GaveUp
  BY <1>s, <1>1 DEF GaveUp, CodeInv, Failing, PutLabels, StopLabels
<1>5. ASSUME NEW e \in Engines, Queued(p, s, e), Goto(p, IF at[p].found THEN "put" ELSE "ev_get")
      PROVE  KeepsHeld
  <2>1. PICK c : NewCall(p, c) /\ SameCall(p, c) /\ c.rc = at[p].rc /\ c.k = "ev_get"
    BY <1>5 DEF Queued
  <2>2. pc'[p] = (IF at[p].found THEN "put" ELSE "ev_get") /\ Stays(p) /\ at'[p] = c
    BY <1>s, <1>5, <2>1, OthersStay DEF Stays, NewCall
  <2>3. HeldInv => HeldInv'
    BY <1>1, <1>2, <1>4, <1>5, <2>2, QueuedHeld
  <2>4. SameAdded /\ pc'[p] \notin {"user", "tp_get"} /\ at'[p].act = at[p].act
    BY <1>5, <2>1, <2>2 DEF Queued, SameCall
  <2>5. p = "stap" => CodeInv'
    <3>1. p = "stap" => pc["stap"] \in CallLabels \ {"att_fail"} /\ ~Failing'
      BY <1>1, <2>1, <2>2 DEF CallLabels, Failing
    <3> QED
      BY <1>s, <1>1, <2>1, <2>2, <3>1, CodeCall
  <2>6. ControlInv'
    BY <1>1, <1>3, <2>2, <2>4, <2>5, CallControl2
  <2> QED
    BY <2>3, <2>6 DEF KeepsHeld
<1>6. ASSUME UNCHANGED <<u, eng>>, Goto(p, "put"), NEW c, NewCall(p, c), SameCall(p, c), c.s = s,
             c.found = at[p].found, c.k = "att_fail",
             c.rc = "ENOMEM" \/ (c.rc = "ESRCH" /\ tk.exit = "dead")
      PROVE  KeepsHeld
  <2>1. pc'[p] = "put" /\ Stays(p) /\ at'[p] = c /\ at'[p].act = at[p].act
        /\ at'[p].ret = at[p].ret
    BY <1>s, <1>6, OthersStay DEF Stays, NewCall, SameCall
  <2>2. ~WithEngine(p)' /\ ~AttachedBy(p)' /\ Calling(p)'
    BY <1>6, <2>1 DEF AttachedBy, WithEngine, UsesEngine, PutLabels, Calling, CallPuts
  <2>3. LessHeld(p)
    BY <1>1, <1>2, <1>6, <2>1, <2>2
       DEF LessHeld, LessCall, Making, BeingMade, CallHolds
  <2>4. p = "stap" => CodeInv'
    <3>1. p = "stap" => Failing'
      BY <1>6, <2>1 DEF Failing, PutLabels
    <3> QED
      BY <1>s, <1>1, <1>6, <2>1, <3>1 DEF CodeInv, LifeInv
  <2>5. p = "task" => LessPass /\ ~TracepointPuts
    BY <1>1, <2>1, <2>2, CallPass
  <2>6. SameAdded /\ Objects' /\ \A t \in Structs : u'[t] = u[t] /\ ListOf(t)' = ListOf(t)
    BY <1>s, <1>6, MemEffects, SameMemory DEF ListOf
  <2>7. HeldInv => EngineHeld'
    <3>1. NoGain
      BY <2>1, <2>2, Gains DEF Stays, HasEngine
    <3> QED
      BY <1>1, <1>6, <3>1, EnginesStay
  <2> QED
    BY <1>1, <1>3, <1>4, <2>1, <2>2, <2>3, <2>4, <2>5, <2>6, <2>7, CallHeld
<1> QED
  BY <1>s, <1>2, <1>5, <1>6, AddEffect

(* A call met a freed engine, and the model stops.                          *)
LEMMA OopsHeld ==
    ASSUME Sound, NEW p \in Procs, Calling(p), pc[p] \in CallLabels \ {"att_fail"}, Goto(p, "oops"),
           UNCHANGED <<u, eng, at, works, taken, tk, rep, table>>
    PROVE  KeepsHeld
<1>s. Objects /\ Places /\ CodeInv
  BY Shapes
<1>1. pc'[p] = "oops" /\ Stays(p) /\ at'[p] = at[p]
  BY <1>s, OthersStay DEF Stays
<1>2. ~WithEngine(p)' /\ ~AttachedBy(p)' /\ Calling(p)'
  BY <1>1 DEF AttachedBy, WithEngine, UsesEngine, PutLabels, Calling, CallLabels
<1>3. LessHeld(p)
  BY <1>1, <1>2, Rests DEF LessHeld, LessCall, UsesStruct
<1>4. p = "stap" => CodeInv' /\ ~GaveUp
  <2>1. p = "stap" => ~Failing'
    BY <1>1 DEF Failing, PutLabels
  <2> QED
    BY <1>s, <1>1, <2>1, CodeCall
<1>5. p = "task" => LessPass /\ ~TracepointPuts
  BY <1>1, <1>2, CallPass
<1>6. NoNewWork /\ SameAdded /\ Objects' /\ \A t \in Structs : u'[t] = u[t] /\ ListOf(t)' = ListOf(t)
  BY <1>s, NoNewWorks, MemEffects, SameMemory DEF ListOf
<1>7. HeldInv => EngineHeld'
  <2>1. NoGain
    BY <1>1, <1>2, Gains DEF Stays, HasEngine
  <2> QED
    BY <2>1, EnginesStay
<1> QED
  BY <1>1, <1>2, <1>3, <1>4, <1>5, <1>6, <1>7, CallHeld

(* utrace_set_events()                                                      *)
LEMMA SetEventsHeld ==
    ASSUME Sound, ~Oops, NEW p \in Procs, utrace_set_events(p)
    PROVE  KeepsHeld
<1>s. Calls /\ Objects /\ Handles /\ Places /\ UseInv /\ PlaceInv /\ CodeInv
  BY Shapes
<1>1. /\ pc[p] = "ev_set" /\ UNCHANGED <<table, works, taken, tk, rep>> /\ Calling(p)
      /\ pc[p] \in CallLabels \ {"att_fail"}
  BY DEF utrace_set_events, kernel, Calling, CallLabels
<1>2. PICK s \in Structs : at[p].s = s
  BY <1>s, <1>1 DEF UseInv, UsesStruct
<1>3. at[p].e \in Engines
  BY <1>s, <1>1 DEF UseInv, WithEngine, UsesEngine
<1>4. CASE Goto(p, "oops") /\ UNCHANGED <<u, eng, at>>
  BY <1>1, <1>4, OopsHeld
<1>5. CASE EventsSet(p, s) /\ Goto(p, "put")
  <2>1. PICK c : /\ NewCall(p, c) /\ SameCall(p, c) /\ c.s = s /\ c.e = at[p].e
                 /\ c.rc \in {"0", "ESRCH", "EALREADY"}
                 /\ \/ at[p].act = "NONE" /\ c.k = at[p].ret
                    \/ at[p].act # "NONE" /\ c.k \in {"ctl_get", "eng_put"}
    BY <1>5 DEF EventsSet
  <2>2. /\ pc'[p] = "put" /\ Stays(p) /\ at'[p] = c /\ at'[p].act = at[p].act
        /\ at'[p].ret = at[p].ret
    BY <1>s, <1>5, <2>1, OthersStay DEF Stays, NewCall, SameCall
  <2>3. c.k \in {"q_add", "ctl_get", "eng_put"} /\ (c.k = "q_add" => at[p].act = "NONE")
    <3>1. at[p].act = "NONE" => p = "task" /\ at[p].ret = "q_add"
      BY <1>s, <1>1 DEF PlaceInv, TaskPlace, StapPlace, Procs
    <3> QED
      BY <2>1, <3>1
  <2>4. Calling(p)' /\ CallHolds(p, s) /\ (AttachedBy(p)' => AttachedBy(p))
        /\ pc'[p] \notin {"user", "tp_get"}
    BY <1>1, <1>2, <2>2, <2>3
       DEF Calling, PutLabels, CallPuts, CallHolds, AttachedBy, WithEngine, UsesEngine
  <2>5. LessHeld(p)
    BY <1>1, <1>2, <2>1, <2>2, <2>3, <2>4 DEF LessHeld, LessCall, Making, BeingMade, CallHolds
  <2>6. p = "stap" => CodeInv' /\ ~GaveUp
    <3>1. p = "stap" => ~Failing'
      BY <2>2, <2>3 DEF Failing
    <3> QED
      BY <1>s, <1>1, <2>1, <2>2, <3>1, CodeCall
  <2>7. p = "task" => LessPass /\ ~TracepointPuts
    BY <1>1, <2>2, <2>4, CallPass
  <2>8. /\ NoNewWork /\ SameAdded /\ Objects'
        /\ \A t \in Structs : /\ u'[t].ref = u[t].ref /\ u'[t].mem = u[t].mem /\ ListOf(t)' = ListOf(t)
                              /\ t # s => u'[t].flags = u[t].flags
    BY <1>1, <1>5, NoNewWorks DEF EventsSet, SameRefs, ListOf
  <2>9. HeldInv => EngineHeld'
    <3>1. ~utrace_add_engine(p)
      BY <1>1 DEF utrace_add_engine
    <3>2. NoGain
      BY <3>1, Shapes, AttachUses DEF AttachStep
    <3>3. \A e \in Engines : eng'[e].mem = eng[e].mem
      BY <1>5 DEF EventsSet, SameEngines
    <3> QED
      BY <1>1, <3>2, <3>3, EnginesStay
  <2>10. Busy(s)
    BY <2>4 DEF Busy, Procs
  <2> QED
    BY <1>1, <2>2, <2>4, <2>5, <2>6, <2>7, <2>8, <2>9, <2>10, CallHeld
<1> QED
  BY <1>s, <1>2, <1>3, <1>4, <1>5, SetEventsEffect

(* stp_task_notify_resume() adds one work with one reference.               *)
LEMMA NotifiedWork ==
    ASSUME Sound, NEW s \in Structs, Notified(s), UNCHANGED taken
    PROVE  /\ WorkInv' /\ FewerReports
           /\ \A t \in Structs : WorkRefs(t)' <= WorkRefs(t) + One(t = s)
<1>s. WorkInv
  BY Shapes
<1>0. \A t : Resume(t)' = Resume(t) /\ Report(t)' = Report(t)
  BY DEF Resume, Report
<1>1. works' = works \cup {Resume(s)} /\ ~u[s].resumeAdded
      /\ \A t \in Structs : /\ u'[t].resumeAdded = (t = s \/ u[t].resumeAdded)
                            /\ u'[t].reportAdded = u[t].reportAdded
  BY DEF Notified
<1>2. Resume(s) \notin works \cup taken
  BY <1>s, <1>1 DEF WorkInv
<1>3. \A t \in Structs : /\ Report(t) \in works' <=> Report(t) \in works
                         /\ Resume(t) \in works' <=> Resume(t) \in works \/ t = s
  BY <1>1, WorkDistinct
<1>4. FewerReports
  BY <1>3 DEF FewerReports
<1>5. WorkInv'
  BY <1>s, <1>0, <1>1, <1>2, <1>3 DEF WorkInv
<1>6. \A t \in Structs : WorkRefs(t)' <= WorkRefs(t) + One(t = s)
  <2> SUFFICES ASSUME NEW t \in Structs PROVE WorkRefs(t)' <= WorkRefs(t) + One(t = s)
    OBVIOUS
  <2>1. One(Resume(t) \in works' \cup taken') <= One(Resume(t) \in works \cup taken) + One(t = s)
    BY <1>3 DEF One
  <2>2. One(Report(t) \in works' \cup taken') = One(Report(t) \in works \cup taken)
    BY <1>3 DEF One
  <2>3. /\ WorkRefs(t)' = One(Resume(t) \in works' \cup taken') + 2 * One(Report(t) \in works' \cup taken')
        /\ WorkRefs(t) = One(Resume(t) \in works \cup taken) + 2 * One(Report(t) \in works \cup taken)
    BY <1>0 DEF WorkRefs, One
  <2>4. /\ One(Resume(t) \in works' \cup taken') \in {0, 1} /\ One(t = s) \in {0, 1}
        /\ One(Resume(t) \in works \cup taken) \in {0, 1}
        /\ One(Report(t) \in works \cup taken) \in {0, 1}
    BY DEF One
  <2> QED
    BY <2>1, <2>2, <2>3, <2>4
<1> QED
  BY <1>4, <1>5, <1>6

(* utrace_control() or a pass that holds s queued the resume work of s.      *)
LEMMA NotifiedHeld ==
    ASSUME Sound, HeldInv, NEW p \in Procs, NEW s \in Structs, Notified(s), Busy(s), Stays(p),
           LessHeld(p), UNCHANGED <<table, eng, taken, tk, rep>>, NoGain,
           pc'["task"] = "tp_get" => pc["task"] = "tp_get",
           p = "task" => ~TracepointPuts /\ \A t \in Structs : PassRefs(t)' = PassRefs(t),
           p = "stap" => ~GaveUp
    PROVE  HeldInv'
<1>s. Objects /\ UseInv /\ RefsCounted /\ Objects'
  BY Shapes DEF HeldInv, Notified
<1>1. u[s].ref > 0
  BY <1>s, Counted
<1>2. \A t \in Structs : u[t].ref \in Int /\ u'[t].ref = u[t].ref + One(t = s)
  BY <1>s DEF Notified, Counts, One, Objects, StructRecord
<1>3. \A q \in Procs : LessHeld(q)
  BY StaysLess DEF Stays, LessHeld
<1>4. \A q \in Procs, t \in Structs : ~Making(q, t)
  BY BusyAlone
<1>5. \A t \in Structs : PassRefs(t)' = PassRefs(t)
  BY PassStays DEF Stays, Procs
<1>6. \A t \in Structs : Owned(t)' => Owned(t)
  <2>1. \A t \in Structs : ~Orphan(t)
    BY DEF Orphan, Procs
  <2>2. \A t \in Structs : u'[t].ref > 0 => u[t].ref > 0
    BY <1>1, <1>2 DEF One
  <2> QED
    BY <1>3, <2>1, <2>2, OwnedKept DEF LessHeld, LessCall
<1>7. \A t \in Structs : Refs(t)' + u[t].ref <= Refs(t) + u'[t].ref
  <2> SUFFICES ASSUME NEW t \in Structs PROVE Refs(t)' + u[t].ref <= Refs(t) + u'[t].ref
    OBVIOUS
  <2>1. One(Owned(t)') <= One(Owned(t))
    BY <1>6 DEF One
  <2>2. One(CallHolds("stap", t)') <= One(CallHolds("stap", t))
        /\ One(CallHolds("task", t)') <= One(CallHolds("task", t))
    BY <1>3 DEF One, Procs, LessHeld
  <2>3. WorkRefs(t)' <= WorkRefs(t) + One(t = s) /\ One(t = s) \in {0, 1}
    BY NotifiedWork DEF One
  <2> QED
    BY <1>2, <1>5, <2>1, <2>2, <2>3, Parts, PartsNext
<1>8. CountsRise
  BY <1>1, <1>2, <1>7 DEF CountsRise, Notified, Unmoved, ListOf, One
<1>9. EngineHeld'
  BY EnginesStay
<1> QED
  BY <1>s, <1>3, <1>4, <1>8, <1>9, HeldKept DEF LessHeld

(* utrace_control() and stp_task_notify_resume()                            *)
LEMMA ControlHeld ==
    ASSUME Sound, ~Oops, NEW p \in Procs, utrace_control(p)
    PROVE  KeepsHeld
<1>s. Calls /\ Objects /\ Places /\ UseInv /\ PlaceInv /\ CodeInv /\ LifeInv
  BY Shapes
<1>1. /\ pc[p] = "ctl_lock" /\ UNCHANGED <<table, eng, taken, tk, rep>> /\ Calling(p)
      /\ pc[p] \in CallLabels \ {"att_fail"}
  BY DEF utrace_control, Calling, CallLabels
<1>2. PICK s \in Structs : at[p].s = s
  BY <1>s, <1>1 DEF UseInv, UsesStruct
<1>3. CASE Goto(p, "oops") /\ UNCHANGED <<u, works, at>>
  BY <1>1, <1>3, OopsHeld
<1>n. NoGain
  <2>1. ~utrace_add_engine(p)
    BY <1>1 DEF utrace_add_engine
  <2> QED
    BY <2>1, Shapes, AttachUses DEF AttachStep
<1>4. ASSUME NEW c, NewCall(p, c), SameCall(p, c), c.s = s, c.e = at[p].e, c.rc = "0", c.k = "eng_put",
             NEW l \in {"put", "ctl_count"}, Goto(p, l),
             Notified(s) \/ (UNCHANGED works /\ Objects' /\ Unmoved /\ SameRefs /\ SameAdded)
      PROVE  KeepsHeld
  <2>1. /\ pc'[p] = l /\ Stays(p) /\ at'[p] = c /\ at'[p].act = at[p].act
        /\ at'[p].ret = at[p].ret
    BY <1>s, <1>4, OthersStay DEF Stays, NewCall, SameCall
  <2>2. /\ Calling(p)' /\ CallHolds(p, s) /\ (AttachedBy(p)' => AttachedBy(p))
        /\ pc'[p] \notin {"user", "tp_get"}
    BY <1>1, <1>2, <1>4, <2>1
       DEF Calling, PutLabels, CallPuts, CallHolds, AttachedBy, WithEngine, UsesEngine, CallLabels
  <2>3. LessHeld(p)
    BY <1>1, <1>2, <1>4, <2>1, <2>2 DEF LessHeld, LessCall, Making, BeingMade, CallHolds
  <2>4. p = "stap" => CodeInv' /\ ~GaveUp
    <3>1. p = "stap" => ~Failing'
      BY <1>4, <2>1 DEF Failing
    <3> QED
      BY <1>s, <1>1, <1>4, <2>1, <3>1, CodeCall
  <2>5. p = "task" => /\ LessPass /\ ~TracepointPuts
                      /\ \A t \in Structs : PassRefs(t)' = PassRefs(t)
    BY <1>1, <2>1, <2>2, CallPass
  <2>6. CASE UNCHANGED works /\ Objects' /\ Unmoved /\ SameRefs /\ SameAdded
    <3>1. NoNewWork
      BY <1>1, <2>6, NoNewWorks
    <3>2. HeldInv => EngineHeld'
      BY <1>1, <1>n, EnginesStay
    <3> QED
      BY <1>1, <2>1, <2>2, <2>3, <2>4, <2>5, <2>6, <3>1, <3>2, CallHeld
         DEF Unmoved, SameRefs, ListOf
  <2>7. CASE Notified(s)
    <3>1. Busy(s)
      BY <2>2 DEF Busy, Procs
    <3>2. pc'["task"] = "tp_get" => pc["task"] = "tp_get"
      BY <2>1, <2>2 DEF Stays, Procs
    <3>3. HeldInv => HeldInv'
      BY <1>1, <1>n, <2>1, <2>3, <2>4, <2>5, <2>7, <3>1, <3>2, NotifiedHeld
    <3>4. WorkInv' /\ FewerReports
      BY <1>1, <2>7, NotifiedWork
    <3>5. Calling("task")' /\ at'["task"].act # "NONE" => ~tk.exiting
      BY <1>s, <1>1, <2>1 DEF LifeInv, Stays, Calling, Procs
    <3>6. LifeInv'
      BY <1>s, <1>1, <2>1, <2>2, <3>2, <3>4, <3>5, LifeGoesOn DEF Stays, Procs
    <3>7. CodeInv'
      BY <1>s, <1>1, <2>1, <2>4, CodeKept DEF Stays, Procs
    <3> QED
      BY <3>3, <3>4, <3>6, <3>7 DEF KeepsHeld, ControlInv
  <2> QED
    BY <1>4, <2>6, <2>7
<1>5. \/ \E c : /\ NewCall(p, c) /\ SameCall(p, c) /\ c.s = s /\ c.e = at[p].e
                /\ c.rc = "0" /\ c.k = "eng_put"
                /\ \E l \in {"put", "ctl_count"} : Goto(p, l)
                     /\ (Notified(s) \/ (UNCHANGED works /\ Objects' /\ Unmoved /\ SameRefs /\ SameAdded))
      \/ Goto(p, "oops") /\ UNCHANGED <<u, works, at>>
  BY <1>s, <1>2, ControlEffect
<1> QED
  BY <1>3, <1>4, <1>5

(* stp_task_work_get()                                                      *)
LEMMA WorkGetHeld ==
    ASSUME Sound, ~Oops, NEW p \in Procs, stp_task_work_get(p)
    PROVE  KeepsHeld
<1>s. Objects /\ Places /\ PlaceInv /\ CodeInv
  BY Shapes
<1>1. /\ pc[p] = "ctl_count" /\ UNCHANGED <<table, u, eng, works, taken, tk, at, rep>> /\ Calling(p)
      /\ pc[p] \in CallLabels \ {"att_fail"} /\ Goto(p, "put")
  BY DEF stp_task_work_get, Calling, CallLabels, kernel
<1>2. pc'[p] = "put" /\ Stays(p) /\ at'[p] = at[p]
  BY <1>s, <1>1, OthersStay DEF Stays
<1>3. at[p].k = "eng_put"
  BY <1>s, <1>1 DEF PlaceInv, TaskPlace, StapPlace, Procs
<1>4. Calling(p)' /\ (AttachedBy(p)' => AttachedBy(p))
  BY <1>1, <1>2, <1>3 DEF Calling, PutLabels, CallPuts, AttachedBy, WithEngine, UsesEngine
<1>5. LessHeld(p)
  BY <1>1, <1>2, <1>3, <1>4 DEF LessHeld, LessCall, Making, BeingMade, CallHolds
<1>6. p = "stap" => CodeInv' /\ ~GaveUp
  <2>1. p = "stap" => ~Failing'
    BY <1>2, <1>3 DEF Failing
  <2> QED
    BY <1>s, <1>1, <1>2, <2>1, CodeCall
<1>7. p = "task" => LessPass /\ ~TracepointPuts
  BY <1>1, <1>2, <1>4, CallPass
<1>8. NoNewWork /\ SameAdded /\ Objects' /\ \A t \in Structs : u'[t] = u[t] /\ ListOf(t)' = ListOf(t)
  BY <1>s, <1>1, NoNewWorks, MemEffects, SameMemory DEF ListOf
<1>9. HeldInv => EngineHeld'
  <2>1. ~utrace_add_engine(p)
    BY <1>1 DEF utrace_add_engine
  <2>2. NoGain
    BY <2>1, Shapes, AttachUses DEF AttachStep
  <2> QED
    BY <1>1, <2>2, EnginesStay
<1> QED
  BY <1>1, <1>2, <1>4, <1>5, <1>6, <1>7, <1>8, <1>9, CallHeld

(* The call drops its engine and returns.                                   *)
LEMMA EnginePutHeld ==
    ASSUME Sound, ~Oops, NEW p \in Procs, EnginePut(p)
    PROVE  KeepsHeld
<1>s. Calls /\ Objects /\ Handles /\ Places /\ UseInv /\ EngineInv /\ PlaceInv /\ CodeInv
  BY Shapes
<1>1. /\ pc[p] = "eng_put" /\ UNCHANGED <<table, u, works, taken, tk, rep>> /\ Calling(p)
      /\ pc[p] \in CallLabels \ {"att_fail"}
  BY DEF EnginePut, Calling, CallLabels, kernel
<1>2. PICK e \in Engines : at[p].e = e
  BY <1>s, <1>1 DEF UseInv, WithEngine, UsesEngine
<1>3. at[p].act # "NONE"
  BY <1>s, <1>1 DEF PlaceInv, StapPlace, UseInv, Procs, PutLabels
<1>4. CASE Goto(p, "oops") /\ UNCHANGED <<eng, at>>
  BY <1>1, <1>4, OopsHeld
<1>5. ASSUME Dropped({e}), Goto(p, at[p].ret), NEW c, NewCall(p, c), c.rc = at[p].rc
      PROVE  KeepsHeld
  <2>1. pc'[p] = at[p].ret /\ Stays(p) /\ at'[p] = c
    BY <1>s, <1>5, OthersStay DEF Stays, NewCall
  <2>2. AttachedBy(p) /\ HasEngine(p, e)
    BY <1>1, <1>2, <1>3 DEF AttachedBy, HasEngine, WithEngine, UsesEngine
  <2>3. LessHeld(p) /\ ~Calling(p)' /\ pc'[p] \notin {"user", "tp_get"}
    BY <1>s, <1>1, <2>1, <2>2, ReturnLess DEF LessHeld, LessCall
  <2>4. p = "stap" => CodeInv' /\ ~GaveUp
    <3>1. p = "stap" => ~Failing'
      BY <1>s, <1>1, <2>1, ReturnLess
    <3> QED
      BY <1>s, <1>1, <1>5, <2>1, <3>1, CodeCall
  <2>5. p = "task" => LessPass /\ ~TracepointPuts
    BY <1>s, <1>1, <2>1, ReturnPass
  <2>6. NoNewWork /\ SameAdded /\ Objects' /\ \A t \in Structs : u'[t] = u[t] /\ ListOf(t)' = ListOf(t)
    BY <1>s, <1>1, NoNewWorks, MemEffects, SameMemory DEF ListOf
  <2>7. ASSUME HeldInv PROVE EngineHeld'
    <3> SUFFICES ASSUME ~tk'.exiting, NEW q \in Procs, NEW d \in Engines, HasEngine(q, d)'
                 PROVE  eng'[d].mem = "live"
      BY DEF EngineHeld
    <3>1. ~WithEngine(p)'
      <4>1. pc'[p] \in {"q_add", "x_out", "cl_match", "cl_end", "s_finder", "s_target", "running"}
        BY <1>s, <1>1, <2>1, ReturnLess DEF Procs
      <4> QED
        BY <4>1 DEF WithEngine, UsesEngine, PutLabels
    <3>2. q # p /\ HasEngine(q, d)
      BY <2>1, <3>1 DEF HasEngine, Stays, WithEngine
    <3>3. eng[d].mem = "live"
      BY <1>1, <2>7, <3>2 DEF HeldInv, EngineHeld
    <3>4. d = e => eng[d].ref >= 2
      <4> SUFFICES ASSUME d = e PROVE eng[e].ref >= 2
        OBVIOUS
      <4>1. HasEngine("stap", e) /\ HasEngine("task", e)
        BY <2>2, <3>2 DEF Procs
      <4>2. One(HasEngine("stap", e)) = 1 /\ One(HasEngine("task", e)) = 1 /\ One(Listed(e)) \in {0, 1}
        BY <4>1 DEF One
      <4>3. /\ eng[e].ref \in Int
            /\ eng[e].ref >= One(Listed(e)) + One(HasEngine("stap", e)) + One(HasEngine("task", e))
        BY <1>s, <3>3 DEF EngineInv, Handles, EngineRecord
      <4> QED
        BY <4>2, <4>3
    <3>5. eng'[d].mem = eng[d].mem
      BY <1>5, <3>4 DEF Dropped
    <3> QED
      BY <3>3, <3>5
  <2> QED
    BY <1>1, <2>1, <2>3, <2>4, <2>5, <2>6, <2>7, CallHeld
<1> QED
  BY <1>s, <1>2, <1>4, <1>5, EnginePutEffect

-----------------------------------------------------------------------------
(* put_utrace_struct()                                                      *)

(* Where a put goes on.                                                     *)
PutTargets == CallPuts \cup {"running", "tp_out", "w_done", "put2"}

(* There: neither a struct looked up nor one made.                          *)
LEMMA PutGoes ==
    ASSUME NEW p \in Procs, pc[p] \in PutLabels, at'[p] = at[p], at[p].k \in PutTargets,
           pc'[p] \in {"cleanup", at[p].k}, PlaceInv
    PROVE  /\ \A t : ~Making(p, t)' /\ ~CallHolds(p, t)'
           /\ ~BeingMade(p)' /\ pc'[p] # "att_alloc" /\ (AttachedBy(p)' => AttachedBy(p))
           /\ pc'[p] \notin {"user", "tp_get"} /\ (Calling(p)' => Calling(p))
<1>1. pc'[p] \in {"cleanup"} \cup PutTargets
  OBVIOUS
<1>2. /\ \A t : ~Making(p, t)' /\ ~CallHolds(p, t)'
      /\ ~BeingMade(p)' /\ pc'[p] # "att_alloc" /\ pc'[p] \notin {"user", "tp_get"}
  BY <1>1 DEF PutTargets, CallPuts, Making, CallHolds, BeingMade
<1>3. Calling(p)' => Calling(p)
  BY DEF PutTargets, CallPuts, Calling, CallLabels, PutLabels
<1>4. AttachedBy(p)' => AttachedBy(p)
  BY DEF PutTargets, CallPuts, AttachedBy, WithEngine, UsesEngine, PutLabels
<1> QED
  BY <1>2, <1>3, <1>4

(* A put keeps the structs held if it gives back what it holds, and if only
   an unused struct comes to zero while the task lives.                     *)
LEMMA PutKeeps ==
    ASSUME Sound, HeldInv, NEW p \in Procs, NEW s \in Structs, pc[p] = "put", at[p].s = s,
           u[s].mem = "live", at[p].k \in PutTargets, Stays(p), at'[p] = at[p],
           pc'[p] = (IF u[s].ref = 1 THEN "cleanup" ELSE at[p].k),
           Objects', Unmoved, Counts(s, -1), UNCHANGED <<table, eng, tk>>, NoGain,
           u[s].ref > 0, Refs(s)' + 1 <= u[s].ref, \A t \in Structs : t # s => Refs(t)' <= Refs(t),
           u[s].ref = 1 /\ ~tk.exiting =>
             ListOf(s) = {} /\ ~AttachedBy("stap") /\ ~AttachedBy("task"),
           p = "task" /\ at[p].k = "put2" => u[s].ref # 1,
           \A t \in Structs : Busy(t)' => Busy(t)
    PROVE  HeldInv'
<1>s. Objects /\ UseInv /\ PlaceInv /\ LifeInv /\ RefsCounted
  BY Shapes DEF HeldInv
<1>0. \A t \in Structs : /\ u[t].ref \in Nat /\ u[t].ref >= Refs(t) /\ Refs(t) \in Nat
                         /\ u'[t].ref = (IF t = s THEN u[t].ref - 1 ELSE u[t].ref)
  BY <1>s, Counted DEF Counts
<1>1. /\ \A t : ~Making(p, t)' /\ ~CallHolds(p, t)'
      /\ ~BeingMade(p)' /\ pc'[p] # "att_alloc" /\ (AttachedBy(p)' => AttachedBy(p))
  BY <1>s, PutGoes DEF PutLabels
<1>2. \A q \in Procs : q # p => /\ (AttachedBy(q)' <=> AttachedBy(q)) /\ (BeingMade(q)' <=> BeingMade(q))
                                /\ \A t \in Structs : Making(q, t)' <=> Making(q, t)
  BY DEF Stays, AttachedBy, WithEngine, BeingMade, Making
<1>3. RefsCounted'
  <2> SUFFICES ASSUME NEW t \in Structs PROVE u'[t].ref >= Refs(t)'
    BY DEF RefsCounted
  <2>1. Refs(t)' \in Nat /\ Refs(t) \in Nat /\ u[t].ref \in Nat /\ u[t].ref >= Refs(t)
    BY <1>0, PartsNext
  <2>2. CASE t = s
    BY <1>0, <2>1, <2>2
  <2>3. CASE t # s
    <3>1. Refs(t)' <= Refs(t) /\ u'[t].ref = u[t].ref
      BY <1>0, <2>3
    <3> QED
      BY <2>1, <3>1
  <2> QED
    BY <2>2, <2>3
<1>4. OneCurrent'
  BY <1>0 DEF HeldInv, OneCurrent
<1>5. MakingInv'
  <2>1. \A q \in Procs : pc'[q] # "att_alloc"
    BY <1>1 DEF HeldInv, MakingInv, Stays
  <2>2. \A q \in Procs, t \in Structs : Making(q, t)' => ~Busy(t)' /\ u'[t].flags = {}
    BY <1>1, <1>2 DEF HeldInv, MakingInv, Unmoved
  <2>3. ~(BeingMade("stap")' /\ BeingMade("task")')
    BY <1>1, <1>2 DEF HeldInv, MakingInv, Procs
  <2> QED
    BY <2>1, <2>2, <2>3 DEF MakingInv
<1>6. EmptyInv'
  <2> SUFFICES ASSUME NEW t \in Structs, ~tk'.exiting, u'[t].ref = 0 PROVE ListOf(t)' = {}
    BY DEF EmptyInv
  <2>1. ListOf(t)' = ListOf(t)
    BY DEF Unmoved, ListOf
  <2>2. CASE t = s
    <3>1. u[s].ref = 1
      BY <1>0, <2>2
    <3> QED
      BY <2>1, <2>2, <3>1
  <2>3. CASE t # s
    BY <1>0, <2>1, <2>3 DEF HeldInv, EmptyInv
  <2> QED
    BY <2>2, <2>3
<1>7. AttachedInv'
  <2>1. ASSUME ~tk.exiting, AttachedBy("stap")' \/ AttachedBy("task")'
        PROVE  \E t \in Structs : u'[t].ref > 0
    <3>1. AttachedBy("stap") \/ AttachedBy("task")
      BY <1>1, <1>2, <2>1 DEF Procs
    <3>2. u[s].ref # 1
      BY <2>1, <3>1
    <3> QED
      BY <1>0, <3>2
  <2>2. AttachedBy("task")' => ~tk.exiting
    <3>1. AttachedBy("task") => Calling("task") /\ at["task"].act # "NONE"
      BY <1>s DEF AttachedBy, WithEngine, UsesEngine, Calling, CallLabels, CallPuts, PlaceInv,
                  TaskPlace, PutLabels, ProbeLabels, PassLabels, TfLabels, Uncounted
    <3> QED
      BY <1>s, <1>1, <1>2, <3>1 DEF LifeInv, Procs
  <2>3. /\ BeingMade("stap")' => BeingMade("stap")
        /\ BeingMade("task")' => BeingMade("task")
    BY <1>1, <1>2 DEF Procs
  <2>4. /\ AttachedBy("stap")' => AttachedBy("stap")
        /\ AttachedBy("task")' => AttachedBy("task")
    BY <1>1, <1>2 DEF Procs
  <2> QED
    BY <2>1, <2>2, <2>3, <2>4 DEF HeldInv, AttachedInv
<1>8. CleanInv'
  <2>1. ASSUME NEW q \in Procs, q # p, pc'[q] = "cleanup"
        PROVE  /\ pc[q] = "cleanup" /\ at'[q] = at[q] /\ at[q].s \in Structs /\ at[q].s # s
               /\ u'[at[q].s].mem = "live" /\ u'[at[q].s].ref = 0
    <3>1. pc[q] = "cleanup" /\ at'[q] = at[q]
      BY <2>1 DEF Stays
    <3>2. at[q].s \in Structs /\ u[at[q].s].mem = "live" /\ u[at[q].s].ref = 0
      BY <1>s, <3>1 DEF UseInv, UsesStruct, HeldInv, CleanInv
    <3>3. at[q].s # s
      BY <3>2
    <3> QED
      BY <1>0, <3>1, <3>2, <3>3 DEF Unmoved
  <2>2. pc'[p] = "cleanup" => u[s].ref = 1
    BY DEF PutTargets, CallPuts
  <2>3. pc'[p] = "cleanup" => u'[at'[p].s].mem = "live" /\ u'[at'[p].s].ref = 0
    BY <1>0, <2>2 DEF Unmoved
  <2>4. \A q \in Procs : pc'[q] = "cleanup" => u'[at'[q].s].mem = "live" /\ u'[at'[q].s].ref = 0
    BY <2>1, <2>3
  <2>5. pc'["stap"] = "cleanup" /\ pc'["task"] = "cleanup" => at'["stap"].s # at'["task"].s
    BY <2>1 DEF Procs
  <2>6. pc'["task"] = "cleanup" => at'["task"].k # "put2"
    BY <2>1, <2>2 DEF HeldInv, CleanInv, Procs
  <2> QED
    BY <2>4, <2>5, <2>6 DEF CleanInv
<1>9. EngineHeld'
  BY EnginesStay
<1> QED
  BY <1>3, <1>4, <1>5, <1>6, <1>7, <1>8, <1>9 DEF HeldInv

(* A put of s by p, which goes on.                                          *)
PutBy(p, s) ==
    /\ pc[p] = "put" /\ at[p].s = s /\ u[s].mem = "live" /\ at[p].k \in PutTargets
    /\ Stays(p) /\ at'[p] = at[p]
    /\ pc'[p] = (IF u[s].ref = 1 THEN "cleanup" ELSE at[p].k)
    /\ Objects' /\ Unmoved /\ Counts(s, -1) /\ NoGain
    /\ UNCHANGED <<table, eng, tk, rep, works, taken>>

(* It does nothing to the references of the other structs.                  *)
LEMMA PutOthers ==
    ASSUME Sound, HeldInv, NEW p \in Procs, NEW s \in Structs, PutBy(p, s), LessPass
    PROVE  /\ \A t \in Structs : t # s => ~Orphan(t) /\ Refs(t)' <= Refs(t)
           /\ \A t \in Structs : WorkRefs(t)' = WorkRefs(t)
           /\ \A t \in Structs, q \in Procs : CallHolds(q, t)' => CallHolds(q, t)
           /\ \A t \in Structs, q \in Procs : Making(q, t)' => Making(q, t)
           /\ \A t \in Structs : Busy(t)' => Busy(t)
           /\ \A t \in Structs : ~CallHolds(p, t)' /\ ~Making(p, t)'
           /\ u[s].ref \in Nat /\ u[s].ref >= Refs(s) /\ u'[s].ref = u[s].ref - 1
           /\ pc'["task"] = "tp_get" => pc["task"] = "tp_get"
<1>s. Objects /\ UseInv /\ PlaceInv /\ RefsCounted
  BY Shapes DEF HeldInv
<1>0. /\ pc[p] = "put" /\ at[p].s = s /\ at[p].k \in PutTargets /\ at'[p] = at[p]
      /\ pc'[p] \in {"cleanup", at[p].k} /\ Stays(p) /\ Counts(s, -1) /\ Unmoved
      /\ UNCHANGED <<tk, rep, works, taken>>
  BY DEF PutBy
<1>1. \A t \in Structs : WorkRefs(t)' = WorkRefs(t)
  BY <1>0 DEF WorkRefs, Resume, Report
<1>2. \A t : ~Making(p, t)' /\ ~CallHolds(p, t)'
  BY <1>s, <1>0, PutGoes DEF PutLabels
<1>3. \A t \in Structs, q \in Procs : (CallHolds(q, t)' => CallHolds(q, t))
                                      /\ (Making(q, t)' => Making(q, t))
  BY <1>0, <1>2 DEF Stays, CallHolds, Making
<1>4. \A t \in Structs : t # s => ~Orphan(t)
  <2>1. p = "task" => (TracepointPuts => rep.s = s)
    BY <1>s, <1>0 DEF TracepointPuts, UseInv, PutsReported, PutLabels, PassPuts
  <2>2. p = "stap" => ~GaveUp
    BY <1>0 DEF GaveUp
  <2> QED
    BY <2>1, <2>2 DEF Orphan, Procs
<1>5. u[s].ref \in Nat /\ u[s].ref >= Refs(s) /\ u'[s].ref = u[s].ref - 1
  BY <1>s, <1>0, Counted DEF Counts
<1>6. pc'["task"] = "tp_get" => pc["task"] = "tp_get"
  <2>1. p = "task" => pc'["task"] # "tp_get"
    BY <1>s, <1>0, PutGoes DEF PutLabels
  <2> QED
    BY <1>0, <2>1 DEF Stays, Procs
<1>7. \A t \in Structs : t # s => Refs(t)' <= Refs(t)
  <2> SUFFICES ASSUME NEW t \in Structs, t # s PROVE Refs(t)' <= Refs(t)
    OBVIOUS
  <2>1. u'[t].ref = u[t].ref /\ ~Orphan(t)
    BY <1>0, <1>4 DEF Counts
  <2>2. Owned(t)' => Owned(t)
    BY <1>0, <1>3, <1>6, <2>1, OwnedKept
  <2>3. PassRefs(t)' <= PassRefs(t) /\ WorkRefs(t)' <= WorkRefs(t)
    BY <1>1, Parts DEF LessPass
  <2> QED
    BY <1>3, <2>2, <2>3, RefsFall
<1>8. \A t \in Structs : Busy(t)' => Busy(t)
  BY <1>1, <1>3 DEF Busy, LessPass, Procs
<1> QED
  BY <1>1, <1>2, <1>3, <1>4, <1>5, <1>6, <1>7, <1>8

(* A struct that was looked up is put: it does not come to zero while the task
   lives, for the table has a reference too.                                *)
LEMMA PutFoundHeld ==
    ASSUME Sound, HeldInv, NEW p \in Procs, NEW s \in Structs, PutBy(p, s), CallHolds(p, s), LessPass,
           p = "task" => ~TracepointPuts
    PROVE  HeldInv'
<1>1. ~Orphan(s)
  <2>1. p = "stap" => ~GaveUp
    BY DEF GaveUp, PutBy
  <2> QED
    BY <2>1 DEF Orphan, Procs
<1>2. u[s].ref \in Nat /\ u[s].ref >= Refs(s) /\ u'[s].ref = u[s].ref - 1
      /\ (pc'["task"] = "tp_get" => pc["task"] = "tp_get") /\ WorkRefs(s)' = WorkRefs(s)
      /\ PassRefs(s)' <= PassRefs(s) /\ ~CallHolds(p, s)'
      /\ \A q \in Procs : (CallHolds(q, s)' => CallHolds(q, s)) /\ (Making(q, s)' => Making(q, s))
  BY PutOthers DEF LessPass
<1>3. Owned(s)' => Owned(s)
  <2>1. tk'.exiting = tk.exiting
    BY DEF PutBy
  <2>2. u'[s].ref > 0 => u[s].ref > 0
    BY <1>2
  <2> QED
    BY <1>1, <1>2, <2>1, <2>2, OwnedKept
<1>4. /\ One(CallHolds("stap", s)') + One(CallHolds("task", s)') + 1
            <= One(CallHolds("stap", s)) + One(CallHolds("task", s))
      /\ One(CallHolds("stap", s)) + One(CallHolds("task", s)) >= 1
  BY <1>2 DEF One, Procs
<1>5. One(Owned(s)') <= One(Owned(s))
  BY <1>3 DEF One
<1>6. Refs(s)' + 1 <= Refs(s) /\ Refs(s) >= 1 + One(Owned(s))
  BY <1>2, <1>4, <1>5, Parts, PartsNext
<1>7. u[s].ref > 0 /\ Refs(s)' + 1 <= u[s].ref
  BY <1>2, <1>6, Parts, PartsNext
<1>8. ~(u[s].ref = 1 /\ ~tk.exiting)
  <2> SUFFICES ASSUME u[s].ref = 1, ~tk.exiting PROVE FALSE
    OBVIOUS
  <2>1. Owned(s)
    BY <1>1 DEF Owned
  <2>2. Refs(s) >= 2
    BY <1>6, <2>1 DEF One
  <2> QED
    BY <1>2, <2>2, Parts
<1>9. ~(p = "task" /\ at[p].k = "put2")
  BY DEF CallHolds, CallPuts, PutBy
<1> QED
  BY <1>7, <1>8, <1>9, PutOthers, PutKeeps DEF PutBy

(* The one who made s puts it, for no engine could be queued on it.          *)
LEMMA PutMadeHeld ==
    ASSUME Sound, HeldInv, NEW p \in Procs, NEW s \in Structs, PutBy(p, s), Making(p, s), LessPass,
           p = "task" => ~TracepointPuts /\ ~tk.exiting
    PROVE  HeldInv'
<1>s. Objects /\ ListInv /\ PlaceInv /\ CodeInv /\ LifeInv /\ UseInv
  BY Shapes
<1>1. ~Busy(s) /\ u[s].flags = {}
  BY DEF HeldInv, MakingInv
<1>2. /\ u[s].ref \in Nat /\ u[s].ref >= Refs(s) /\ u'[s].ref = u[s].ref - 1
      /\ (pc'["task"] = "tp_get" => pc["task"] = "tp_get") /\ WorkRefs(s)' = WorkRefs(s)
      /\ PassRefs(s)' <= PassRefs(s) /\ ~Making(p, s)'
      /\ \A q \in Procs : (CallHolds(q, s)' => CallHolds(q, s)) /\ (Making(q, s)' => Making(q, s))
  BY PutOthers DEF LessPass
<1>3. /\ ~CallHolds("stap", s) /\ ~CallHolds("task", s) /\ WorkRefs(s) = 0
      /\ PassRefs(s) = 0 \/ TracepointPuts
  BY <1>1, Parts DEF Busy, InUse
<1>4. ~CallHolds("stap", s)' /\ ~CallHolds("task", s)' /\ WorkRefs(s)' = 0
  BY <1>2, <1>3 DEF Procs
<1>5. Refs(s)' = One(Owned(s)') + PassRefs(s)'
  BY <1>4, PartsNext DEF One
<1>6. ~Making("stap", s)' /\ ~Making("task", s)'
  <2>1. BeingMade(p)
    BY MakesStruct
  <2> QED
    BY <1>2, <2>1, MakesStruct DEF HeldInv, MakingInv, Procs
<1>7. Refs(s) = 1 + PassRefs(s)
  <2>1. Owned(s)
    BY DEF Owned, Procs
  <2> QED
    BY <1>3, <2>1, Parts DEF One
<1>8. Refs(s)' + 1 <= u[s].ref
  <2>1. CASE PassRefs(s) = 0
    <3>1. Owned(s)' => u'[s].ref > 0
      BY <1>6 DEF Owned
    <3>2. PassRefs(s)' = 0
      BY <1>2, <2>1, PartsNext
    <3> QED
      BY <1>2, <1>5, <1>7, <2>1, <3>1, <3>2, PartsNext DEF One
  <2>2. CASE TracepointPuts /\ PassRefs(s) # 0
    <3>1. p = "stap" /\ pc["task"] = "put" /\ pc'["task"] = "put" /\ TracepointPuts'
      BY <2>2 DEF TracepointPuts, PutBy, Stays, Procs
    <3>2. ~Owned(s)'
      <4>1. CASE at["stap"].rc = "ENOMEM"
        <5>1. GaveUp'
          BY <3>1, <4>1 DEF GaveUp, PutBy, PutTargets, CallPuts
        <5>2. u'[s].flags = {} /\ rep'.s = s
          BY <1>1, <2>2 DEF PutBy, Unmoved, PassRefs
        <5>3. Resume(s) \notin works \cup taken
          BY <1>3 DEF WorkRefs, One
        <5>4. Orphan(s)'
          BY <3>1, <5>1, <5>2, <5>3 DEF Orphan, PutBy, Resume
        <5> QED
          BY <1>6, <5>4 DEF Owned
      <4>2. CASE at["stap"].rc # "ENOMEM"
        <5>1. Failing
          BY <3>1 DEF Making, Failing, PutBy, PutLabels
        <5>2. tk'.exiting
          BY <1>s, <4>2, <5>1 DEF CodeInv, PutBy
        <5> QED
          BY <1>6, <3>1, <5>2 DEF Owned
      <4> QED
        BY <4>1, <4>2
    <3> QED
      BY <1>2, <1>5, <1>7, <3>2, Parts, PartsNext DEF One
  <2> QED
    BY <1>3, <2>1, <2>2
<1>9. u[s].ref > 0
  BY <1>2, <1>7, Parts
<1>10. ListOf(s) = {}
  BY <1>s, <1>1 DEF ListInv
<1>11. ~tk.exiting => ~AttachedBy("stap") /\ ~AttachedBy("task")
  <2>1. BeingMade(p) /\ ~AttachedBy(p)
    BY MakesStruct DEF PutBy, Making, AttachedBy, WithEngine, UsesEngine, PutLabels
  <2> QED
    BY <2>1 DEF HeldInv, AttachedInv, Procs
<1>12. ~(p = "task" /\ at[p].k = "put2")
  BY DEF Making, PutBy
<1> QED
  BY <1>8, <1>9, <1>10, <1>11, <1>12, PutOthers, PutKeeps DEF PutBy

(* A pass puts the struct it reported on, or one it looked at.              *)
LEMMA PassPutRefs ==
    ASSUME Sound, NEW s \in Structs, PutBy("task", s), at["task"].k \in PassPuts
    PROVE  /\ LessPass /\ rep.s = s /\ PassRefs(s)' + 1 <= PassRefs(s)
           /\ at["task"].k = "put2" => PassRefs(s) = 2
<1>s. PlaceInv /\ UseInv /\ DeathInv
  BY Shapes DEF Sound
<1>0. /\ pc["task"] = "put" /\ at["task"].s = s /\ UNCHANGED rep /\ at'["task"] = at["task"]
      /\ pc'["task"] \in {"cleanup", at["task"].k}
  BY DEF PutBy
<1>1. InPass /\ rep.s = s /\ ~Calling("task")'
  BY <1>s, <1>0 DEF InPass, UseInv, PutsReported, PutLabels, PassPuts, Calling, CallLabels, CallPuts
<1>2. \A t \in Structs : t # s => PassRefs(t)' = 0 /\ PassRefs(t) = 0
  BY <1>0, <1>1 DEF PassRefs
<1>3. CASE at["task"].k = "tp_out"
  <2>1. rep.tp
    BY <1>s, <1>0, <1>3 DEF PlaceInv, ProbeSide, InProbe, PutLabels
  <2>2. PassRefs(s) = 1
    BY <1>0, <1>1, <2>1 DEF PassRefs
  <2>3. ~InPass'
    BY <1>0, <1>1, <1>3 DEF InPass, UsesReport
  <2>4. PassRefs(s)' = 0
    BY <2>3 DEF PassRefs
  <2> QED
    BY <1>1, <1>2, <1>3, <2>2, <2>4 DEF LessPass, InUse
<1>4. CASE at["task"].k = "w_done"
  <2>2. PassRefs(s) = 1
    BY <1>0, <1>1, <1>4 DEF PassRefs
  <2>3. ~InPass'
    BY <1>0, <1>1, <1>4 DEF InPass, UsesReport
  <2>4. PassRefs(s)' = 0
    BY <2>3 DEF PassRefs
  <2> QED
    BY <1>1, <1>2, <1>4, <2>2, <2>4 DEF LessPass, InUse
<1>5. CASE at["task"].k = "put2"
  <2>1. rep.ev = "DEATH" /\ ~rep.tp
    BY <1>s, <1>0, <1>5 DEF PlaceInv, ProbeSide, DeathInv, PutLabels
  <2>2. PassRefs(s) = 2
    BY <1>0, <1>1, <1>5, <2>1 DEF PassRefs
  <2>3. pc'["task"] = "cleanup" => ~InPass'
    BY <1>1 DEF InPass, UsesReport
  <2>4. PassRefs(s)' \in {0, 1}
    BY <1>0, <1>5, <2>3 DEF PassRefs
  <2>5. ~TracepointPuts
    BY <1>5 DEF TracepointPuts
  <2> QED
    BY <1>1, <1>2, <1>5, <2>2, <2>4, <2>5 DEF LessPass, InUse
<1> QED
  BY <1>3, <1>4, <1>5 DEF PassPuts

(* A pass puts its struct.                                                  *)
LEMMA PutPassHeld ==
    ASSUME Sound, HeldInv, NEW s \in Structs, PutBy("task", s), at["task"].k \in PassPuts
    PROVE  HeldInv'
<1>s. Objects /\ ListInv /\ PlaceInv /\ CodeInv /\ LifeInv /\ UseInv
  BY Shapes
<1>p. "task" \in Procs /\ "stap" \in Procs
  BY DEF Procs
<1>1. /\ LessPass /\ rep.s = s /\ PassRefs(s)' + 1 <= PassRefs(s)
      /\ at["task"].k = "put2" => PassRefs(s) = 2
  BY PassPutRefs
<1>2. /\ u[s].ref \in Nat /\ u[s].ref >= Refs(s) /\ u'[s].ref = u[s].ref - 1
      /\ (pc'["task"] = "tp_get" => pc["task"] = "tp_get") /\ WorkRefs(s)' = WorkRefs(s)
      /\ \A q \in Procs : (CallHolds(q, s)' => CallHolds(q, s)) /\ (Making(q, s)' => Making(q, s))
  BY <1>p, <1>1, PutOthers
<1>3. /\ One(CallHolds("stap", s)') <= One(CallHolds("stap", s))
      /\ One(CallHolds("task", s)') <= One(CallHolds("task", s))
  BY <1>2 DEF One, Procs
<1>4. PassRefs(s) >= 1 /\ Refs(s) >= PassRefs(s) + One(Owned(s))
  BY <1>1, Parts, PartsNext
<1>5. ASSUME Orphan(s)
      PROVE  /\ ~CallHolds("stap", s) /\ ~CallHolds("task", s)
             /\ ~AttachedBy("stap") /\ ~Making("stap", s) /\ ~Making("task", s)
  <2>1. /\ pc["stap"] = "att_fail" \/ (pc["stap"] = "cleanup" /\ at["stap"].k = "att_fail")
             \/ pc["stap"] \in {"s_finder", "s_target", "running"} \cup StopLabels
        /\ at["stap"].rc = "ENOMEM"
    BY <1>s, <1>5 DEF Orphan, GaveUp, CodeInv, Failing, PutLabels
  <2>2. ~CallHolds("stap", s) /\ ~Making("stap", s) /\ ~AttachedBy("stap")
    BY <2>1 DEF CallHolds, Making, AttachedBy, WithEngine, UsesEngine, PutLabels, StopLabels
  <2>3. ~CallHolds("task", s) /\ ~Making("task", s)
    BY DEF CallHolds, Making, PutBy, PassPuts, CallPuts
  <2> QED
    BY <2>2, <2>3
<1>6. Refs(s)' + 1 <= u[s].ref
  <2>1. CASE Owned(s)' => Owned(s)
    <3>1. One(Owned(s)') <= One(Owned(s))
      BY <2>1 DEF One
    <3>2. Refs(s)' + 1 <= Refs(s)
      BY <1>1, <1>2, <1>3, <3>1, Parts, PartsNext
    <3> QED
      BY <1>2, <3>2, Parts, PartsNext
  <2>2. CASE Owned(s)' /\ ~Owned(s)
    <3>1. tk'.exiting = tk.exiting /\ (u'[s].ref > 0 => u[s].ref > 0)
      BY <1>2 DEF PutBy
    <3>2. Orphan(s)
      BY <1>2, <2>2, <3>1 DEF Owned, Procs
    <3>3. ~Making("stap", s)' /\ ~Making("task", s)' /\ ~CallHolds("stap", s)' /\ ~CallHolds("task", s)'
      BY <1>2, <1>5, <3>2 DEF Procs
    <3>4. u'[s].ref > 0 /\ ~tk.exiting
      BY <1>2, <2>2, <3>1, <3>3 DEF Owned, PutBy
    <3>5. WorkRefs(s) = 0
      <4>1. Resume(s) \notin works \cup taken /\ Report(s) \notin works \cup taken
        BY <1>s, <3>2, <3>4 DEF Orphan, LifeInv
      <4> QED
        BY <4>1 DEF WorkRefs, One
    <3>6. at["task"].k = "tp_out"
      BY <3>2 DEF Orphan, TracepointPuts
    <3>7. PassRefs(s)' = 0
      <4>1. ~InPass'
        BY <3>6 DEF PutBy, InPass, UsesReport, Calling, CallLabels, PutLabels, CallPuts
      <4> QED
        BY <4>1 DEF PassRefs
    <3>8. Refs(s)' = 1
      BY <1>2, <2>2, <3>3, <3>5, <3>7, PartsNext DEF One
    <3> QED
      BY <1>2, <3>4, <3>8
  <2> QED
    BY <2>1, <2>2
<1>7. u[s].ref > 0
  BY <1>2, <1>4, Parts
<1>8. u[s].ref = 1 /\ ~tk.exiting => ListOf(s) = {} /\ ~AttachedBy("stap") /\ ~AttachedBy("task")
  <2> SUFFICES ASSUME u[s].ref = 1, ~tk.exiting
               PROVE  ListOf(s) = {} /\ ~AttachedBy("stap") /\ ~AttachedBy("task")
    OBVIOUS
  <2>1. ~Owned(s)
    BY <1>2, <1>4, Parts DEF One
  <2>2. Orphan(s)
    BY <2>1 DEF Owned
  <2>3. ListOf(s) = {}
    BY <1>s, <2>2 DEF Orphan, ListInv
  <2>4. ~AttachedBy("task")
    BY DEF AttachedBy, WithEngine, UsesEngine, PutBy, PassPuts, PutLabels
  <2> QED
    BY <1>5, <2>2, <2>3, <2>4
<1>9. at["task"].k = "put2" => u[s].ref # 1
  BY <1>1, <1>2, <1>4, Parts
<1> QED
  BY <1>p, <1>1, <1>6, <1>7, <1>8, <1>9, PutOthers, PutKeeps DEF PutBy

(* A put, or the clean up after it, in the control state.                   *)
LEMMA PutControl ==
    ASSUME Sound, NEW p \in Procs, pc[p] \in PutLabels, pc'[p] \in {"cleanup", at[p].k}, Stays(p),
           at'[p] = at[p], UNCHANGED <<tk, rep, works, taken>>, SameAdded
    PROVE  ControlInv' /\ at[p].k \in PutTargets
<1>s. PlaceInv /\ LifeInv /\ WorkInv /\ CodeInv
  BY Shapes
<1>1. at[p].k \in PutTargets
  BY <1>s DEF PlaceInv, TaskPlace, StapPlace, Procs, PutTargets
<1>2. NoNewWork
  BY NoNewWorks
<1>3. WorkInv'
  BY <1>s, <1>2, WorkInvKept
<1>4. /\ pc'[p] \notin {"user", "tp_get"} /\ (Calling(p)' => Calling(p))
  BY <1>s, <1>1, PutGoes
<1>5. CASE p = "task"
  <2>1. Calling("task")' /\ at'["task"].act # "NONE" => ~tk.exiting
    BY <1>s, <1>4, <1>5 DEF LifeInv
  <2>2. LifeInv'
    BY <1>s, <1>2, <1>4, <1>5, <2>1, LifeKept
  <2>3. CodeInv'
    BY <1>s, <1>5, CodeKept DEF Stays, Procs
  <2> QED
    BY <1>1, <1>3, <2>2, <2>3 DEF ControlInv
<1>6. CASE p = "stap"
  <2>1. LifeInv'
    BY <1>s, <1>2, <1>6, LifeStays DEF Stays, Procs
  <2>2. at["stap"].k = "att_fail" => Failing'
    BY <1>6 DEF Failing, PutLabels
  <2>3. at["stap"].k # "att_fail" => ~Failing'
    BY <1>6 DEF Failing, PutLabels
  <2>4. Failing <=> at["stap"].k = "att_fail"
    BY <1>6 DEF Failing, PutLabels
  <2>5. pc["stap"] \notin {"s_finder", "s_target", "running"} \cup StopLabels
    BY <1>6 DEF PutLabels, StopLabels
  <2>6. CodeInv'
    BY <1>s, <1>6, <2>2, <2>3, <2>4, <2>5 DEF CodeInv
  <2> QED
    BY <1>1, <1>3, <2>1, <2>6 DEF ControlInv
<1> QED
  BY <1>5, <1>6 DEF Procs

(* The pass is left alone by a put in a call.                               *)
LEMMA PutLessPass ==
    ASSUME Sound, pc["task"] \in PutLabels, at["task"].k \in CallPuts, at'["task"] = at["task"],
           pc'["task"] \in {"cleanup", at["task"].k}, UNCHANGED rep
    PROVE  LessPass /\ ~TracepointPuts
<1>s. PlaceInv /\ UseInv
  BY Shapes
<1>1. Calling("task")
  BY DEF Calling
<1>2. CASE pc'["task"] = "q_add"
  <2>1. at["task"].k = "q_add"
    BY <1>2
  <2>2. at["task"].ret = "q_add"
    BY <1>s, <1>1, <2>1 DEF UseInv, PlaceInv, TaskPlace
  <2> QED
    BY <1>s, <1>1, <1>2, <2>2, ReturnPass
<1>3. CASE pc'["task"] # "q_add"
  <2>1. Calling("task")'
    BY <1>3 DEF Calling, CallPuts, CallLabels, PutLabels
  <2> QED
    BY <1>1, <2>1, CallPass
<1> QED
  BY <1>2, <1>3

(* put_utrace_struct()                                                      *)
LEMMA PutHeld ==
    ASSUME Sound, ~Oops, NEW p \in Procs, PutStruct(p)
    PROVE  KeepsHeld
<1>s. Objects /\ Places /\ PlaceInv /\ UseInv /\ Calls
  BY Shapes
<1>1. /\ pc[p] = "put" /\ UNCHANGED <<table, eng, works, taken, tk, rep, at>>
      /\ Goto(p, IF u[at[p].s].ref = 1 THEN "cleanup" ELSE at[p].k)
  BY DEF PutStruct, kernel
<1>2. PICK s \in Structs : at[p].s = s /\ u[s].mem = "live"
  BY <1>s, <1>1, UsedLive DEF UsesStruct
<1>3. Objects' /\ Unmoved /\ SameAdded /\ Counts(s, -1)
  BY <1>s, <1>2, PutEffect
<1>4. /\ pc'[p] = (IF u[s].ref = 1 THEN "cleanup" ELSE at[p].k) /\ Stays(p) /\ at'[p] = at[p]
      /\ pc[p] \in PutLabels /\ pc'[p] \in {"cleanup", at[p].k}
  BY <1>s, <1>1, <1>2, OthersStay DEF Stays, PutLabels
<1>5. ControlInv' /\ at[p].k \in PutTargets
  BY <1>1, <1>3, <1>4, PutControl
<1>6. ASSUME HeldInv PROVE HeldInv'
  <2>1. NoGain
    <3>1. ~utrace_add_engine(p)
      BY <1>1 DEF utrace_add_engine
    <3> QED
      BY <3>1, Shapes, AttachUses DEF AttachStep
  <2>2. PutBy(p, s)
    BY <1>1, <1>2, <1>3, <1>4, <1>5, <2>1 DEF PutBy
  <2>3. CASE p = "task" /\ at[p].k \in PassPuts
    BY <1>6, <2>2, <2>3, PutPassHeld
  <2>4. CASE at[p].k \in CallPuts \cup {"running"}
    <3>1. p = "task" => LessPass /\ ~TracepointPuts
      <4>1. p = "task" => at[p].k \in CallPuts
        BY <1>s, <1>4, <2>4 DEF PlaceInv, TaskPlace
      <4> QED
        BY <1>1, <1>4, <4>1, PutLessPass
    <3>2. p = "stap" => LessPass
      BY <1>1, <1>4, PassStays DEF Stays, Procs
    <3>3. LessPass
      BY <3>1, <3>2 DEF Procs
    <3>4. CallHolds(p, s) \/ Making(p, s)
      <4>1. at[p].found \in BOOLEAN
        BY <1>s DEF Calls, CallRecord
      <4> QED
        BY <1>1, <1>2, <2>4, <4>1 DEF CallHolds, Making
    <3>5. CASE CallHolds(p, s)
      BY <1>6, <2>2, <3>1, <3>3, <3>5, PutFoundHeld
    <3>6. CASE Making(p, s)
      <4>1. p = "task" => ~tk.exiting
        BY <3>6, MakesStruct, TaskMakes
      <4> QED
        BY <1>6, <2>2, <3>1, <3>3, <3>6, <4>1, PutMadeHeld
    <3> QED
      BY <3>4, <3>5, <3>6
  <2> QED
    BY <1>s, <1>4, <2>3, <2>4 DEF PlaceInv, TaskPlace, StapPlace, Procs, PassPuts
<1> QED
  BY <1>5, <1>6 DEF KeepsHeld

(* utrace_cleanup()                                                         *)
LEMMA CleanupHeld ==
    ASSUME Sound, ~Oops, NEW p \in Procs, utrace_cleanup(p)
    PROVE  KeepsHeld
<1>s. Objects /\ Handles /\ Places /\ PlaceInv /\ UseInv /\ table \in Seq(Structs)
  BY Shapes
<1>1. /\ pc[p] = "cleanup" /\ UNCHANGED <<works, taken, tk, rep, at>>
      /\ FreeStructs({at[p].s}) /\ Goto(p, at[p].k)
  BY DEF utrace_cleanup, kernel
<1>2. PICK s \in Structs : at[p].s = s
  BY <1>s, <1>1 DEF UseInv, UsesStruct
<1>3. Freed({s})
  BY <1>s, <1>1, <1>2, FreeEffect
<1>4. /\ pc'[p] = at[p].k /\ Stays(p) /\ at'[p] = at[p]
      /\ pc[p] \in PutLabels /\ pc'[p] \in {"cleanup", at[p].k}
  BY <1>s, <1>1, OthersStay DEF Stays, PutLabels
<1>5. ControlInv' /\ at[p].k \in PutTargets
  BY <1>1, <1>3, <1>4, PutControl DEF Freed
<1>6. NoNewWork
  BY <1>1, NoNewWorks
<1>7. NoGain
  <2>1. ~utrace_add_engine(p)
    BY <1>1 DEF utrace_add_engine
  <2> QED
    BY <2>1, Shapes, AttachUses DEF AttachStep
<1>8. ASSUME HeldInv PROVE HeldInv'
  <2>1. u[s].ref = 0 /\ (p = "task" => at[p].k # "put2")
    BY <1>1, <1>2, <1>8 DEF HeldInv, CleanInv
  <2>2. \A t \in Structs : /\ u'[t].ref = u[t].ref /\ u'[t].flags = u[t].flags
                           /\ t # s => u'[t] = u[t] /\ ListOf(t)' = ListOf(t)
    BY <1>3, <2>1 DEF Freed, ListOf
  <2>3. /\ \A t : ~Making(p, t)' /\ ~CallHolds(p, t)'
        /\ ~BeingMade(p)' /\ pc'[p] # "att_alloc" /\ (AttachedBy(p)' => AttachedBy(p))
        /\ pc'[p] \notin {"user", "tp_get"}
    BY <1>s, <1>4, <1>5, PutGoes
  <2>4. \A q \in Procs : /\ (AttachedBy(q)' => AttachedBy(q)) /\ (BeingMade(q)' => BeingMade(q))
                         /\ pc'[q] = "att_alloc" => pc[q] = "att_alloc"
                         /\ \A t \in Structs : (Making(q, t)' => Making(q, t))
                                               /\ (CallHolds(q, t)' => CallHolds(q, t))
    BY <1>4, <2>3 DEF Stays, AttachedBy, WithEngine, BeingMade, Making, CallHolds
  <2>5. LessPass /\ (p = "task" => ~TracepointPuts)
    <3>1. CASE p = "stap"
      BY <1>1, <1>4, <3>1, PassStays DEF Stays, Procs
    <3>2. CASE p = "task" /\ at["task"].k \in CallPuts
      BY <1>1, <1>4, <3>2, PutLessPass
    <3>3. CASE p = "task" /\ at["task"].k \notin CallPuts
      <4>1. at["task"].k \in {"tp_out", "w_done"}
        BY <1>s, <1>4, <2>1, <3>3 DEF PlaceInv, TaskPlace
      <4>2. ~InPass' /\ ~TracepointPuts
        BY <1>1, <1>4, <3>3, <4>1
           DEF InPass, UsesReport, TracepointPuts, Calling, CallLabels, PutLabels
      <4>3. \A t \in Structs : PassRefs(t)' = 0 /\ PassRefs(t) \in Nat
        BY <4>2, Parts DEF PassRefs
      <4> QED
        BY <4>2, <4>3 DEF LessPass, InUse
    <3> QED
      BY <3>1, <3>2, <3>3 DEF Procs
  <2>6. \A t \in Structs : Owned(t)' => Owned(t)
    <3>1. p = "stap" => (GaveUp => GaveUp')
      BY <1>4, <1>5 DEF GaveUp, PutTargets, CallPuts
    <3>2. \A t \in Structs : Orphan(t) => Orphan(t)'
      BY <1>1, <1>4, <1>6, <2>2, <2>5, <3>1, OrphanKept
    <3>3. pc'["task"] = "tp_get" => pc["task"] = "tp_get"
      BY <1>4, <2>3 DEF Stays, Procs
    <3> QED
      BY <1>1, <2>2, <2>4, <3>2, <3>3, OwnedKept
  <2>7. RefsCounted'
    <3> SUFFICES ASSUME NEW t \in Structs PROVE u'[t].ref >= Refs(t)'
      BY DEF RefsCounted
    <3>1. Refs(t)' <= Refs(t)
      BY <1>6, <2>4, <2>5, <2>6, WorkRefsFall, RefsFall DEF LessPass
    <3>2. u[t].ref \in Nat /\ u[t].ref >= Refs(t)
      BY <1>s, <1>8, Counted DEF HeldInv
    <3> QED
      BY <2>2, <3>1, <3>2, Parts, PartsNext
  <2>8. OneCurrent'
    <3> SUFFICES ASSUME NEW t \in Structs, u'[t].ref > 0 PROVE table' # <<>> /\ t = Head(table')
      BY DEF OneCurrent
    <3>1. table # <<>> /\ t = Head(table) /\ t # s
      BY <1>8, <2>1, <2>2 DEF HeldInv, OneCurrent
    <3> QED
      BY <1>3, <3>1 DEF Freed
  <2>9. MakingInv'
    <3>1. \A t \in Structs : Busy(t)' => Busy(t)
      <4> SUFFICES ASSUME NEW t \in Structs, Busy(t)' PROVE Busy(t)
        OBVIOUS
      <4>1. WorkRefs(t)' > 0 => WorkRefs(t) > 0
        BY <1>6, WorkRefsFall, Parts, PartsNext
      <4> QED
        BY <2>4, <2>5, <4>1 DEF Busy, LessPass, Procs
    <3>2. \A q \in Procs : pc'[q] = "att_alloc" => \A t \in Structs : u'[t].ref = 0
      BY <1>8, <2>2, <2>4 DEF HeldInv, MakingInv
    <3>3. \A q \in Procs, t \in Structs : Making(q, t)' => ~Busy(t)' /\ u'[t].flags = {}
      BY <1>8, <2>2, <2>4, <3>1 DEF HeldInv, MakingInv
    <3>4. ~(BeingMade("stap")' /\ BeingMade("task")')
      BY <1>8, <2>4 DEF HeldInv, MakingInv, Procs
    <3> QED
      BY <3>2, <3>3, <3>4 DEF MakingInv
  <2>10. EmptyInv'
    <3>1. ListOf(s)' = {}
      BY <1>3 DEF Freed
    <3> QED
      BY <1>1, <1>8, <2>2, <3>1 DEF HeldInv, EmptyInv
  <2>11. AttachedInv'
    BY <1>1, <1>8, <2>2, <2>4 DEF HeldInv, AttachedInv, Procs
  <2>12. CleanInv'
    <3>1. \A q \in Procs : pc'[q] = "cleanup" => q # p /\ pc[q] = "cleanup" /\ at'[q] = at[q]
      BY <1>4, <1>5 DEF Stays, PutTargets, CallPuts
    <3>2. \A q \in Procs : pc'[q] = "cleanup" =>
             at[q].s \in Structs /\ u'[at[q].s].mem = "live" /\ u'[at[q].s].ref = 0
      <4> SUFFICES ASSUME NEW q \in Procs, pc'[q] = "cleanup"
                   PROVE  at[q].s \in Structs /\ u'[at[q].s].mem = "live" /\ u'[at[q].s].ref = 0
        OBVIOUS
      <4>1. at[q].s \in Structs /\ u[at[q].s].mem = "live" /\ u[at[q].s].ref = 0
        BY <1>s, <1>8, <3>1 DEF UseInv, UsesStruct, HeldInv, CleanInv
      <4>2. at[q].s # s
        BY <1>1, <1>2, <1>8, <3>1 DEF HeldInv, CleanInv, Procs
      <4> QED
        BY <2>2, <4>1, <4>2
    <3>3. ~(pc'["stap"] = "cleanup" /\ pc'["task"] = "cleanup")
      BY <3>1 DEF Procs
    <3>4. pc'["task"] = "cleanup" => at'["task"].k # "put2"
      BY <1>8, <3>1 DEF HeldInv, CleanInv, Procs
    <3> QED
      BY <3>1, <3>2, <3>3, <3>4 DEF CleanInv
  <2>13. EngineHeld'
    <3> SUFFICES ASSUME ~tk'.exiting, NEW q \in Procs, NEW d \in Engines, HasEngine(q, d)'
                 PROVE  eng'[d].mem = "live"
      BY DEF EngineHeld
    <3>1. eng[d].mem = "live"
      BY <1>1, <1>7, <1>8 DEF NoGain, HeldInv, EngineHeld
    <3>2. ListOf(s) = {}
      BY <1>1, <1>8, <2>1 DEF HeldInv, EmptyInv
    <3> QED
      BY <1>3, <3>1, <3>2 DEF Freed
  <2> QED
    BY <2>7, <2>8, <2>9, <2>10, <2>11, <2>12, <2>13 DEF HeldInv
<1> QED
  BY <1>5, <1>8 DEF KeepsHeld

(* The steps of __stp_utrace_attach() keep the structs held.                *)
LEMMA AttachStepHeld ==
    ASSUME Sound, ~Oops, NEW p \in Procs, AttachStep(p)
    PROVE  KeepsHeld
BY PutHeld, CleanupHeld, AttachGetHeld, AllocHeld, AddHeld, FailedHeld, SetEventsGetHeld,
   SetEventsHeld, ControlGetHeld, ControlHeld, WorkGetHeld, EnginePutHeld DEF AttachStep

-----------------------------------------------------------------------------
(* The other steps of the stap thread.                                      *)

(* It moves between places where it uses no struct, and may take works back. *)
LEMMA StapMoves ==
    ASSUME Sound, Stays("stap"), UNCHANGED <<table, u, eng, tk, rep, taken>>, works' \subseteq works,
           pc'["stap"] \notin UsesStruct \cup {"att_alloc"}, NoGain, CodeInv', GaveUp => GaveUp',
           AttachedBy("stap")' => AttachedBy("stap") \/ tk.exiting
    PROVE  KeepsHeld
<1>s. Objects /\ UseInv /\ LifeInv /\ WorkInv
  BY Shapes
<1>1. NoNewWork /\ SameAdded /\ Objects'
  BY <1>s, NoNewWorks, SameMemory, MemEffects
<1>2. ControlInv'
  BY <1>s, <1>1, LifeStays, WorkInvKept DEF Stays, Procs, ControlInv
<1>3. LessHeld("stap")
  BY Rests DEF LessHeld, LessCall
<1>4. ASSUME HeldInv PROVE HeldInv'
  <2>1. EngineHeld'
    BY <1>4, EnginesStay
  <2>2. \A s \in Structs : /\ u'[s].ref = u[s].ref /\ u'[s].mem = u[s].mem
                           /\ ListOf(s)' \subseteq ListOf(s) /\ u'[s].flags = u[s].flags
    BY DEF ListOf
  <2>3. "stap" \in Procs /\ "stap" # "task"
    BY DEF Procs
  <2> QED
    BY <1>s, <1>1, <1>3, <1>4, <2>1, <2>2, <2>3, MoveHeld
<1> QED
  BY <1>2, <1>4 DEF KeepsHeld

(* The thread goes on without a call, and its return code stays.            *)
LEMMA StapGoes ==
    ASSUME Sound, UNCHANGED <<table, u, eng, tk, rep, taken, at>>, works' \subseteq works, NoGain,
           NEW l \in StopLabels \cup {"post", "running"}, pc'["stap"] = l,
           pc'["task"] = pc["task"],
           pc["stap"] \in StopLabels \cup {"s_finder", "s_target", "post", "running"},
           l = "post" => /\ pc["stap"] \in {"s_finder", "s_target"}
                         /\ at["stap"].rc \in {"0", "EPERM"}
    PROVE  KeepsHeld
<1>s. CodeInv
  BY Shapes
<1>1. Stays("stap")
  BY DEF Stays, Procs
<1>2. l \notin UsesStruct \cup {"att_alloc"} \cup PutLabels \cup UsesEngine \cup {"att_fail", "ctl_count"}
  BY DEF UsesStruct, StopLabels, PutLabels, UsesEngine
<1>3. ~Failing /\ ~Failing'
  BY <1>2 DEF Failing, PutLabels, StopLabels
<1>4. CodeInv'
  BY <1>s, <1>3 DEF CodeInv
<1>5. GaveUp => GaveUp'
  BY <1>2 DEF GaveUp, PutLabels
<1>6. AttachedBy("stap")' => AttachedBy("stap") \/ tk.exiting
  <2>1. CASE l = "post"
    BY <1>s, <2>1 DEF AttachedBy, CodeInv
  <2>2. CASE l # "post"
    <3>1. l \notin {"s_finder", "s_target", "post_find", "ev_set", "ctl_lock"}
      BY DEF StopLabels
    <3> QED
      BY <1>2, <2>2, <3>1 DEF AttachedBy, WithEngine
  <2> QED
    BY <2>1, <2>2
<1> QED
  BY <1>1, <1>2, <1>4, <1>5, <1>6, StapMoves

(* It calls __stp_utrace_attach(), and goes on in the call or, for a task
   without an mm, behind it.                                                *)
LEMMA StapCalls ==
    ASSUME Sound, UNCHANGED <<table, u, eng, tk, rep, taken, works>>, NoGain,
           NEW ret \in {"s_finder", "s_target"}, pc["stap"] \in {"start", "s_finder"},
           at["stap"].rc # "ENOMEM", NEW c, NewCall("stap", c),
           \/ tk.mm /\ c.rc = "0" /\ Goto("stap", "att_get")
           \/ ~tk.mm /\ c.rc = "EPERM" /\ Goto("stap", ret)
    PROVE  KeepsHeld
<1>s. CodeInv /\ Places /\ LifeInv
  BY Shapes
<1>1. PICK l \in {"att_get", ret} : Goto("stap", l) /\ (l = "att_get" => c.rc = "0")
                                    /\ (l # "att_get" => c.rc = "EPERM" /\ tk.exiting)
  BY <1>s DEF LifeInv
<1>2. Stays("stap") /\ pc'["stap"] = l /\ at'["stap"] = c
  <2>1. "stap" \in Procs
    BY DEF Procs
  <2> QED
    BY <1>s, <1>1, <2>1, OthersStay DEF Stays, NewCall
<1>3. l \notin UsesStruct \cup {"att_alloc"} \cup PutLabels \cup UsesEngine \cup {"att_fail", "ctl_count"}
  BY DEF UsesStruct, PutLabels, UsesEngine
<1>4. ~Failing' /\ at'["stap"].rc \in {"0", "EPERM"}
  BY <1>1, <1>2, <1>3 DEF Failing
<1>5. CodeInv'
  BY <1>1, <1>2, <1>4 DEF CodeInv
<1>6. ~GaveUp
  BY DEF GaveUp
<1>7. ~AttachedBy("stap")'
  BY <1>1, <1>2, <1>3 DEF AttachedBy, WithEngine
<1> QED
  BY <1>2, <1>3, <1>5, <1>6, <1>7, StapMoves

(* stap_task_finder_post_init() looks the struct up.                        *)
LEMMA PostGetHeld ==
    ASSUME Sound, ~Oops, PostGet
    PROVE  KeepsHeld
<1>s. Calls /\ Objects /\ Places /\ UseInv /\ PlaceInv /\ CodeInv /\ LifeInv /\ WorkInv
      /\ table \in Seq(Structs) /\ "stap" \in Procs
  BY Shapes DEF Procs
<1>1. /\ pc["stap"] = "post" /\ UNCHANGED <<table, eng, works, taken, tk, rep>>
      /\ \/ Goto("stap", "running") /\ UNCHANGED <<u, at>>
         \/ GetStruct("stap", "post_find", "running", "0")
  BY DEF PostGet, GetStruct, kernel
<1>2. NoGain
  <2>1. ~find_matching_engine
    BY <1>1 DEF find_matching_engine
  <2> QED
    BY <2>1, Shapes, StapUses DEF StapStep
<1>3. at["stap"].rc # "ENOMEM" /\ ~Failing /\ ~GaveUp
  BY <1>s, <1>1 DEF CodeInv, Failing, PutLabels, StopLabels, GaveUp
<1>4. CASE Goto("stap", "running") /\ UNCHANGED <<u, at>>
  <2>1. pc'["stap"] = "running" /\ pc'["task"] = pc["task"]
    BY <1>s, <1>4, OthersStay DEF Procs
  <2> QED
    BY <1>1, <1>2, <1>4, <2>1, StapGoes
<1>5. CASE GetStruct("stap", "post_find", "running", "0")
  <2>1. PICK c : /\ NewCall("stap", c) /\ SameCall("stap", c) /\ c.e = at["stap"].e /\ c.k = at["stap"].k
                 /\ Objects' /\ Unmoved /\ SameAdded
                 /\ \/ c.s = NoStruct /\ UNCHANGED u /\ c.rc = "0" /\ Goto("stap", "running")
                    \/ /\ c.s \in Structs /\ table # <<>> /\ c.s = Head(table)
                       /\ u[c.s].ref > 0 /\ Goto("stap", "post_find") /\ Counts(c.s, 1)
                       /\ c.rc = at["stap"].rc
    <3>1. "0" \in ReturnCodes
      BY DEF ReturnCodes
    <3> QED
      BY <1>s, <1>5, <3>1, GetEffect
  <2>2. Stays("stap") /\ at'["stap"] = c /\ pc'["stap"] \in {"running", "post_find"}
    <3>1. \E l \in {"running", "post_find"} : Goto("stap", l)
      BY <2>1
    <3> QED
      BY <1>s, <2>1, <3>1, OthersStay DEF Stays, NewCall
  <2>3. CodeInv'
    <3>1. ~Failing'
      BY <2>2 DEF Failing, PutLabels
    <3> QED
      BY <1>s, <1>1, <1>3, <2>1, <2>2, <3>1 DEF CodeInv
  <2>4. CASE c.s = NoStruct /\ UNCHANGED u /\ c.rc = "0" /\ Goto("stap", "running")
    <3>1. pc'["stap"] = "running"
      BY <1>s, <2>1, <2>4, OthersStay
    <3>2. ~AttachedBy("stap")' /\ pc'["stap"] \notin UsesStruct \cup {"att_alloc"}
      BY <3>1 DEF AttachedBy, WithEngine, UsesEngine, PutLabels, UsesStruct
    <3> QED
      BY <1>1, <1>2, <1>3, <2>2, <2>3, <2>4, <3>2, StapMoves
  <2>5. CASE /\ c.s \in Structs /\ table # <<>> /\ c.s = Head(table)
             /\ u[c.s].ref > 0 /\ Goto("stap", "post_find") /\ Counts(c.s, 1)
    <3>1. pc'["stap"] = "post_find"
      BY <1>s, <2>1, <2>5, OthersStay
    <3>2. ControlInv'
      <4>1. NoNewWork
        BY <1>1, NoNewWorks
      <4> QED
        BY <1>s, <1>1, <2>1, <2>2, <2>3, <4>1, LifeStays, WorkInvKept DEF Stays, Procs, ControlInv
    <3>3. ASSUME HeldInv PROVE HeldInv'
      <4>1. AttachedBy("stap") /\ ~BeingMade("stap")
        BY <1>1 DEF AttachedBy, BeingMade
      <4>2. \A q \in Procs : ~Making(q, c.s)
        BY <1>s, <2>5, <3>3, <4>1, NotMade
      <4>3. "stap" # "task" /\ pc'["stap"] # "att_eng"
        BY <3>1
      <4> QED
        BY <1>s, <1>1, <1>2, <1>3, <2>1, <2>2, <2>5, <3>1, <3>3, <4>1, <4>2, <4>3, FoundHeld
    <3> QED
      BY <3>2, <3>3 DEF KeepsHeld
  <2> QED
    BY <2>1, <2>4, <2>5
<1> QED
  BY <1>1, <1>4, <1>5

(* find_matching_engine() takes a reference on an engine of a list, which is
   in memory.                                                               *)
LEMMA FindHeld ==
    ASSUME Sound, ~Oops, find_matching_engine
    PROVE  KeepsHeld
<1>s. Calls /\ Objects /\ Handles /\ Places /\ UseInv /\ EngineInv /\ CodeInv /\ LifeInv /\ WorkInv
      /\ "stap" \in Procs
  BY Shapes DEF Procs
<1>1. pc["stap"] = "post_find" /\ UNCHANGED <<table, u, works, taken, tk, rep>> /\ Goto("stap", "put")
  BY DEF find_matching_engine, kernel
<1>2. PICK s \in Structs : at["stap"].s = s
  BY <1>s, <1>1 DEF UseInv, UsesStruct
<1>3. PICK c : /\ NewCall("stap", c) /\ c.s = s /\ c.k \in {"running", "ctl_get"}
               /\ c.rc \in {at["stap"].rc, "0"}
               /\ \A d \in Engines : eng'[d].mem = eng[d].mem
               /\ c.k = "ctl_get" => c.e \in ListOf(s)
  <2>1. \/ /\ UNCHANGED eng
           /\ \E c : /\ NewCall("stap", c) /\ SameCall("stap", c) /\ c.s = s
                     /\ c.found = at["stap"].found /\ c.rc = at["stap"].rc
                     /\ c.e = at["stap"].e /\ c.k = "running"
        \/ \E e \in ListOf(s) :
           /\ e \in Engines /\ Handles'
           /\ \A d \in Engines : /\ eng'[d].mem = eng[d].mem
                                 /\ eng'[d].ref = IF d = e THEN eng[d].ref + 1 ELSE eng[d].ref
           /\ \E c : /\ NewCall("stap", c) /\ c.s = s /\ c.e = e /\ c.act = "INTERRUPT"
                     /\ c.k = "ctl_get" /\ c.ret = "running" /\ c.rc = "0" /\ ~c.found
    BY <1>s, <1>2, FindEffect
  <2> QED
    BY <2>1
<1>4. Stays("stap") /\ pc'["stap"] = "put" /\ at'["stap"] = c
  BY <1>s, <1>1, <1>3, OthersStay DEF Stays, NewCall
<1>5. at["stap"].rc # "ENOMEM" /\ ~GaveUp /\ ~Failing'
  BY <1>s, <1>1, <1>3, <1>4 DEF CodeInv, Failing, PutLabels, StopLabels, GaveUp
<1>6. CodeInv'
  BY <1>s, <1>1, <1>3, <1>4, <1>5 DEF CodeInv
<1>7. NoNewWork /\ SameAdded /\ Objects'
  BY <1>s, <1>1, NoNewWorks, SameMemory, MemEffects
<1>8. ControlInv'
  BY <1>s, <1>1, <1>4, <1>6, <1>7, LifeStays, WorkInvKept DEF Stays, Procs, ControlInv
<1>9. LessHeld("stap")
  <2>1. \A t \in Structs : ~Making("stap", t)' /\ (CallHolds("stap", t)' => CallHolds("stap", t))
    BY <1>1, <1>2, <1>3, <1>4 DEF Making, CallHolds
  <2>2. ~BeingMade("stap")' /\ AttachedBy("stap")
    BY <1>1, <1>3, <1>4 DEF BeingMade, AttachedBy
  <2> QED
    BY <1>4, <2>1, <2>2 DEF LessHeld, LessCall
<1>10. ASSUME HeldInv PROVE HeldInv'
  <2>1. EngineHeld'
    <3> SUFFICES ASSUME ~tk'.exiting, NEW q \in Procs, NEW e \in Engines, HasEngine(q, e)'
                 PROVE  eng'[e].mem = "live"
      BY DEF EngineHeld
    <3>1. CASE q = "task"
      <4>1. HasEngine("task", e)
        BY <1>4, <3>1 DEF Stays, Procs, HasEngine, WithEngine
      <4> QED
        BY <1>1, <1>3, <1>10, <3>1, <4>1 DEF HeldInv, EngineHeld
    <3>2. CASE q = "stap"
      <4>1. c.e = e /\ c.k = "ctl_get"
        BY <1>3, <1>4, <3>2 DEF HasEngine, WithEngine, UsesEngine, PutLabels
      <4>2. Listed(e)
        BY <1>3, <4>1 DEF Listed
      <4> QED
        BY <1>s, <1>3, <4>2 DEF EngineInv
    <3> QED
      BY <3>1, <3>2 DEF Procs
  <2>2. \A t \in Structs : /\ u'[t].ref = u[t].ref /\ u'[t].mem = u[t].mem
                           /\ ListOf(t)' \subseteq ListOf(t) /\ u'[t].flags = u[t].flags
    BY <1>1 DEF ListOf
  <2>3. "stap" # "task"
    OBVIOUS
  <2> QED
    BY <1>s, <1>1, <1>4, <1>5, <1>7, <1>9, <1>10, <2>1, <2>2, <2>3, MoveHeld
<1> QED
  BY <1>8, <1>10 DEF KeepsHeld

(* utrace_exit() frees what is left when nobody uses it any more.           *)
LEMMA UtraceExitHeld ==
    ASSUME Sound, ~Oops, utrace_exit
    PROVE  KeepsHeld
<1>s. Objects /\ Handles /\ Places /\ UseInv /\ ListInv /\ CodeInv /\ LifeInv /\ WorkInv
      /\ table \in Seq(Structs) /\ "stap" \in Procs
  BY Shapes DEF Procs
<1> DEFINE S == {s \in ToSet(table) : u[s].ref > 0}
<1>1. /\ pc["stap"] = "st_free" /\ UNCHANGED <<works, taken, tk, rep, at, early>>
      /\ FreeStructs(S) /\ Goto("stap", "unloaded")
  BY DEF utrace_exit, kernel, hist
<1>2. ToSet(table) \subseteq Structs
  BY <1>s, ToSetParts
<1>3. Freed(S)
  <2>1. S \in SUBSET Structs
    BY <1>2
  <2> QED
    BY <1>s, <1>1, <2>1, FreeEffect
<1>4. Stays("stap") /\ pc'["stap"] = "unloaded" /\ at'["stap"] = at["stap"]
  BY <1>s, <1>1, OthersStay DEF Stays
<1>5. ControlInv'
  <2>1. NoNewWork /\ SameAdded
    BY <1>1, <1>3, NoNewWorks DEF Freed
  <2>2. CodeInv'
    BY <1>s, <1>1, <1>4 DEF CodeInv, Failing, PutLabels, StopLabels
  <2> QED
    BY <1>s, <1>1, <1>4, <2>1, <2>2, LifeStays, WorkInvKept DEF Stays, Procs, ControlInv
<1>6. ASSUME HeldInv, ~early' PROVE HeldInv'
  <2>1. works = {} /\ taken = {} /\ pc["task"] \in Uncounted
    BY <1>1, <1>6 DEF Sound, QuietInv, CountInv, CallbacksFinished
  <2>2. \A s \in Structs : u'[s].ref = 0
    <3> SUFFICES ASSUME NEW s \in Structs PROVE u'[s].ref = 0
      OBVIOUS
    <3>1. u[s].ref \in Nat
      BY <1>s, <1>6, Counted DEF HeldInv
    <3>2. CASE s \in S
      BY <1>3, <3>2 DEF Freed
    <3>3. CASE s \notin S
      <4>1. u[s].ref = 0
        BY <1>s, <3>1, <3>3 DEF ListInv
      <4> QED
        BY <1>3, <3>3, <4>1 DEF Freed
    <3> QED
      BY <3>2, <3>3
  <2>3. \A p \in Procs : /\ pc'[p] \notin UsesStruct \cup {"att_alloc"} \cup UsesEngine
                         /\ pc'[p] \notin {"s_finder", "s_target", "post", "ctl_count"} \cup PutLabels
    BY <1>4, <2>1 DEF Stays, Procs, Uncounted, UsesStruct, UsesEngine, PutLabels
  <2>4. \A p \in Procs : /\ \A t \in Structs : ~CallHolds(p, t)' /\ ~Making(p, t)'
                         /\ ~BeingMade(p)' /\ pc'[p] # "att_alloc" /\ pc'[p] # "cleanup"
    BY <2>3, Rests
  <2>5. \A p \in Procs : ~WithEngine(p)'
    BY <2>3 DEF WithEngine
  <2>6. \A p \in Procs : ~AttachedBy(p)'
    BY <2>3, <2>5 DEF AttachedBy, UsesEngine, UsesStruct
  <2>7. \A t \in Structs : PassRefs(t)' = 0 /\ WorkRefs(t)' = 0
    <3>1. ~InPass'
      BY <1>4, <2>1 DEF Stays, Procs, Uncounted, InPass, UsesReport, Calling, CallLabels, PutLabels
    <3> QED
      BY <1>1, <2>1, <3>1 DEF PassRefs, WorkRefs, One
  <2>8. RefsCounted'
    <3> SUFFICES ASSUME NEW t \in Structs PROVE u'[t].ref >= Refs(t)'
      BY DEF RefsCounted
    <3>1. ~Owned(t)'
      BY <2>2, <2>4 DEF Owned, Procs
    <3>2. One(Owned(t)') = 0 /\ One(CallHolds("stap", t)') = 0 /\ One(CallHolds("task", t)') = 0
      BY <2>4, <3>1 DEF One, Procs
    <3> QED
      BY <2>2, <2>7, <3>2, PartsNext
  <2>9. EmptyInv'
    <3> SUFFICES ASSUME NEW t \in Structs, ~tk'.exiting PROVE ListOf(t)' = {}
      BY DEF EmptyInv
    <3>1. CASE t \in S
      BY <1>3, <3>1 DEF Freed
    <3>2. CASE t \notin S
      <4>1. u'[t] = u[t]
        BY <1>3, <3>2 DEF Freed
      <4>2. ListOf(t) = {}
        BY <1>1, <1>6, <2>2, <4>1 DEF HeldInv, EmptyInv
      <4> QED
        BY <4>1, <4>2 DEF ListOf
    <3> QED
      BY <3>1, <3>2
  <2>10. OneCurrent'
    BY <2>2 DEF OneCurrent
  <2>11. MakingInv' /\ CleanInv' /\ AttachedInv' /\ EngineHeld'
    BY <2>4, <2>5, <2>6 DEF MakingInv, CleanInv, AttachedInv, EngineHeld, HasEngine, Procs
  <2> QED
    BY <2>8, <2>9, <2>10, <2>11 DEF HeldInv
<1> QED
  BY <1>5, <1>6 DEF KeepsHeld

(* All of them.                                                             *)
LEMMA StapHeld ==
    ASSUME Sound, ~Oops, StapStep
    PROVE  KeepsHeld
<1>s. Calls /\ Places /\ CodeInv /\ "stap" \in Procs
  BY Shapes DEF Procs
<1>n. ~find_matching_engine => NoGain
  BY Shapes, StapUses
<1>g. ASSUME UNCHANGED <<table, u, eng, tk, rep, taken, at>>, works' \subseteq works,
             ~find_matching_engine, NEW l \in StopLabels \cup {"post", "running"}, Goto("stap", l),
             pc["stap"] \in StopLabels \cup {"s_finder", "s_target", "running"},
             l = "post" => /\ pc["stap"] \in {"s_finder", "s_target"}
                           /\ at["stap"].rc \in {"0", "EPERM"}
      PROVE  KeepsHeld
  <2>1. pc'["stap"] = l /\ pc'["task"] = pc["task"]
    BY <1>s, <1>g, OthersStay DEF Procs
  <2> QED
    BY <1>g, <1>n, <2>1, StapGoes
<1>c. ASSUME NEW ops \in OpsValues, NEW ev \in SUBSET EventBits, NEW act \in {"RESUME", "INTERRUPT"},
             NEW ret \in {"s_finder", "s_target"}, Call("stap", ops, ev, act, ret),
             pc["stap"] \in {"start", "s_finder"}, at["stap"].rc # "ENOMEM",
             UNCHANGED <<table, u, eng, tk, rep, taken, works>>
      PROVE  KeepsHeld
  <2>1. ret \in Labels /\ act \in {"NONE", "RESUME", "INTERRUPT"}
    BY LabelNames
  <2>2. \E c : /\ NewCall("stap", c)
               /\ \/ tk.mm /\ c.rc = "0" /\ Goto("stap", "att_get")
                  \/ ~tk.mm /\ c.rc = "EPERM" /\ Goto("stap", ret)
    BY <1>s, <1>c, <2>1, CallEffect
  <2>3. ~find_matching_engine
    BY <1>c DEF find_matching_engine
  <2> QED
    BY <1>c, <1>n, <2>2, <2>3, StapCalls
<1>l. /\ {"st_state", "st_unreg", "st_sync", "st_cancel", "st_inuse", "st_tfc", "st_wait", "st_sleep",
          "st_free"} \subseteq StopLabels
      /\ \A l \in StopLabels \cup {"s_finder", "s_target", "running", "start", "post"} :
           pc["stap"] = l => ~find_matching_engine
  BY DEF StopLabels, find_matching_engine
<1>1. ASSUME StartFinder PROVE KeepsHeld
  <2>1. /\ pc["stap"] = "start" /\ UNCHANGED <<table, u, eng, tk, rep, taken, works>>
        /\ Call("stap", "finder", FinderEvents, "RESUME", "s_finder")
    BY <1>1 DEF StartFinder, kernel
  <2>2. at["stap"].rc # "ENOMEM"
    BY <1>s, <2>1 DEF CodeInv, Failing, StopLabels, PutLabels
  <2> QED
    BY <1>c, <2>1, <2>2, EventSets
<1>2. ASSUME StartTarget PROVE KeepsHeld
  <2>1. /\ pc["stap"] = "s_finder" /\ UNCHANGED <<table, u, eng, tk, rep, taken, works>>
        /\ \/ /\ Call("stap", "target", TargetEvents, "INTERRUPT", "s_target")
              /\ at["stap"].rc = "0"
           \/ /\ UNCHANGED at
              /\ \/ Goto("stap", "post") /\ at["stap"].rc \in {"0", "EPERM"}
                 \/ Goto("stap", "st_state")
    BY <1>2 DEF StartTarget, kernel
  <2>2. CASE /\ Call("stap", "target", TargetEvents, "INTERRUPT", "s_target")
             /\ at["stap"].rc = "0"
    BY <1>c, <2>1, <2>2, EventSets
  <2>3. CASE /\ UNCHANGED at
             /\ \/ Goto("stap", "post") /\ at["stap"].rc \in {"0", "EPERM"}
                \/ Goto("stap", "st_state")
    BY <1>g, <1>l, <2>1, <2>3
  <2> QED
    BY <2>1, <2>2, <2>3
<1>3. ASSUME StartDone PROVE KeepsHeld
  <2>1. /\ pc["stap"] = "s_target" /\ UNCHANGED <<table, u, eng, tk, rep, taken, works, at>>
        /\ \/ Goto("stap", "post") /\ at["stap"].rc \in {"0", "EPERM"}
           \/ Goto("stap", "st_state")
    BY <1>3 DEF StartDone, kernel
  <2> QED
    BY <1>g, <1>l, <2>1
<1>4. ASSUME Stop PROVE KeepsHeld
  BY <1>4, <1>g, <1>l DEF Stop, kernel
<1>5. ASSUME CloseFinder PROVE KeepsHeld
  BY <1>5, <1>g, <1>l DEF CloseFinder, kernel
<1>6. ASSUME utrace_shutdown PROVE KeepsHeld
  BY <1>6, <1>g, <1>l DEF utrace_shutdown, kernel
<1>7. ASSUME Synchronize PROVE KeepsHeld
  BY <1>7, <1>g, <1>l DEF Synchronize, kernel
<1>8. ASSUME WaitInuse PROVE KeepsHeld
  BY <1>8, <1>g, <1>l DEF WaitInuse, kernel
<1>9. ASSUME stp_task_work_exit PROVE KeepsHeld
  BY <1>9, <1>g, <1>l DEF stp_task_work_exit, kernel
<1>h. ASSUME UNCHANGED <<table, u, eng, tk, rep, taken, at, pc>>, works' \subseteq works,
             pc["stap"] \in StopLabels
      PROVE  KeepsHeld
  <2>1. ~find_matching_engine
    BY <1>h, <1>l
  <2>2. pc'["stap"] = pc["stap"] /\ pc'["task"] = pc["task"]
    BY <1>h
  <2>3. pc["stap"] # "post"
    BY <1>h DEF StopLabels
  <2> QED
    BY <1>h, <1>n, <2>1, <2>2, <2>3, StapGoes
<1>10. ASSUME CancelUtraceWork PROVE KeepsHeld
  <2>1. /\ pc["stap"] = "st_cancel" /\ UNCHANGED <<taken, tk, at, rep>>
        /\ works' \subseteq works /\ (UNCHANGED pc \/ Goto("stap", "st_inuse"))
    BY <1>10, CancelControl
  <2>2. UNCHANGED <<table, u, eng>>
    BY <1>10, Zenon DEF CancelUtraceWork
  <2> QED
    BY <1>g, <1>h, <1>l, <2>1, <2>2
<1>11. ASSUME CancelTfWork PROVE KeepsHeld
  <2>1. /\ pc["stap"] = "st_tfc" /\ UNCHANGED <<table, u, eng, taken, tk, at, rep>>
        /\ works' \subseteq works /\ (UNCHANGED pc \/ Goto("stap", "st_wait"))
    BY <1>11, Zenon DEF CancelTfWork
  <2> QED
    BY <1>g, <1>h, <1>l, <2>1
<1> QED
  BY <1>1, <1>2, <1>3, <1>4, <1>5, <1>6, <1>7, <1>8, <1>9, <1>10, <1>11, PostGetHeld, FindHeld,
     UtraceExitHeld DEF StapStep

-----------------------------------------------------------------------------
(* The tracepoint probes.                                                   *)

(* The places of the task outside __stp_utrace_attach(), and a put of a pass. *)
Away ==
    \/ pc["task"] \in ProbeLabels \cup PassLabels \cup TfLabels \cup Uncounted
    \/ pc["task"] = "put" /\ at["task"].k \in PassPuts

(* There the task holds nothing for a call.                                 *)
LEMMA AwayLess ==
    ASSUME Away'
    PROVE  /\ LessHeld("task") /\ ~Calling("task")'
           /\ \A s \in Structs : ~CallHolds("task", s)' /\ ~Making("task", s)'
<1>1. CASE pc'["task"] \in ProbeLabels \cup PassLabels \cup TfLabels \cup Uncounted
  <2>1. pc'["task"] \notin CallLabels \cup PutLabels \cup {"post", "post_find", "s_finder", "s_target"}
    BY <1>1 DEF ProbeLabels, PassLabels, TfLabels, Uncounted, CallLabels, PutLabels
  <2>2. \A s \in Structs : ~CallHolds("task", s)' /\ ~Making("task", s)'
    BY <2>1 DEF CallHolds, Making, CallLabels, PutLabels
  <2>3. ~BeingMade("task")' /\ ~AttachedBy("task")' /\ pc'["task"] \notin {"att_alloc", "cleanup"}
    BY <2>1 DEF BeingMade, AttachedBy, WithEngine, UsesEngine, CallLabels, PutLabels
  <2>4. ~Calling("task")'
    BY <2>1 DEF Calling
  <2> QED
    BY <2>2, <2>3, <2>4 DEF LessHeld, LessCall
<1>2. CASE pc'["task"] = "put" /\ at'["task"].k \in PassPuts
  <2>1. at'["task"].k \notin CallPuts \cup {"running"}
    BY <1>2 DEF PassPuts, CallPuts
  <2>2. \A s \in Structs : ~CallHolds("task", s)' /\ ~Making("task", s)'
    BY <1>2, <2>1 DEF CallHolds, Making, CallPuts
  <2>3. ~BeingMade("task")' /\ ~AttachedBy("task")'
    BY <1>2, <2>1 DEF BeingMade, AttachedBy, WithEngine, UsesEngine, CallPuts
  <2>4. ~Calling("task")'
    BY <1>2, <2>1 DEF Calling, CallLabels
  <2> QED
    BY <1>2, <2>2, <2>3, <2>4 DEF LessHeld, LessCall
<1> QED
  BY <1>1, <1>2 DEF Away

(* The task moves, and no count changes.                                    *)
LEMMA TaskHeld ==
    ASSUME Sound, Stays("task"), UNCHANGED table, LessHeld("task"), LessPass, ~TracepointPuts,
           pc'["task"] = "tp_get" => pc["task"] = "tp_get" \/ ~tk.exiting,
           NoNewWork, SameAdded, Objects', LifeInv', tk.exiting => tk'.exiting,
           HeldInv => EngineHeld',
           \A s \in Structs : /\ u'[s].ref = u[s].ref /\ u'[s].mem = u[s].mem
                              /\ ListOf(s)' \subseteq ListOf(s)
                              /\ u'[s].flags = u[s].flags \/ Busy(s)
    PROVE  KeepsHeld
<1>s. Objects /\ UseInv /\ WorkInv /\ CodeInv /\ "task" \in Procs /\ "task" # "stap"
  BY Shapes DEF Procs
<1>1. ControlInv'
  BY <1>s, WorkInvKept, CodeKept DEF ControlInv, Stays, Procs
<1>2. ASSUME HeldInv PROVE HeldInv'
  BY <1>s, <1>2, MoveHeld
<1> QED
  BY <1>1, <1>2 DEF KeepsHeld

(* ... and neither does the memory.                                         *)
LEMMA TaskMoveHeld ==
    ASSUME Sound, Stays("task"), UNCHANGED <<table, u>>, LessHeld("task"), LessPass, ~TracepointPuts,
           pc'["task"] = "tp_get" => pc["task"] = "tp_get" \/ ~tk.exiting,
           NoNewWork, LifeInv', tk.exiting => tk'.exiting, NoGain,
           \A e \in Engines : eng'[e].mem = eng[e].mem
    PROVE  KeepsHeld
<1>1. SameAdded /\ Objects'
  BY Shapes, SameMemory, MemEffects
<1>2. HeldInv => EngineHeld'
  BY EnginesStay
<1>3. \A s \in Structs : /\ u'[s].ref = u[s].ref /\ u'[s].mem = u[s].mem
                         /\ ListOf(s)' \subseteq ListOf(s) /\ u'[s].flags = u[s].flags
  BY DEF ListOf
<1> QED
  BY <1>1, <1>2, <1>3, TaskHeld

(* There is no pass after the step.                                         *)
LEMMA NoPass ==
    ASSUME ~InPass'
    PROVE  LessPass /\ \A s : PassRefs(s)' = 0
<1>1. \A s : PassRefs(s)' = 0 /\ PassRefs(s) \in Nat
  BY Parts DEF PassRefs
<1> QED
  BY <1>1 DEF LessPass, InUse

(* The places outside a pass.                                               *)
LEMMA OutOfPass ==
    ASSUME pc'["task"] \in ProbeLabels \cup TfLabels \cup Uncounted \cup {"w_done"}
    PROVE  ~InPass' /\ Away'
BY DEF InPass, Away, UsesReport, PutLabels, CallLabels, Calling, ProbeLabels, PassLabels, TfLabels,
   Uncounted

(* A step from outside a pass and outside a call, or to the outside.        *)
LEMMA OutHeld ==
    ASSUME Sound, UNCHANGED <<table, u, eng>>, NEW l, pc'["task"] = l,
           pc'["stap"] = pc["stap"], at'["stap"] = at["stap"],
           l \in ProbeLabels \cup TfLabels \cup Uncounted \cup {"w_done"}, pc["task"] \notin PutLabels,
           l = "tp_get" => pc["task"] = "tp_get" \/ ~tk.exiting,
           NoNewWork, LifeInv', tk.exiting => tk'.exiting, NoGain
    PROVE  KeepsHeld
<1>1. Stays("task")
  BY DEF Stays, Procs
<1>2. LessHeld("task") /\ LessPass
  BY OutOfPass, AwayLess, NoPass
<1>3. ~TracepointPuts
  BY DEF TracepointPuts, PutLabels
<1> QED
  BY <1>1, <1>2, <1>3, TaskMoveHeld

(* Exec and exit.                                                           *)
LEMMA ExecHeld ==
    ASSUME Sound, ~Oops, Exec
    PROVE  KeepsHeld
<1>s. Places /\ LifeInv
  BY Shapes
<1>1. /\ pc["task"] = "user" /\ UNCHANGED <<table, u, eng, works, taken, tk, at>>
      /\ Goto("task", "tp_get") /\ rep' = [NoReport EXCEPT !.ev = "EXEC", !.tp = TRUE]
  BY DEF Exec, kernel, others
<1>2. pc'["task"] = "tp_get" /\ pc'["stap"] = pc["stap"] /\ rep'.ev = "EXEC"
  BY <1>s, <1>1, TaskGoes, FreshReport
<1>3. NoNewWork /\ NoGain
  BY <1>1, Shapes, NoNewWorks, ProbeUses DEF ProbeStep
<1>4. ~tk.exiting
  BY <1>s, <1>1 DEF LifeInv
<1>5. LifeInv'
  <2>1. ~Calling("task")'
    BY <1>2 DEF Calling, CallLabels, PutLabels
  <2>2. \A s \in Structs : Report(s)' \in works' \cup taken' => tk'.exiting
    BY <1>s, <1>1 DEF LifeInv, Report
  <2> QED
    BY <1>s, <1>1, <1>2, <1>4, <2>1, <2>2 DEF LifeInv
<1>6. "tp_get" \in ProbeLabels /\ "user" \notin PutLabels
  BY DEF ProbeLabels, PutLabels
<1> QED
  BY <1>1, <1>2, <1>3, <1>4, <1>5, <1>6, OutHeld

(* do_exit()                                                                *)
LEMMA ExitHeld ==
    ASSUME Sound, ~Oops, Exit
    PROVE  KeepsHeld
<1>s. Places /\ LifeInv /\ PlaceInv
      /\ tk \in [mm : BOOLEAN, exiting : BOOLEAN, workExited : BOOLEAN,
                 exit : {"none", "zombie", "dead"}]
  BY Shapes DEF TypeInv, SimpleTypes, WorkTypes
<1>1. /\ pc["task"] = "user" /\ UNCHANGED <<table, u, eng, works, taken, at>>
      /\ tk' = [tk EXCEPT !.mm = FALSE, !.exiting = TRUE]
      /\ \/ /\ Goto("task", "tp_get") /\ rep' = [NoReport EXCEPT !.ev = "DEATH", !.tp = TRUE]
         \/ Goto("task", "tw") /\ UNCHANGED rep
  BY DEF Exit, kernel, others
<1>2. PICK l \in {"tp_get", "tw"} : /\ Goto("task", l) /\ (l = "tp_get" => rep'.ev = "DEATH")
                                    /\ l = "tw" => UNCHANGED rep
  BY <1>1, FreshReport
<1>3. pc'["task"] = l /\ pc'["stap"] = pc["stap"]
  BY <1>s, <1>2, TaskGoes
<1>4. NoNewWork /\ NoGain
  BY <1>1, Shapes, NoNewWorks, ProbeUses DEF ProbeStep
<1>5. ~tk.exiting /\ tk'.exiting /\ ~tk'.mm /\ tk'.exit = tk.exit
  BY <1>s, <1>1 DEF LifeInv
<1>6. rep.ev = "NONE"
  BY <1>s, <1>1 DEF PlaceInv, ProbeSide, Uncounted
<1>7. LifeInv'
  <2>1. ~Calling("task")'
    BY <1>3 DEF Calling, CallLabels, PutLabels
  <2>2. tk'.mm = ~tk'.exiting
    BY <1>s, <1>1
  <2>3. rep'.ev \in {"DEATH", "NONE"} /\ pc'["task"] # "user"
        /\ (pc'["task"] = "tp_get" => rep'.ev # "NONE")
    BY <1>2, <1>3, <1>6
  <2> QED
    BY <1>5, <2>1, <2>2, <2>3 DEF LifeInv
<1>8. l \in ProbeLabels \cup Uncounted /\ "user" \notin PutLabels
  BY DEF ProbeLabels, Uncounted, PutLabels
<1> QED
  BY <1>1, <1>3, <1>4, <1>5, <1>7, <1>8, OutHeld

(* A tracepoint probe of a death queues the report work, which has two
   references: the one the probe took and the one of the table.             *)
LEMMA ReportedWork ==
    ASSUME Sound, NEW s \in Structs, ~u[s].reportAdded, works' = works \cup {Report(s)},
           UNCHANGED taken,
           \A t \in Structs : /\ u'[t].reportAdded = (t = s \/ u[t].reportAdded)
                              /\ u'[t].resumeAdded = u[t].resumeAdded
    PROVE  /\ WorkInv'
           /\ \A t \in Structs : /\ WorkRefs(t)' <= WorkRefs(t) + 2 * One(t = s)
                                 /\ t # s => WorkRefs(t)' = WorkRefs(t)
<1>s. WorkInv
  BY Shapes
<1>0. \A t : Resume(t)' = Resume(t) /\ Report(t)' = Report(t)
  BY DEF Resume, Report
<1>1. \A t \in Structs : /\ Resume(t) \in works' <=> Resume(t) \in works
                         /\ Report(t) \in works' <=> Report(t) \in works \/ t = s
  BY WorkDistinct
<1>2. Report(s) \notin works \cup taken
  BY <1>s DEF WorkInv
<1>3. WorkInv'
  BY <1>s, <1>0, <1>1, <1>2 DEF WorkInv
<1>4. \A t \in Structs : /\ WorkRefs(t)' <= WorkRefs(t) + 2 * One(t = s)
                         /\ t # s => WorkRefs(t)' = WorkRefs(t)
  <2> SUFFICES ASSUME NEW t \in Structs PROVE /\ WorkRefs(t)' <= WorkRefs(t) + 2 * One(t = s)
                                              /\ t # s => WorkRefs(t)' = WorkRefs(t)
    OBVIOUS
  <2>1. One(Report(t) \in works' \cup taken') <= One(Report(t) \in works \cup taken) + One(t = s)
    BY <1>1 DEF One
  <2>2. One(Resume(t) \in works' \cup taken') = One(Resume(t) \in works \cup taken)
    BY <1>1 DEF One
  <2>3. t # s => One(Report(t) \in works' \cup taken') = One(Report(t) \in works \cup taken)
    BY <1>1 DEF One
  <2>4. /\ WorkRefs(t)' = One(Resume(t) \in works' \cup taken') + 2 * One(Report(t) \in works' \cup taken')
        /\ WorkRefs(t) = One(Resume(t) \in works \cup taken) + 2 * One(Report(t) \in works \cup taken)
    BY <1>0 DEF WorkRefs, One
  <2>5. /\ One(Report(t) \in works' \cup taken') \in {0, 1} /\ One(t = s) \in {0, 1}
        /\ One(Resume(t) \in works \cup taken) \in {0, 1}
        /\ One(Report(t) \in works \cup taken) \in {0, 1}
    BY DEF One
  <2> QED
    BY <2>1, <2>2, <2>3, <2>4, <2>5
<1> QED
  BY <1>3, <1>4

(* The references after a tracepoint probe looked the struct up: one more.   *)
LEMMA ProbeCounts ==
    ASSUME Sound, HeldInv, pc["task"] = "tp_get", NEW s \in Structs, u[s].ref > 0, Counts(s, 1),
           Unmoved, Objects', Stays("task"), UNCHANGED <<table, eng, tk>>, Away', NoGain,
           \A t \in Structs : t # s => PassRefs(t)' = 0 /\ WorkRefs(t)' = WorkRefs(t),
           \/ /\ PassRefs(s)' = 1 /\ WorkRefs(s)' = WorkRefs(s)
              /\ TracepointPuts' \/ u[s].flags # {}
           \/ /\ PassRefs(s)' = 0 /\ WorkRefs(s)' <= WorkRefs(s) + 2
              /\ u[s].flags # {} /\ tk.exiting /\ pc'["task"] # "tp_get"
    PROVE  HeldInv'
<1>s. Objects /\ UseInv /\ "stap" \in Procs /\ "task" \in Procs
  BY Shapes DEF Procs
<1>1. /\ LessHeld("task") /\ LessHeld("stap")
      /\ \A t \in Structs : /\ ~CallHolds("task", t)' /\ ~Making("task", t)'
                            /\ CallHolds("stap", t)' => CallHolds("stap", t)
                            /\ Making("stap", t)' => Making("stap", t)
  BY AwayLess, StaysLess DEF Stays, Procs, LessHeld, LessCall
<1>2. ~TracepointPuts /\ \A t \in Structs : ~Orphan(t) /\ PassRefs(t) = 0
  BY DEF TracepointPuts, Orphan, PassRefs, InPass, UsesReport, Calling, CallLabels, PutLabels
<1>3. \A t \in Structs : u[t].ref \in Nat /\ u'[t].ref = u[t].ref + One(t = s)
  <2>1. \A t \in Structs : u[t].ref \in Nat
    BY <1>s, Counted DEF HeldInv
  <2> QED
    BY <2>1 DEF Counts, One
<1>4. \A t \in Structs : Owned(t)' => Owned(t)
  BY <1>1, <1>2, <1>3 DEF Owned, One
<1>5. Owned(s)
  BY <1>2 DEF Owned
<1>6. u[s].flags # {} => ~Making("stap", s)
  BY DEF HeldInv, MakingInv, Procs
<1>7. \A t \in Structs : Refs(t)' <= Refs(t) + One(t = s)
  <2> SUFFICES ASSUME NEW t \in Structs PROVE Refs(t)' <= Refs(t) + One(t = s)
    OBVIOUS
  <2>1. One(CallHolds("stap", t)') <= One(CallHolds("stap", t)) /\ One(CallHolds("task", t)') = 0
    BY <1>1 DEF One
  <2>2. One(Owned(t)') <= One(Owned(t))
    BY <1>4 DEF One
  <2>3. CASE t # s
    <3>1. One(t = s) = 0
      BY <2>3 DEF One
    <3> QED
      BY <1>2, <2>1, <2>2, <2>3, <3>1, Parts, PartsNext
  <2>4. CASE t = s /\ PassRefs(s)' = 1 /\ WorkRefs(s)' = WorkRefs(s)
    <3>1. One(t = s) = 1
      BY <2>4 DEF One
    <3> QED
      BY <1>2, <2>1, <2>2, <2>4, <3>1, Parts, PartsNext
  <2>5. CASE t = s /\ PassRefs(s)' = 0 /\ WorkRefs(s)' <= WorkRefs(s) + 2
             /\ u[s].flags # {} /\ tk.exiting /\ pc'["task"] # "tp_get"
    <3>1. ~Owned(s)'
      BY <1>1, <1>6, <2>5 DEF Owned
    <3>2. One(Owned(t)) = 1 /\ One(Owned(t)') = 0 /\ One(t = s) = 1
      BY <1>5, <2>5, <3>1 DEF One
    <3> QED
      BY <1>2, <2>1, <2>5, <3>2, Parts, PartsNext
  <2> QED
    BY <2>3, <2>4, <2>5
<1>8. CountsRise
  <2> SUFFICES ASSUME NEW t \in Structs
               PROVE  /\ u'[t].ref >= u[t].ref /\ (u[t].ref = 0 => u'[t].ref = 0)
                      /\ u'[t].mem = u[t].mem
                      /\ u[t].ref = 0 => ListOf(t)' \subseteq ListOf(t)
                      /\ Refs(t)' + u[t].ref <= Refs(t) + u'[t].ref
    BY DEF CountsRise
  <2>1. One(t = s) \in {0, 1} /\ (u[t].ref = 0 => One(t = s) = 0)
    BY DEF One
  <2>2. u'[t].mem = u[t].mem /\ ListOf(t)' = ListOf(t)
    BY DEF Unmoved, ListOf
  <2> QED
    BY <1>3, <1>7, <2>1, <2>2, Parts, PartsNext
<1>9. \A p \in Procs, t \in Structs : Making(p, t) /\ Making(p, t)' =>
          (Busy(t)' => Busy(t)) /\ u'[t].flags = u[t].flags
  <2> SUFFICES ASSUME NEW p \in Procs, NEW t \in Structs, Making(p, t), Making(p, t)', Busy(t)'
               PROVE  Busy(t)
    BY DEF Unmoved
  <2>1. Making("stap", t)
    BY <1>1 DEF Procs
  <2>2. ~InUse(t)'
    <3>1. CASE t # s
      <4>1. PassRefs(t)' = 0
        BY <3>1
      <4> QED
        BY <4>1 DEF InUse
    <3>2. CASE t = s
      <4>1. u[s].flags = {}
        BY <1>6, <2>1, <3>2
      <4>2. TracepointPuts'
        BY <4>1
      <4> QED
        BY <4>2 DEF InUse
    <3> QED
      BY <3>1, <3>2
  <2>3. WorkRefs(t)' = WorkRefs(t)
    BY <1>6, <2>1
  <2> QED
    BY <1>1, <2>2, <2>3 DEF Busy
<1>10. EngineHeld'
  BY EnginesStay
<1> QED
  BY <1>s, <1>1, <1>8, <1>9, <1>10, HeldKept DEF LessHeld, Procs

(* get_utrace_struct() in a tracepoint probe.                               *)
LEMMA TracepointHeld ==
    ASSUME Sound, ~Oops, TracepointGet
    PROVE  KeepsHeld
<1>s. Places /\ Calls /\ Objects /\ LifeInv /\ PlaceInv /\ WorkInv /\ CodeInv /\ rep \in ReportRecord
      /\ table \in Seq(Structs) /\ "task" \in Procs
  BY Shapes DEF Procs
<1>1. /\ pc["task"] = "tp_get" /\ UNCHANGED <<table, eng, taken, tk>>
  BY DEF TracepointGet, others
<1>2. NoGain
  BY Shapes, ProbeUses DEF ProbeStep
<1>3. rep.tp /\ rep.ev \in {"EXEC", "DEATH"} /\ (rep.ev = "DEATH" => tk.exiting)
  BY <1>s, <1>1 DEF PlaceInv, ProbeSide, InProbe, ProbeLabels, LifeInv, ReportRecord
<1>4. CASE Goto("task", "tp_out") /\ UNCHANGED <<u, works, at, rep>>
  <2>1. pc'["task"] = "tp_out" /\ pc'["stap"] = pc["stap"] /\ NoNewWork
    BY <1>s, <1>1, <1>4, TaskGoes, NoNewWorks
  <2>2. "tp_out" \in ProbeLabels /\ "tp_get" \notin PutLabels
    BY DEF ProbeLabels, PutLabels
  <2>3. LifeInv'
    <3>1. ~Calling("task")'
      BY <2>1 DEF Calling, CallLabels, PutLabels
    <3> QED
      BY <1>s, <1>1, <1>4, <2>1, <3>1, LifeKept
  <2> QED
    BY <1>1, <1>2, <1>4, <2>1, <2>2, <2>3, OutHeld
<1>5. ASSUME NEW s \in Structs, u[s].ref > 0, ReportMoves(rep'), rep'.s = s,
             NEW c, NewCall("task", c), c.k = "tp_out", Objects', Unmoved, Counts(s, 1),
             NEW l \in {"put", "rep_start"}, Goto("task", l), UNCHANGED works, SameAdded,
             l = "put" \/ "EXEC" \in u[s].flags
      PROVE  KeepsHeld
  <2>1. pc'["task"] = l /\ Stays("task") /\ at'["task"] = c /\ pc'["stap"] = pc["stap"]
        /\ at'["stap"] = at["stap"]
    BY <1>s, <1>5, OthersStay DEF Stays, NewCall, Procs
  <2>2. Away' /\ InPass' /\ pc'["task"] \notin {"user", "tp_get", "put2"}
        /\ (l = "put" => TracepointPuts')
    BY <1>5, <2>1 DEF Away, InPass, PassPuts, PassLabels, UsesReport, TracepointPuts
  <2>3. rep'.ev = rep.ev /\ rep'.tp
    BY <1>3, <1>5 DEF ReportMoves
  <2>4. NoNewWork
    BY <1>1, <1>5, NoNewWorks
  <2>5. ControlInv'
    BY <1>s, <1>1, <1>5, <2>1, <2>2, <2>3, <2>4, AwayLess, LifeKept, WorkInvKept, CodeKept
       DEF ControlInv
  <2>6. ASSUME HeldInv PROVE HeldInv'
    <3>1. PassRefs(s)' = 1 /\ \A t \in Structs : t # s => PassRefs(t)' = 0
      BY <1>5, <2>2, <2>3 DEF PassRefs
    <3>2. \A t \in Structs : WorkRefs(t)' = WorkRefs(t)
      BY <1>1, <1>5 DEF WorkRefs, Resume, Report
    <3>3. TracepointPuts' \/ u[s].flags # {}
      BY <1>5, <2>2
    <3> QED
      BY <1>1, <1>2, <1>5, <2>1, <2>2, <2>6, <3>1, <3>2, <3>3, ProbeCounts
  <2> QED
    BY <2>5, <2>6 DEF KeepsHeld
<1>6. ASSUME NEW s \in Structs, u[s].ref > 0, ReportMoves(rep'), rep'.s = s,
             NEW c, NewCall("task", c), Objects', Unmoved, Counts(s, 1), Goto("task", "death_count"),
             works' = works \cup {Report(s)}, rep.ev \in u[s].flags, rep.ev # "EXEC",
             rep.ev = "DEATH" => ~u[s].reportAdded,
             \A t \in Structs : /\ u'[t].reportAdded = (t = s \/ u[t].reportAdded)
                                /\ u'[t].resumeAdded = u[t].resumeAdded
      PROVE  KeepsHeld
  <2>1. pc'["task"] = "death_count" /\ Stays("task") /\ pc'["stap"] = pc["stap"]
        /\ at'["stap"] = at["stap"]
    BY <1>s, <1>6, OthersStay DEF Stays, NewCall, Procs
  <2>2. Away' /\ ~InPass'
    BY <2>1, OutOfPass DEF ProbeLabels
  <2>3. rep'.ev = "DEATH" /\ tk.exiting /\ ~u[s].reportAdded /\ u[s].flags # {}
    BY <1>3, <1>6 DEF ReportMoves
  <2>4. WorkInv' /\ \A t \in Structs : /\ WorkRefs(t)' <= WorkRefs(t) + 2 * One(t = s)
                                       /\ t # s => WorkRefs(t)' = WorkRefs(t)
    BY <1>1, <1>6, <2>3, ReportedWork
  <2>5. LifeInv'
    BY <1>s, <1>1, <2>1, <2>2, <2>3, AwayLess DEF LifeInv
  <2>6. ControlInv'
    BY <1>s, <1>1, <2>1, <2>4, <2>5, CodeKept DEF ControlInv
  <2>7. ASSUME HeldInv PROVE HeldInv'
    <3>1. \A t \in Structs : PassRefs(t)' = 0
      BY <2>2, NoPass
    <3>2. WorkRefs(s)' <= WorkRefs(s) + 2
      <4>1. One(s = s) = 1
        BY DEF One
      <4> QED
        BY <2>4, <4>1
    <3> QED
      BY <1>1, <1>2, <1>6, <2>1, <2>2, <2>3, <2>4, <2>7, <3>1, <3>2, ProbeCounts
  <2> QED
    BY <2>6, <2>7 DEF KeepsHeld
<1> QED
  <2>1. \/ Goto("task", "tp_out") /\ UNCHANGED <<u, works, at, rep>>
        \/ \E s \in Structs :
              /\ u[s].ref > 0 /\ ReportMoves(rep') /\ rep'.s = s
              /\ \E c : NewCall("task", c) /\ c.k = "tp_out"
              /\ Objects' /\ Unmoved /\ Counts(s, 1)
              /\ \/ Goto("task", "put") /\ UNCHANGED works /\ SameAdded
                 \/ /\ Goto("task", "rep_start") /\ UNCHANGED works /\ SameAdded
                    /\ "EXEC" \in u[s].flags
                 \/ /\ Goto("task", "death_count") /\ works' = works \cup {Report(s)}
                    /\ rep.ev \in u[s].flags /\ rep.ev # "EXEC"
                    /\ rep.ev = "DEATH" => ~u[s].reportAdded
                    /\ \A t \in Structs :
                         /\ u'[t].reportAdded = (t = s \/ u[t].reportAdded)
                         /\ u'[t].resumeAdded = u[t].resumeAdded
    BY <1>s, TracepointEffect
  <2> QED
    BY <1>4, <1>5, <1>6, <2>1

(* All steps of the tracepoint probes.                                      *)
LEMMA ProbeHeld ==
    ASSUME Sound, ~Oops, ProbeStep
    PROVE  KeepsHeld
<1>s. Places /\ LifeInv /\ Calls
  BY Shapes
<1>n. NoGain
  BY Shapes, ProbeUses
<1>1. ASSUME DeathCount PROVE KeepsHeld
  <2>1. /\ pc["task"] = "death_count" /\ UNCHANGED <<table, u, eng, works, taken, tk, at, rep>>
        /\ Goto("task", "tp_out")
    BY <1>1 DEF DeathCount, kernel, others
  <2>2. pc'["task"] = "tp_out" /\ pc'["stap"] = pc["stap"] /\ NoNewWork
    BY <1>s, <2>1, TaskGoes, NoNewWorks
  <2>3. "tp_out" \in ProbeLabels /\ pc["task"] \notin PutLabels
    BY <2>1 DEF ProbeLabels, PutLabels
  <2>4. LifeInv'
    BY <1>s, <2>1, <2>2, <2>3, OutOfPass, AwayLess, LifeKept
  <2> QED
    BY <1>n, <2>1, <2>2, <2>3, <2>4, OutHeld
<1>2. ASSUME TracepointReturn PROVE KeepsHeld
  <2>1. /\ pc["task"] = "tp_out" /\ UNCHANGED <<table, u, eng, works, taken, tk>>
        /\ rep' = NoReport /\ at' = [at EXCEPT !["task"] = NoCall]
        /\ Goto("task", IF tk.exiting THEN "tw" ELSE "user")
    BY <1>2 DEF TracepointReturn, kernel, others
  <2>2. PICK l \in {"tw", "user"} : Goto("task", l) /\ (tk.exiting => l = "tw")
    BY <2>1
  <2>3. pc'["task"] = l /\ pc'["stap"] = pc["stap"] /\ NoNewWork
    BY <1>s, <2>1, <2>2, TaskGoes, NoNewWorks
  <2>4. l \in Uncounted /\ pc["task"] \notin PutLabels /\ l # "tp_get"
    BY <2>1 DEF Uncounted, PutLabels
  <2>5. at'["stap"] = at["stap"] /\ rep'.ev = "NONE"
    BY <1>s, <2>1 DEF Calls, Procs, NoReport
  <2>6. LifeInv'
    <3>1. \A s \in Structs : Report(s)' \in works' \cup taken' => tk'.exiting
      BY <1>s, <2>1 DEF LifeInv, Report
    <3> QED
      BY <1>s, <2>1, <2>2, <2>3, <2>4, <2>5, <3>1, OutOfPass, AwayLess DEF LifeInv
  <2> QED
    BY <1>n, <2>1, <2>3, <2>4, <2>5, <2>6, OutHeld
<1> QED
  BY <1>1, <1>2, ExecHeld, ExitHeld, TracepointHeld DEF ProbeStep

-----------------------------------------------------------------------------
(* The steps of a reporting pass.                                           *)

(* The pass goes on about the same event of the same struct, or makes a call. *)
LEMMA PassGoes ==
    ASSUME pc["task"] \in UsesReport \cup {"put2"}, rep'.s = rep.s, rep'.ev = rep.ev, rep'.tp = rep.tp,
           pc["task"] = "put2" => pc'["task"] = "put" /\ at'["task"].k = "w_done"
    PROVE  /\ LessPass /\ ~TracepointPuts /\ pc["task"] \notin PutLabels
           /\ rep.s \in Structs => Busy(rep.s)
<1>1. InPass /\ ~TracepointPuts /\ pc["task"] \notin PutLabels
  BY DEF InPass, TracepointPuts, UsesReport, PutLabels
<1>2. \A s : PassRefs(s) \in Nat /\ PassRefs(s)' \in Nat
  BY Parts, PartsNext
<1>3. \A s : PassRefs(s)' <= PassRefs(s)
  <2> SUFFICES ASSUME NEW s PROVE PassRefs(s)' <= PassRefs(s)
    OBVIOUS
  <2>1. CASE rep.s # s
    BY <2>1 DEF PassRefs
  <2>2. CASE rep.s = s /\ pc["task"] = "put2"
    <3>1. PassRefs(s)' \in {0, 1} /\ PassRefs(s) = 1
      BY <1>1, <2>2 DEF PassRefs
    <3> QED
      BY <3>1
  <2>3. CASE rep.s = s /\ pc["task"] # "put2"
    <3>1. pc["task"] # "put"
      BY <1>1 DEF PutLabels
    <3>2. PassRefs(s) = IF rep.ev = "DEATH" /\ ~rep.tp THEN 2 ELSE 1
      BY <1>1, <2>3, <3>1 DEF PassRefs
    <3>3. PassRefs(s)' \in {0, 1} \/ (PassRefs(s)' = 2 /\ rep.ev = "DEATH" /\ ~rep.tp)
      BY DEF PassRefs
    <3> QED
      BY <3>2, <3>3
  <2> QED
    BY <2>1, <2>2, <2>3
<1>4. PassRefs(rep.s) > 0
  BY <1>1 DEF PassRefs
<1> QED
  BY <1>1, <1>2, <1>3, <1>4 DEF LessPass, InUse, Busy

(* A step of a pass that changes its struct only.                           *)
LEMMA PassStructHeld ==
    ASSUME Sound, pc["task"] \in UsesReport \cup {"put2"}, Stays("task"), Away',
           pc'["task"] \notin {"user", "tp_get"}, UNCHANGED <<table, tk>>,
           rep'.s = rep.s, rep'.ev = rep.ev, rep'.tp = rep.tp, rep.s \in Structs,
           pc["task"] = "put2" => pc'["task"] = "put" /\ at'["task"].k = "w_done",
           NoNewWork, SameAdded, Objects', HeldInv => EngineHeld',
           \A s \in Structs : /\ u'[s].ref = u[s].ref /\ u'[s].mem = u[s].mem
                              /\ ListOf(s)' \subseteq ListOf(s)
                              /\ s # rep.s => u'[s].flags = u[s].flags
    PROVE  KeepsHeld
<1>1. LifeInv'
  BY Shapes, AwayLess, LifeKept
<1>2. LessPass /\ ~TracepointPuts /\ Busy(rep.s) /\ LessHeld("task")
  BY PassGoes, AwayLess
<1> QED
  BY <1>1, <1>2, TaskHeld

(* A step of a pass that changes no struct and frees no engine.             *)
LEMMA PassMoveHeld ==
    ASSUME Sound, pc["task"] \in UsesReport \cup {"put2"}, Stays("task"), Away',
           pc'["task"] \notin {"user", "tp_get"}, UNCHANGED <<table, tk, u>>,
           rep'.s = rep.s, rep'.ev = rep.ev, rep'.tp = rep.tp, rep.s \in Structs,
           pc["task"] = "put2" => pc'["task"] = "put" /\ at'["task"].k = "w_done",
           NoNewWork, NoGain, \A e \in Engines : eng'[e].mem = eng[e].mem
    PROVE  KeepsHeld
<1>1. SameAdded /\ Objects'
  BY Shapes, SameMemory, MemEffects
<1>2. HeldInv => EngineHeld'
  BY EnginesStay
<1>3. \A s \in Structs : /\ u'[s].ref = u[s].ref /\ u'[s].mem = u[s].mem
                         /\ ListOf(s)' \subseteq ListOf(s) /\ u'[s].flags = u[s].flags
  BY DEF ListOf
<1> QED
  BY <1>1, <1>2, <1>3, PassStructHeld

(* utrace_reset() frees no engine that a call is about.                     *)
LEMMA ResetEngines ==
    ASSUME Sound, HeldInv, NEW s \in Structs, Reset(s), NoGain, UNCHANGED tk
    PROVE  EngineHeld'
<1>s. EngineInv /\ Handles
  BY Shapes
<1> SUFFICES ASSUME ~tk'.exiting, NEW q \in Procs, NEW e \in Engines, HasEngine(q, e)'
             PROVE  eng'[e].mem = "live"
  BY DEF EngineHeld
<1>1. HasEngine(q, e) /\ eng[e].mem = "live"
  BY DEF NoGain, HeldInv, EngineHeld
<1>2. CASE e \in ListOf(s)
  <2>1. Listed(e)
    BY <1>2 DEF Listed
  <2>2. /\ eng[e].ref >= One(Listed(e)) + One(HasEngine("stap", e)) + One(HasEngine("task", e))
        /\ eng[e].ref \in Int
    BY <1>s, <1>1 DEF EngineInv, Handles, EngineRecord
  <2>3. One(Listed(e)) = 1 /\ One(HasEngine("stap", e)) \in {0, 1} /\ One(HasEngine("task", e)) \in {0, 1}
        /\ One(HasEngine(q, e)) = 1
    BY <1>1, <2>1 DEF One
  <2>4. eng[e].ref # 1
    BY <2>2, <2>3 DEF Procs
  <2> QED
    BY <1>1, <2>4 DEF Reset, Dropped
<1>3. CASE e \notin ListOf(s)
  BY <1>1, <1>3 DEF Reset, Dropped
<1> QED
  BY <1>2, <1>3

(* A pass that ends resets its struct and goes on to put it.                *)
LEMMA PassResetHeld ==
    ASSUME Sound, ~Oops, PassStep, pc["task"] \in UsesReport, NEW s \in Structs, rep.s = s,
           UNCHANGED <<table, tk, rep, works, taken>>, Reset(s) \/ UNCHANGED <<u, eng>>,
           NEW c, NewCall("task", c), c.k \in PassPuts, NEW l \in {"put", "notify"}, Goto("task", l)
    PROVE  KeepsHeld
<1>s. Places /\ "task" \in Procs
  BY Shapes DEF Procs
<1>1. Stays("task") /\ pc'["task"] = l /\ at'["task"] = c /\ l \notin {"user", "tp_get"}
  BY <1>s, OthersStay DEF Stays, NewCall
<1>2. Away' /\ pc["task"] # "put2"
  BY <1>1 DEF Away, PassLabels, UsesReport
<1>3. NoNewWork /\ NoGain
  BY Shapes, NoNewWorks, PassUses
<1>4. CASE Reset(s)
  <2>1. HeldInv => EngineHeld'
    BY <1>3, <1>4, ResetEngines
  <2>2. /\ SameAdded /\ Objects'
        /\ \A t \in Structs : /\ u'[t].ref = u[t].ref /\ u'[t].mem = u[t].mem
                              /\ ListOf(t)' \subseteq ListOf(t)
                              /\ t # s => u'[t].flags = u[t].flags
    BY <1>4 DEF Reset, SameRefs, ListOf
  <2> QED
    BY <1>1, <1>2, <1>3, <2>1, <2>2, PassStructHeld
<1>5. CASE UNCHANGED <<u, eng>>
  BY <1>1, <1>2, <1>3, <1>5, PassMoveHeld
<1> QED
  BY <1>4, <1>5

(* A pass begins, and adopts the engines that were attaching.               *)
LEMMA PassSpliceHeld ==
    ASSUME Sound, ~Oops, PassStep, pc["task"] \in UsesReport, NEW s \in Structs, rep.s = s, Spliced(s),
           UNCHANGED <<table, tk, rep, works, taken, eng>>, Stays("task"), Away',
           pc'["task"] \notin {"user", "tp_get"}
    PROVE  KeepsHeld
<1>1. NoNewWork /\ NoGain /\ pc["task"] # "put2"
  BY Shapes, NoNewWorks, PassUses DEF UsesReport
<1>2. HeldInv => EngineHeld'
  BY <1>1, EnginesStay
<1>3. /\ SameAdded /\ Objects'
      /\ \A t \in Structs : /\ u'[t].ref = u[t].ref /\ u'[t].mem = u[t].mem
                            /\ ListOf(t)' \subseteq ListOf(t) /\ u'[t].flags = u[t].flags
  BY DEF Spliced, SameRefs
<1> QED
  BY <1>1, <1>2, <1>3, PassStructHeld

(* A callback of a pass makes a call.                                       *)
LEMMA PassCallHeld ==
    ASSUME Sound, ~Oops, PassStep, pc["task"] \in UsesReport, rep.s \in Structs,
           UNCHANGED <<table, u, eng, tk, rep, works, taken>>, Stays("task"),
           \/ pc'["task"] = "ev_get" /\ at'["task"].act = "NONE"
           \/ pc'["task"] = "att_get" /\ ~tk.exiting
    PROVE  KeepsHeld
<1>1. NoNewWork /\ NoGain /\ pc["task"] # "put2"
  BY Shapes, NoNewWorks, PassUses DEF UsesReport
<1>2. LessHeld("task")
  <2>1. ~AttachedBy("task")'
    BY DEF AttachedBy, WithEngine, UsesEngine, PutLabels
  <2> QED
    BY <2>1, Rests DEF LessHeld, LessCall, UsesStruct
<1>3. LifeInv'
  BY <1>1, Shapes, LifeKept
<1>4. LessPass /\ ~TracepointPuts
  BY <1>1, PassGoes
<1> QED
  BY <1>1, <1>2, <1>3, <1>4, TaskMoveHeld

(* finish_resume_report() queues the resume work once more.                 *)
LEMMA NotifyAgainHeld ==
    ASSUME Sound, ~Oops, NotifyAgain
    PROVE  KeepsHeld
<1>s. Places /\ Objects /\ UseInv /\ LifeInv /\ CodeInv /\ PlaceInv /\ "task" \in Procs
  BY Shapes DEF Procs
<1>1. /\ pc["task"] = "notify" /\ UNCHANGED <<table, eng, taken, tk, at, rep>>
      /\ \/ Goto("task", "put") /\ UNCHANGED <<u, works>>
         \/ /\ ~u[rep.s].resumeAdded /\ Goto("task", "fin_count")
            /\ u' = [u EXCEPT ![rep.s] = stp_task_notify_resume(@)]
            /\ works' = works \cup {Resume(rep.s)}
  BY DEF NotifyAgain, others
<1>2. PICK s \in Structs : rep.s = s /\ pc["task"] \in UsesReport
  BY <1>s, <1>1, ReportedLive DEF UsesReport
<1>3. at["task"].k = "w_done"
  BY <1>s, <1>1 DEF PlaceInv, TaskPlace
<1>4. NoGain
  BY Shapes, PassUses DEF PassStep
<1>5. CASE Goto("task", "put") /\ UNCHANGED <<u, works>>
  <2>1. Stays("task") /\ pc'["task"] = "put" /\ at'["task"] = at["task"]
    BY <1>s, <1>1, <1>5, OthersStay DEF Stays
  <2>2. Away' /\ NoNewWork /\ pc["task"] # "put2"
    BY <1>1, <1>3, <1>5, <2>1, NoNewWorks DEF Away, PassPuts
  <2> QED
    BY <1>1, <1>2, <1>4, <1>5, <2>1, <2>2, PassMoveHeld
<1>6. CASE /\ ~u[rep.s].resumeAdded /\ Goto("task", "fin_count")
           /\ u' = [u EXCEPT ![rep.s] = stp_task_notify_resume(@)]
           /\ works' = works \cup {Resume(rep.s)}
  <2>1. Stays("task") /\ pc'["task"] = "fin_count" /\ at'["task"] = at["task"]
    BY <1>s, <1>1, <1>6, OthersStay DEF Stays
  <2>2. Notified(s)
    <3>1. u' = [u EXCEPT ![s] = stp_task_notify_resume(u[s])] /\ works' = works \cup {Resume(s)}
          /\ ~u[s].resumeAdded
      BY <1>s, <1>2, <1>6 DEF Objects
    <3>2. u[s] \in StructRecord
      BY <1>s DEF Objects
    <3> QED
      BY <1>s, <3>1, <3>2, NotifyEffect
  <2>3. Away' /\ pc'["task"] \notin {"user", "tp_get"}
    BY <2>1 DEF Away, PassLabels
  <2>4. LessHeld("task") /\ ~Calling("task")'
    BY <2>3, AwayLess
  <2>5. ControlInv'
    <3>1. WorkInv' /\ FewerReports
      BY <1>1, <2>2, NotifiedWork
    <3>2. LifeInv'
      BY <1>s, <1>1, <2>3, <2>4, <3>1, LifeGoesOn
    <3>3. CodeInv'
      BY <1>s, <1>1, <2>1, CodeKept DEF Stays, Procs
    <3> QED
      BY <3>1, <3>2, <3>3 DEF ControlInv
  <2>6. ~TracepointPuts /\ Busy(s)
    BY <1>1, <1>2, PassGoes
  <2>7. \A t \in Structs : PassRefs(t)' = PassRefs(t)
    BY <1>1, <2>1 DEF PassRefs, InPass, UsesReport
  <2>8. ASSUME HeldInv PROVE HeldInv'
    BY <1>s, <1>1, <1>4, <2>1, <2>2, <2>3, <2>4, <2>6, <2>7, <2>8, NotifiedHeld
  <2> QED
    BY <2>5, <2>8 DEF KeepsHeld
<1> QED
  BY <1>1, <1>5, <1>6

(* All of them.                                                             *)
LEMMA PassHeld ==
    ASSUME Sound, ~Oops, PassStep
    PROVE  KeepsHeld
<1>s. Places /\ Calls /\ Objects /\ Handles /\ UseInv /\ LifeInv /\ PlaceInv /\ rep \in ReportRecord
      /\ "task" \in Procs
  BY Shapes DEF Procs
<1>n. NoGain
  BY Shapes, PassUses
<1>r. ASSUME pc["task"] \in UsesReport PROVE rep.s \in Structs /\ pc["task"] # "put2"
  BY <1>s, <1>r, ReportedLive DEF UsesReport
(* The pass moves on within itself.                                         *)
<1>m. ASSUME pc["task"] \in UsesReport, UNCHANGED <<table, u, tk, taken, at>>,
             NEW l \in UsesReport, Goto("task", l), SameReport,
             works' = works \/ \E e : works' = works \cup {TfWork(e)},
             \A e \in Engines : eng'[e].mem = eng[e].mem
      PROVE  KeepsHeld
  <2>1. Stays("task") /\ pc'["task"] = l
    BY <1>s, <1>m, OthersStay DEF Stays
  <2>2. l \in PassLabels /\ l \notin {"user", "tp_get"}
    BY DEF UsesReport, PassLabels
  <2>3. Away' /\ NoNewWork
    BY <1>m, <2>1, <2>2, NoNewWorks DEF Away
  <2> QED
    BY <1>m, <1>n, <1>r, <2>1, <2>2, <2>3, PassMoveHeld DEF SameReport
<1>d. ASSUME DetachCurrent, pc["task"] \in {"cb_q", "cb_ev", "end_cb"},
             UNCHANGED <<table, u, tk, works, taken, at>>
      PROVE  KeepsHeld
  <2>1. Goto("task", "cb") /\ SameReport
    BY <1>s, <1>d, DetachControl DEF PlaceInv
  <2>2. \A e \in Engines : eng'[e].mem = eng[e].mem
    BY <1>s, <1>d, DetachTypes DEF SameEngines
  <2>3. "cb" \in UsesReport /\ pc["task"] \in UsesReport
    BY <1>d DEF UsesReport
  <2> QED
    BY <1>d, <1>m, <2>1, <2>2, <2>3
<1>u. /\ {"rep_start", "rw_lock", "cb", "cb_q", "q_in", "q_add", "q_count", "cb_after", "cb_ev",
          "ev_in", "x_out", "end_cb", "fin", "notify", "fin_count", "reap"} \subseteq UsesReport
      /\ UNCHANGED rep => SameReport
  BY DEF UsesReport, SameReport
<1>e. UNCHANGED eng => \A e \in Engines : eng'[e].mem = eng[e].mem
  OBVIOUS
<1>1. ASSUME start_report PROVE KeepsHeld
  <2>1. /\ pc["task"] = "rep_start" /\ UNCHANGED <<table, eng, tk, rep, works, taken>>
        /\ \E l \in {"put", "cb", "fin"} : Goto("task", l)
        /\ at' = [at EXCEPT !["task"].s = rep.s, !["task"].k = "w_done"]
    BY <1>1 DEF start_report, kernel, others
  <2>2. PICK s \in Structs : rep.s = s /\ pc["task"] \in UsesReport
    BY <1>r, <1>u, <2>1
  <2>3. PICK c : NewCall("task", c) /\ c.s = s /\ c.k = "w_done"
    <3>1. at' = [at EXCEPT !["task"].s = s, !["task"].k = "w_done"] /\ "w_done" \in Labels
      BY <2>1, <2>2, LabelNames
    <3> QED
      BY <1>s, <3>1, TaskPuts
  <2>4. PICK l \in {"put", "cb", "fin"} : pc'["task"] = l /\ Stays("task") /\ at'["task"] = c
    BY <1>s, <2>1, <2>3, OthersStay DEF Stays, NewCall
  <2>5. Away' /\ pc'["task"] \notin {"user", "tp_get"}
    BY <2>3, <2>4 DEF Away, PassPuts, PassLabels
  <2>6. UNCHANGED u \/ u' = [u EXCEPT ![s] = [splice_attaching(u[s]) EXCEPT !.resume = "RESUME"]]
    BY <1>s, <1>1, <2>2 DEF start_report, Objects
  <2>7. CASE UNCHANGED u
    <3>1. NoNewWork
      BY <2>1, NoNewWorks
    <3> QED
      BY <1>e, <1>n, <1>r, <2>1, <2>2, <2>4, <2>5, <2>7, <3>1, PassMoveHeld
  <2>8. CASE u' = [u EXCEPT ![s] = [splice_attaching(u[s]) EXCEPT !.resume = "RESUME"]]
    <3>1. Spliced(s)
      BY <1>s, <2>8, ResumeSpliceEffect, Zenon
    <3> QED
      BY <2>1, <2>2, <2>4, <2>5, <3>1, PassSpliceHeld
  <2> QED
    BY <2>6, <2>7, <2>8
<1>2. ASSUME StartDeathReport PROVE KeepsHeld
  <2>1. /\ pc["task"] = "rw_lock" /\ UNCHANGED <<table, eng, tk, rep, at, works, taken>>
        /\ Goto("task", "cb")
        /\ u' = [u EXCEPT ![rep.s] = [splice_attaching(@) EXCEPT !.death = TRUE, !.resume = "RESUME"]]
    BY <1>2 DEF StartDeathReport, kernel, others
  <2>2. PICK s \in Structs : rep.s = s /\ pc["task"] \in UsesReport
    BY <1>r, <1>u, <2>1
  <2>3. Spliced(s)
    <3>1. u' = [u EXCEPT ![s] = [splice_attaching(u[s]) EXCEPT !.death = TRUE, !.resume = "RESUME"]]
      BY <1>s, <2>1, <2>2 DEF Objects
    <3>2. "RESUME" \in {"RESUME", "INTERRUPT"} /\ TRUE \in BOOLEAN
      OBVIOUS
    <3> QED
      BY <1>s, <3>1, <3>2, SpliceEffect, Zenon
  <2>4. pc'["task"] = "cb" /\ Stays("task")
    BY <1>s, <2>1, OthersStay DEF Stays
  <2>5. Away' /\ pc'["task"] \notin {"user", "tp_get"}
    BY <2>4 DEF Away, PassLabels
  <2> QED
    BY <2>1, <2>2, <2>3, <2>4, <2>5, PassSpliceHeld
<1>3. ASSUME start_callback PROVE KeepsHeld
  <2>1. /\ pc["task"] = "cb" /\ UNCHANGED <<table, u, eng, tk, at, works, taken>>
        /\ \E l \in {"reap", "fin", "cb_q", "cb_ev", "cb"} : Goto("task", l)
    BY <1>3 DEF start_callback, kernel, others
  <2>2. SameReport
    <3>1. \/ UNCHANGED rep \/ rep' = [rep EXCEPT !.spur = FALSE]
          \/ rep' = [rep EXCEPT !.i = rep.i + 1]
      BY <1>3, Zenon DEF start_callback
    <3> QED
      BY <1>s, <3>1 DEF SameReport, ReportRecord
  <2> QED
    BY <1>e, <1>m, <1>u, <2>1, <2>2
<1>4. ASSUME QuiesceCheck PROVE KeepsHeld
  <2>1. /\ pc["task"] = "cb_q" /\ UNCHANGED <<table, u, tk, at, works, taken>>
        /\ (Goto("task", "q_in") /\ UNCHANGED <<rep, eng>>) \/ DetachCurrent
    BY <1>4 DEF QuiesceCheck, kernel, others
  <2> QED
    BY <1>d, <1>e, <1>m, <1>u, <2>1
<1>5. ASSUME QuiesceEnter PROVE KeepsHeld
  <2>1. /\ pc["task"] = "q_in" /\ UNCHANGED <<table, u, eng, tk, rep, works, taken>>
        /\ Goto("task", "ev_get")
        /\ at' = [at EXCEPT !["task"] = [NoCall EXCEPT !.e = Current, !.ev = BaseEvents,
                                                   !.act = "NONE", !.ret = "q_add"]]
    BY <1>5 DEF QuiesceEnter, kernel, others
  <2>2. at'["stap"] = at["stap"] /\ at'["task"].act = "NONE"
    BY <1>s, <2>1 DEF Calls, Procs, NoCall
  <2>3. pc'["task"] = "ev_get" /\ pc'["stap"] = pc["stap"]
    BY <1>s, <2>1, TaskGoes
  <2>4. Stays("task") /\ rep.s \in Structs /\ pc["task"] \in UsesReport
    BY <1>r, <1>u, <2>1, <2>2, <2>3 DEF Stays, Procs
  <2> QED
    BY <2>1, <2>2, <2>3, <2>4, PassCallHeld
<1>6. ASSUME QuiesceAdd PROVE KeepsHeld
  <2>1. /\ pc["task"] = "q_add" /\ UNCHANGED <<table, u, eng, tk, at, rep, taken>>
        /\ \/ Goto("task", "q_count") /\ works' = works \cup {TfWork(Current)}
           \/ Goto("task", "cb_after") /\ UNCHANGED works
    BY <1>6 DEF QuiesceAdd
  <2> QED
    BY <1>e, <1>m, <1>u, <2>1
<1>7. ASSUME QuiesceCount PROVE KeepsHeld
  BY <1>7, <1>e, <1>m, <1>u DEF QuiesceCount, kernel, others
<1>8. ASSUME AfterQuiesce PROVE KeepsHeld
  <2>1. /\ pc["task"] = "cb_after" /\ UNCHANGED <<table, u, eng, tk, at, works, taken>>
    BY <1>8 DEF AfterQuiesce, kernel, others
  <2>2. SameReport /\ \E l \in {"cb_ev", "cb"} : Goto("task", l)
    BY <1>s, <1>8, QuiesceControl DEF PlaceInv
  <2> QED
    BY <1>e, <1>m, <1>u, <2>1, <2>2
<1>9. ASSUME EventCheck PROVE KeepsHeld
  <2>1. /\ pc["task"] = "cb_ev" /\ UNCHANGED <<table, u, tk, at, works, taken>>
        /\ (Goto("task", "ev_in") /\ UNCHANGED <<rep, eng>>) \/ DetachCurrent
    BY <1>9 DEF EventCheck, kernel, others
  <2> QED
    BY <1>d, <1>e, <1>m, <1>u, <2>1
<1>10. ASSUME EventEnter PROVE KeepsHeld
  <2>1. /\ pc["task"] = "ev_in" /\ UNCHANGED <<table, u, eng, tk, rep, works, taken>>
        /\ \/ Call("task", "target", TargetEvents, "INTERRUPT", "x_out")
           \/ Goto("task", "end_cb") /\ UNCHANGED at
    BY <1>10 DEF EventEnter, kernel, others
  <2>2. CASE Call("task", "target", TargetEvents, "INTERRUPT", "x_out")
    <3>1. "x_out" \in Labels /\ "INTERRUPT" \in {"NONE", "RESUME", "INTERRUPT"}
      BY LabelNames
    <3>2. PICK c : /\ NewCall("task", c)
                   /\ (tk.mm /\ Goto("task", "att_get")) \/ Goto("task", "x_out")
      BY <1>s, <2>2, <3>1, EventSets, CallEffect
    <3>3. PICK l \in {"att_get", "x_out"} : Goto("task", l) /\ (l = "att_get" => tk.mm)
      BY <3>2
    <3>4. Stays("task") /\ pc'["task"] = l
      BY <1>s, <3>2, <3>3, OthersStay DEF Stays
    <3>5. l = "att_get" => ~tk.exiting
      BY <1>s, <3>3 DEF LifeInv
    <3>6. rep.s \in Structs /\ pc["task"] \in UsesReport /\ pc["task"] # "put2"
      BY <1>r, <1>u, <2>1
    <3>7. CASE l = "att_get"
      BY <2>1, <3>4, <3>5, <3>6, <3>7, PassCallHeld
    <3>8. CASE l = "x_out"
      <4>1. Away' /\ NoNewWork
        BY <2>1, <3>4, <3>8, NoNewWorks DEF Away, PassLabels
      <4> QED
        BY <1>e, <1>n, <2>1, <3>4, <3>6, <3>8, <4>1, PassMoveHeld
    <3> QED
      BY <3>7, <3>8
  <2>3. CASE Goto("task", "end_cb") /\ UNCHANGED at
    BY <1>e, <1>m, <1>u, <2>1, <2>3
  <2> QED
    BY <2>1, <2>2, <2>3
<1>11. ASSUME ExecMatched PROVE KeepsHeld
  <2>1. /\ pc["task"] = "x_out" /\ UNCHANGED <<table, u, eng, tk, at, works, taken>>
        /\ Goto("task", "cb") /\ SameReport
    BY <1>s, <1>11 DEF ExecMatched, kernel, others, SameReport, ReportRecord
  <2> QED
    BY <1>e, <1>m, <1>u, <2>1
<1>12. ASSUME TargetEnd PROVE KeepsHeld
  BY <1>12, <1>d DEF TargetEnd, kernel, others
<1>p. ASSUME pc["task"] \in UsesReport, UNCHANGED <<table, tk, rep, works, taken>>,
             utrace_reset(rep.s) \/ UNCHANGED <<u, eng>>, NEW k \in PassPuts,
             at' = [at EXCEPT !["task"].s = rep.s, !["task"].k = k],
             NEW l \in {"put", "notify"}, Goto("task", l)
      PROVE  KeepsHeld
  <2>1. PICK s \in Structs : rep.s = s
    BY <1>p, <1>r
  <2>2. Reset(s) \/ UNCHANGED <<u, eng>>
    BY <1>s, <1>p, <2>1, ResetEffect
  <2>3. PICK c : NewCall("task", c) /\ c.k = k
    <3>1. k \in Labels /\ at' = [at EXCEPT !["task"].s = s, !["task"].k = k]
      BY <1>p, <2>1, LabelNames DEF PassPuts
    <3> QED
      BY <1>s, <3>1, TaskPuts
  <2> QED
    BY <1>p, <2>1, <2>2, <2>3, PassResetHeld
<1>13. ASSUME finish_report PROVE KeepsHeld
  <2>1. /\ pc["task"] = "fin" /\ UNCHANGED <<table, tk, rep, works, taken>> /\ Goto("task", "put")
        /\ utrace_reset(rep.s) \/ UNCHANGED <<u, eng>>
        /\ at' = [at EXCEPT !["task"].s = rep.s, !["task"].k = IF rep.tp THEN "tp_out" ELSE "w_done"]
    BY <1>13 DEF finish_report, kernel, others
  <2>2. PICK k \in PassPuts : k = IF rep.tp THEN "tp_out" ELSE "w_done"
    BY DEF PassPuts
  <2>3. at' = [at EXCEPT !["task"].s = rep.s, !["task"].k = k]
    BY <2>1, <2>2
  <2> QED
    BY <1>p, <1>u, <2>1, <2>3
<1>14. ASSUME InterruptAgain PROVE KeepsHeld
  <2>1. /\ pc["task"] = "fin" /\ UNCHANGED <<table, tk, rep, works, taken>> /\ Goto("task", "notify")
        /\ utrace_reset(rep.s)
        /\ at' = [at EXCEPT !["task"].s = rep.s, !["task"].k = "w_done"]
    BY <1>14 DEF InterruptAgain, kernel, others
  <2>2. "w_done" \in PassPuts
    BY DEF PassPuts
  <2> QED
    BY <1>p, <1>u, <2>1, <2>2
<1>15. ASSUME utrace_maybe_reap PROVE KeepsHeld
  <2>1. /\ pc["task"] = "reap" /\ UNCHANGED <<table, tk, rep, works, taken>> /\ Goto("task", "put")
        /\ utrace_reset(rep.s)
        /\ at' = [at EXCEPT !["task"].s = rep.s, !["task"].k = "put2"]
    BY <1>15 DEF utrace_maybe_reap, kernel, others
  <2>2. "put2" \in PassPuts
    BY DEF PassPuts
  <2> QED
    BY <1>p, <1>u, <2>1, <2>2
<1>16. ASSUME NotifyCount PROVE KeepsHeld
  <2>1. /\ pc["task"] = "fin_count" /\ UNCHANGED <<table, u, eng, tk, at, rep, works, taken>>
        /\ Goto("task", "put")
    BY <1>16 DEF NotifyCount, kernel, others
  <2>2. at["task"].k = "w_done"
    BY <1>s, <2>1 DEF PlaceInv, TaskPlace
  <2>3. Stays("task") /\ pc'["task"] = "put" /\ at'["task"] = at["task"]
    BY <1>s, <2>1, OthersStay DEF Stays
  <2>4. Away' /\ NoNewWork /\ rep.s \in Structs /\ pc["task"] \in UsesReport /\ pc["task"] # "put2"
    BY <1>r, <1>u, <2>1, <2>2, <2>3, NoNewWorks DEF Away, PassPuts
  <2> QED
    BY <1>e, <1>n, <2>1, <2>3, <2>4, PassMoveHeld
<1>17. ASSUME SecondPut PROVE KeepsHeld
  <2>1. /\ pc["task"] = "put2" /\ UNCHANGED <<table, u, eng, tk, rep, works, taken>>
        /\ Goto("task", "put") /\ at' = [at EXCEPT !["task"].k = "w_done"]
    BY <1>17 DEF SecondPut, kernel, others
  <2>2. PICK c : NewCall("task", c) /\ c.k = "w_done"
    <3>1. "w_done" \in Labels
      BY LabelNames
    <3> QED
      BY <1>s, <2>1, <3>1, CallPutsNext
  <2>3. Stays("task") /\ pc'["task"] = "put" /\ at'["task"].k = "w_done"
    BY <1>s, <2>1, <2>2, OthersStay DEF Stays, NewCall
  <2>4. Away' /\ NoNewWork
    BY <2>1, <2>3, NoNewWorks DEF Away, PassPuts
  <2>5. rep.s \in Structs
    BY <1>s, <2>1 DEF UseInv, PutsReported
  <2> QED
    BY <1>e, <1>n, <2>1, <2>3, <2>4, <2>5, PassMoveHeld
<1> QED
  BY <1>1, <1>2, <1>3, <1>4, <1>5, <1>6, <1>7, <1>8, <1>9, <1>10, <1>11, <1>12, <1>13, <1>14,
     <1>15, <1>16, <1>17, NotifyAgainHeld DEF PassStep

-----------------------------------------------------------------------------
(* The task works.                                                          *)

(* The task outside: what of its life has to be shown.                      *)
LEMMA LifeOutside ==
    ASSUME LifeInv, UNCHANGED tk, rep'.ev \in {rep.ev, "NONE"}, NoNewWork, ~Calling("task")',
           pc'["task"] \notin {"user", "tp_get"}
    PROVE  LifeInv'
<1>1. \A s : Report(s)' = Report(s)
  BY DEF Report
<1>2. \A s \in Structs : Report(s)' \in works' \cup taken' => tk'.exiting
  BY <1>1 DEF LifeInv, NoNewWork
<1> QED
  BY <1>2 DEF LifeInv

(* The task goes from one place outside the pass and the calls to another.   *)
LEMMA WorkMoveHeld ==
    ASSUME Sound, ~Oops, WorkStep, UNCHANGED <<table, u, eng, works, taken, tk>>,
           rep'.ev \in {rep.ev, "NONE"}, at'["stap"] = at["stap"],
           NEW l \in TfLabels \cup {"w_wake", "tw", "w_done"}, Goto("task", l),
           pc["task"] \notin PutLabels
    PROVE  KeepsHeld
<1>s. Places /\ LifeInv
  BY Shapes
<1>1. pc'["task"] = l /\ pc'["stap"] = pc["stap"]
  BY <1>s, TaskGoes
<1>2. NoNewWork /\ NoGain
  BY Shapes, NoNewWorks, WorkUses
<1>3. /\ l \in TfLabels \cup Uncounted \cup {"w_done"} /\ l \notin {"user", "tp_get"}
      /\ l \notin CallLabels \cup PutLabels
  BY DEF TfLabels, Uncounted, CallLabels, PutLabels
<1>4. ~Calling("task")'
  BY <1>1, <1>3 DEF Calling
<1>5. LifeInv'
  BY <1>s, <1>1, <1>2, <1>3, <1>4, LifeOutside
<1> QED
  BY <1>1, <1>2, <1>3, <1>5, OutHeld

(* The wake-up moves both, and neither has or gets anything.                 *)
LEMMA WakeHeld ==
    ASSUME Sound, UNCHANGED <<table, u, eng, works, taken, tk, at, rep>>,
           pc["task"] = "w_wake", pc'["task"] = "tw",
           pc["stap"] = "st_sleep", pc'["stap"] = "st_wait"
    PROVE  KeepsHeld
<1>s. LifeInv /\ WorkInv /\ CodeInv
  BY Shapes
<1>1. \A p \in Procs : /\ ~AttachedBy(p)' /\ ~BeingMade(p)'
                       /\ \A e \in Engines : ~HasEngine(p, e)'
                       /\ pc'[p] \notin {"att_alloc", "cleanup"}
  BY DEF Procs, AttachedBy, BeingMade, HasEngine, WithEngine, UsesEngine, PutLabels
<1>2. \A p \in Procs, s \in Structs :
        ~CallHolds(p, s) /\ ~CallHolds(p, s)' /\ ~Making(p, s) /\ ~Making(p, s)'
  BY DEF Procs, CallHolds, Making
<1>3. ~InPass /\ ~InPass' /\ ~Calling("task")' /\ ~Failing /\ ~Failing'
  BY DEF InPass, Calling, UsesReport, PutLabels, CallLabels, Failing
<1>4. \A s \in Structs : ~Orphan(s) /\ ~Orphan(s)'
  BY DEF Orphan, TracepointPuts
<1>5. \A s \in Structs : WorkRefs(s)' = WorkRefs(s)
  BY DEF WorkRefs, Resume, Report, One
<1>6. \A s \in Structs : PassRefs(s) = 0 /\ PassRefs(s)' = 0
  BY <1>3 DEF PassRefs
<1>7. \A s \in Structs : Owned(s)' <=> Owned(s)
  BY <1>2, <1>4 DEF Owned, Procs
<1>8. \A s \in Structs : Refs(s)' = Refs(s) /\ ListOf(s)' = ListOf(s)
  BY <1>2, <1>5, <1>6, <1>7 DEF Refs, One, Procs, ListOf
<1>9. ControlInv'
  <2>1. LifeInv'
    BY <1>s, <1>3 DEF LifeInv, Report
  <2>2. WorkInv'
    BY <1>s DEF WorkInv, Report, Resume
  <2>3. CodeInv'
    BY <1>s, <1>3 DEF CodeInv, StopLabels
  <2> QED
    BY <2>1, <2>2, <2>3 DEF ControlInv
<1>10. ASSUME HeldInv PROVE HeldInv'
  <2>1. RefsCounted' /\ OneCurrent' /\ EmptyInv'
    BY <1>8, <1>10 DEF HeldInv, RefsCounted, OneCurrent, EmptyInv
  <2>2. MakingInv' /\ AttachedInv' /\ CleanInv' /\ EngineHeld'
    BY <1>1, <1>2 DEF MakingInv, AttachedInv, CleanInv, EngineHeld, Procs
  <2> QED
    BY <2>1, <2>2 DEF HeldInv
<1> QED
  BY <1>9, <1>10 DEF KeepsHeld

(* The works of the task finder attach an engine for a clone.               *)
LEMMA CloneCallHeld ==
    ASSUME Sound, ~Oops, WorkStep, UNCHANGED <<table, u, eng, works, taken, tk, rep>>,
           NEW ops \in {"finder", "target"}, NEW ev \in {FinderEvents, TargetEvents},
           NEW act \in {"RESUME", "INTERRUPT"}, NEW ret \in {"cl_match", "cl_end"},
           Call("task", ops, ev, act, ret), pc["task"] \notin PutLabels
    PROVE  KeepsHeld
<1>s. Places /\ Calls /\ LifeInv /\ "task" \in Procs
  BY Shapes DEF Procs
<1>1. /\ ops \in OpsValues /\ ev \in SUBSET EventBits /\ ret \in Labels
      /\ act \in {"NONE", "RESUME", "INTERRUPT"}
  BY EventSets, LabelNames DEF OpsValues
<1>2. PICK c : /\ NewCall("task", c) /\ Idle(c)
               /\ \/ tk.mm /\ c.ops = ops /\ c.ev = ev /\ c.act = act /\ c.ret = ret
                     /\ c.rc = "0" /\ Goto("task", "att_get")
                  \/ ~tk.mm /\ c.rc = "EPERM" /\ Goto("task", ret)
  BY <1>s, <1>1, CallEffect
<1>3. at'["task"] = c /\ at'["stap"] = at["stap"]
  BY <1>2 DEF NewCall, Procs
<1>4. CASE Goto("task", ret)
  <2>1. ret \in TfLabels
    BY DEF TfLabels
  <2> QED
    BY <1>3, <1>4, <2>1, WorkMoveHeld
<1>5. CASE tk.mm /\ c.ret = ret /\ Goto("task", "att_get")
  <2>1. pc'["task"] = "att_get" /\ pc'["stap"] = pc["stap"]
    BY <1>s, <1>5, TaskGoes
  <2>2. Stays("task")
    BY <1>3, <2>1 DEF Stays, Procs
  <2>3. NoNewWork /\ NoGain
    BY Shapes, NoNewWorks, WorkUses
  <2>4. ~InPass'
    BY <1>3, <1>5, <2>1 DEF InPass, UsesReport
  <2>5. "att_get" \notin UsesStruct \cup {"att_alloc"}
    BY DEF UsesStruct
  <2>6. ~AttachedBy("task")'
    BY <2>1 DEF AttachedBy, WithEngine, UsesEngine, PutLabels
  <2>7. LessHeld("task")
    BY <2>1, <2>5, <2>6, Rests DEF LessHeld, LessCall
  <2>8. LifeInv'
    <3>1. ~tk.exiting
      BY <1>s, <1>5 DEF LifeInv
    <3> QED
      BY <1>s, <2>1, <2>3, <3>1, LifeKept
  <2>9. LessPass /\ ~TracepointPuts
    BY <2>4, NoPass DEF TracepointPuts, PutLabels
  <2> QED
    BY <2>1, <2>2, <2>3, <2>7, <2>8, <2>9, TaskMoveHeld
<1> QED
  BY <1>2, <1>4, <1>5

(* A pass takes over the references of the work that starts it.             *)
LEMMA TakenHeld ==
    ASSUME Sound, HeldInv, pc["task"] \in {"user", "tw"}, Away', Stays("task"),
           UNCHANGED <<table, eng, tk>>, Unmoved, SameRefs, Objects', NoGain,
           pc'["task"] # "tp_get",
           \A t \in Structs : PassRefs(t)' + WorkRefs(t)' <= WorkRefs(t)
    PROVE  HeldInv'
<1>s. Objects /\ UseInv /\ "stap" \in Procs /\ "task" \in Procs
  BY Shapes DEF Procs
<1>1. /\ LessHeld("task") /\ LessHeld("stap")
      /\ \A t \in Structs : /\ ~CallHolds("task", t)' /\ ~Making("task", t)'
                            /\ CallHolds("stap", t)' => CallHolds("stap", t)
                            /\ Making("stap", t)' => Making("stap", t)
  BY AwayLess, StaysLess DEF Stays, Procs, LessHeld, LessCall
<1>2. \A t \in Structs : ~Orphan(t)
  BY DEF TracepointPuts, Orphan
<1>3. \A t \in Structs : Owned(t)' => Owned(t)
  BY <1>1, <1>2 DEF Owned, SameRefs
<1>4. \A t \in Structs : Refs(t)' <= Refs(t)
  <2> SUFFICES ASSUME NEW t \in Structs PROVE Refs(t)' <= Refs(t)
    OBVIOUS
  <2>1. One(CallHolds("stap", t)') <= One(CallHolds("stap", t)) /\ One(CallHolds("task", t)') = 0
    BY <1>1 DEF One
  <2>2. One(Owned(t)') <= One(Owned(t))
    BY <1>3 DEF One
  <2>3. PassRefs(t)' + WorkRefs(t)' <= WorkRefs(t)
    OBVIOUS
  <2> QED
    BY <2>1, <2>2, <2>3, Parts, PartsNext
<1>5. CountsRise
  <2>1. \A t \in Structs : u[t].ref \in Int /\ Refs(t) \in Nat /\ Refs(t)' \in Nat
    BY <1>s, Parts, PartsNext DEF Objects, StructRecord
  <2>2. \A t \in Structs : u'[t].ref = u[t].ref /\ u'[t].mem = u[t].mem /\ ListOf(t)' = ListOf(t)
    BY DEF Unmoved, SameRefs, ListOf
  <2> QED
    BY <1>4, <2>1, <2>2 DEF CountsRise
<1>6. \A t \in Structs : Busy(t)' => Busy(t)
  <2> SUFFICES ASSUME NEW t \in Structs, Busy(t)' PROVE Busy(t)
    OBVIOUS
  <2>1. PassRefs(t)' > 0 \/ WorkRefs(t)' > 0 => WorkRefs(t) > 0
    BY Parts, PartsNext
  <2> QED
    BY <1>1, <2>1 DEF Busy, InUse
<1>7. EngineHeld'
  BY EnginesStay
<1>8. \A p \in Procs : LessCall(p)
  BY <1>1 DEF LessHeld, Procs
<1> QED
  BY <1>s, <1>5, <1>6, <1>7, <1>8, HeldKept DEF Unmoved

(* task_work_run() takes the queue.                                         *)
LEMMA TakeWorksHeld ==
    ASSUME Sound, ~Oops, TakeWorks
    PROVE  KeepsHeld
<1>s. Places /\ Objects /\ LifeInv /\ WorkInv /\ CodeInv
  BY Shapes
<1>1. /\ pc["task"] \in {"user", "tw"} /\ taken = {} /\ taken' = works /\ works' = {}
      /\ Goto("task", "tw") /\ UNCHANGED <<table, u, eng, tk, at, rep>>
  BY DEF TakeWorks, others
<1>2. pc'["task"] = "tw" /\ pc'["stap"] = pc["stap"] /\ Stays("task")
  <2>1. pc'["task"] = "tw" /\ pc'["stap"] = pc["stap"]
    BY <1>s, <1>1, TaskGoes
  <2> QED
    BY <1>1, <2>1 DEF Stays, Procs
<1>3. NoGain
  BY Shapes, WorkUses DEF WorkStep
<1>4. /\ Away' /\ ~InPass' /\ ~Calling("task")'
  BY <1>2, OutOfPass DEF Uncounted, Calling, CallLabels, PutLabels
<1>5. ControlInv'
  <2>1. FewerReports
    BY <1>1 DEF FewerReports
  <2>2. LifeInv'
    BY <1>s, <1>1, <1>2, <1>4, <2>1, LifeGoesOn
  <2>3. \A t : Resume(t)' = Resume(t) /\ Report(t)' = Report(t)
    BY DEF Resume, Report
  <2>4. WorkInv'
    BY <1>s, <1>1, <2>3 DEF WorkInv
  <2>5. CodeInv'
    BY <1>s, <1>1, <1>2, CodeKept
  <2> QED
    BY <2>2, <2>4, <2>5 DEF ControlInv
<1>6. ASSUME HeldInv PROVE HeldInv'
  <2>1. \A t \in Structs : PassRefs(t)' + WorkRefs(t)' <= WorkRefs(t)
    <3> SUFFICES ASSUME NEW t \in Structs PROVE PassRefs(t)' + WorkRefs(t)' <= WorkRefs(t)
      OBVIOUS
    <3>1. PassRefs(t)' = 0
      BY <1>4, NoPass
    <3>2. Resume(t)' = Resume(t) /\ Report(t)' = Report(t)
      BY DEF Resume, Report
    <3>3. works' \cup taken' = works \cup taken
      BY <1>1
    <3>4. WorkRefs(t)' = WorkRefs(t)
      BY <3>2, <3>3 DEF WorkRefs, One
    <3> QED
      BY <3>1, <3>4, Parts
  <2>2. Unmoved /\ SameRefs /\ Objects'
    BY <1>s, <1>1, SameMemory, MemEffects DEF SameRefs
  <2> QED
    BY <1>1, <1>2, <1>3, <1>4, <1>6, <2>1, <2>2, TakenHeld
<1> QED
  BY <1>5, <1>6 DEF KeepsHeld

(* A work leaves the queue: the struct no longer has it, and what counts
   for it is free for the pass.                                             *)
LEMMA WorkTaken ==
    ASSUME Sound, NEW w \in taken, taken' = taken \ {w}, UNCHANGED works, Begins(w)
    PROVE  /\ WorkInv' /\ FewerReports
           /\ \A t \in Structs : /\ w = Resume(t) => WorkRefs(t)' + 1 = WorkRefs(t)
                                 /\ w = Report(t) => WorkRefs(t)' + 2 = WorkRefs(t)
                                 /\ w # Resume(t) /\ w # Report(t) => WorkRefs(t)' = WorkRefs(t)
<1>s. WorkInv
  BY Shapes
<1>0. \A t : Resume(t)' = Resume(t) /\ Report(t)' = Report(t)
  BY DEF Resume, Report
<1>1. \A t \in Structs :
        /\ Resume(t) \in works' \cup taken' <=> Resume(t) \in works \cup taken /\ w # Resume(t)
        /\ Report(t) \in works' \cup taken' <=> Report(t) \in works \cup taken /\ w # Report(t)
  BY <1>s DEF WorkInv
<1>2. WorkInv'
  <2>1. \A t \in Structs : /\ Resume(t) \in works' \cup taken' => u'[t].resumeAdded
                           /\ Report(t) \in works' \cup taken' => u'[t].reportAdded
    BY <1>s, <1>1 DEF WorkInv, Begins
  <2> QED
    BY <1>s, <1>0, <2>1 DEF WorkInv
<1>3. \A t \in Structs : /\ w = Resume(t) => WorkRefs(t)' + 1 = WorkRefs(t)
                         /\ w = Report(t) => WorkRefs(t)' + 2 = WorkRefs(t)
                         /\ w # Resume(t) /\ w # Report(t) => WorkRefs(t)' = WorkRefs(t)
  <2> SUFFICES ASSUME NEW t \in Structs
               PROVE  /\ w = Resume(t) => WorkRefs(t)' + 1 = WorkRefs(t)
                      /\ w = Report(t) => WorkRefs(t)' + 2 = WorkRefs(t)
                      /\ w # Resume(t) /\ w # Report(t) => WorkRefs(t)' = WorkRefs(t)
    OBVIOUS
  <2>1. /\ WorkRefs(t)' = One(Resume(t) \in works' \cup taken') + 2 * One(Report(t) \in works' \cup taken')
        /\ WorkRefs(t) = One(Resume(t) \in works \cup taken) + 2 * One(Report(t) \in works \cup taken)
    BY <1>0 DEF WorkRefs, One
  <2>2. /\ w = Resume(t) => /\ One(Resume(t) \in works \cup taken) = 1
                            /\ One(Resume(t) \in works' \cup taken') = 0
        /\ w = Report(t) => /\ One(Report(t) \in works \cup taken) = 1
                            /\ One(Report(t) \in works' \cup taken') = 0
    BY <1>1 DEF One
  <2>3. /\ w # Resume(t) =>
             One(Resume(t) \in works' \cup taken') = One(Resume(t) \in works \cup taken)
        /\ w # Report(t) =>
             One(Report(t) \in works' \cup taken') = One(Report(t) \in works \cup taken)
    BY <1>1 DEF One
  <2>4. w = Resume(t) => w # Report(t)
    BY WorkDistinct
  <2>5. One(Resume(t) \in works \cup taken) \in {0, 1} /\ One(Report(t) \in works \cup taken) \in {0, 1}
    BY DEF One
  <2> QED
    BY <2>1, <2>2, <2>3, <2>4, <2>5
<1>4. FewerReports
  BY <1>1 DEF FewerReports
<1> QED
  BY <1>2, <1>3, <1>4

(* utrace_resume(), utrace_report_work() or __stp_tf_task_worker_fn()       *)
LEMMA RunWorkHeld ==
    ASSUME Sound, ~Oops, NEW w \in taken, RunWork(w)
    PROVE  KeepsHeld
<1>s. Places /\ Calls /\ Objects /\ LifeInv /\ WorkInv /\ CodeInv /\ w \in Works
  BY Shapes
<1>1. pc["task"] = "tw" /\ UNCHANGED <<table, eng, tk, works>>
  BY DEF RunWork, others
<1>2. /\ Begins(w) /\ taken' = taken \ {w}
      /\ \/ /\ w.kind \in {"resume", "report"} /\ rep'.s = w.id
            /\ \E c : NewCall("task", c) /\ c.s = w.id /\ c.k = "w_done"
            /\ \/ /\ w.kind = "resume" /\ rep'.ev = "NONE" /\ ~rep'.tp
                  /\ Goto("task", IF tk.exiting THEN "put" ELSE "rep_start")
               \/ /\ w.kind = "report" /\ rep'.ev = "DEATH" /\ ~rep'.tp
                  /\ Goto("task", "rw_lock")
         \/ /\ w.kind = "tf" /\ rep'.s = NoStruct /\ rep'.ev = "NONE" /\ ~rep'.tp
            /\ \E c : NewCall("task", c)
            /\ Goto("task", "tf")
  BY <1>s, RunEffect
<1>3. Unmoved /\ SameRefs /\ Objects'
  BY <1>2 DEF Begins
<1>4. NoGain
  BY Shapes, WorkUses DEF WorkStep
<1>5. /\ WorkInv' /\ FewerReports
      /\ \A t \in Structs : /\ w = Resume(t) => WorkRefs(t)' + 1 = WorkRefs(t)
                            /\ w = Report(t) => WorkRefs(t)' + 2 = WorkRefs(t)
                            /\ w # Resume(t) /\ w # Report(t) => WorkRefs(t)' = WorkRefs(t)
  BY <1>1, <1>2, WorkTaken
<1>6. at'["stap"] = at["stap"]
  BY <1>2 DEF NewCall, Procs
<1>7. \E l \in {"put", "rep_start", "rw_lock", "tf"} : Goto("task", l)
  BY <1>2
<1>8. PICK l \in {"put", "rep_start", "rw_lock", "tf"} : Goto("task", l)
  BY <1>7
<1>9. pc'["task"] = l /\ pc'["stap"] = pc["stap"]
  BY <1>s, <1>8, TaskGoes
<1>10. Stays("task")
  BY <1>6, <1>9 DEF Stays, Procs
<1>11. /\ l = "put" => at'["task"].k = "w_done"
       /\ l = "tf" \/ (w.kind = "resume" /\ l \in {"put", "rep_start"} /\ rep'.ev = "NONE" /\ rep'.s = w.id)
            \/ (w.kind = "report" /\ l = "rw_lock" /\ rep'.ev = "DEATH" /\ rep'.s = w.id /\ ~rep'.tp)
  <2>1. /\ Goto("task", "put") => l = "put"
        /\ Goto("task", "rep_start") => l = "rep_start"
        /\ Goto("task", "rw_lock") => l = "rw_lock"
        /\ Goto("task", "tf") => l = "tf"
    BY <1>s, <1>9, TaskGoes
  <2>2. CASE w.kind = "tf"
    BY <1>2, <2>1, <2>2
  <2>3. CASE w.kind \in {"resume", "report"}
    <3>1. at'["task"].k = "w_done" /\ rep'.s = w.id
      BY <1>2, <2>3 DEF NewCall
    <3>2. w.kind = "resume" => rep'.ev = "NONE" /\ (Goto("task", "put") \/ Goto("task", "rep_start"))
      BY <1>2
    <3>3. w.kind = "report" => rep'.ev = "DEATH" /\ ~rep'.tp /\ Goto("task", "rw_lock")
      BY <1>2
    <3> QED
      BY <2>1, <2>3, <3>1, <3>2, <3>3
  <2> QED
    BY <1>2, <2>2, <2>3
<1>12. Away'
  BY <1>9, <1>11 DEF Away, PassLabels, TfLabels, PassPuts
<1>13. rep'.ev \in {"NONE", "DEATH"} /\ (rep'.ev = "DEATH" => w.kind = "report")
  BY <1>2
<1>14. ControlInv'
  <2>1. ~Calling("task")'
    BY <1>12, AwayLess
  <2>2. rep'.ev = "DEATH" => tk.exiting
    <3>1. w.kind = "report" => w.id \in Structs /\ w = Report(w.id)
      BY <1>s, WorkKinds
    <3> QED
      BY <1>s, <1>13, <3>1 DEF LifeInv
  <2>3. \A t \in Structs : Report(t)' \in works' \cup taken' => tk'.exiting
    <3>1. \A t : Report(t)' = Report(t)
      BY DEF Report
    <3> QED
      BY <1>s, <1>1, <1>5, <3>1 DEF LifeInv, FewerReports
  <2>4. LifeInv'
    BY <1>s, <1>1, <1>9, <1>13, <2>1, <2>2, <2>3 DEF LifeInv
  <2>5. CodeInv'
    BY <1>s, <1>1, <1>6, <1>9, CodeKept
  <2> QED
    BY <1>5, <2>4, <2>5 DEF ControlInv
<1>15. ASSUME HeldInv PROVE HeldInv'
  <2>1. \A t \in Structs : PassRefs(t)' + WorkRefs(t)' <= WorkRefs(t)
    <3> SUFFICES ASSUME NEW t \in Structs PROVE PassRefs(t)' + WorkRefs(t)' <= WorkRefs(t)
      OBVIOUS
    <3>0. WorkRefs(t) \in Nat /\ WorkRefs(t)' \in Nat /\ PassRefs(t)' \in Nat
      BY Parts, PartsNext
    <3>k. /\ w.kind = "resume" => w = Resume(w.id)
          /\ w.kind = "report" => w = Report(w.id)
      BY <1>s, WorkKinds
    <3>1. CASE l = "tf"
      <4>1. PassRefs(t)' = 0
        BY <1>9, <3>1, OutOfPass, NoPass DEF TfLabels
      <4> QED
        BY <1>5, <3>0, <4>1
    <3>2. CASE w.kind = "resume" /\ rep'.ev = "NONE" /\ rep'.s = w.id
      <4>1. PassRefs(t)' <= 1 /\ (w.id # t => PassRefs(t)' = 0)
        BY <3>2 DEF PassRefs
      <4>2. w.id = t => w = Resume(t)
        BY <3>2, <3>k
      <4>3. WorkRefs(t)' <= WorkRefs(t)
        BY <1>5, <3>0
      <4>4. w.id = t => WorkRefs(t)' + 1 = WorkRefs(t)
        BY <1>5, <4>2
      <4> QED
        BY <3>0, <4>1, <4>3, <4>4
    <3>3. CASE w.kind = "report" /\ rep'.s = w.id
      <4>1. PassRefs(t)' <= 2 /\ (w.id # t => PassRefs(t)' = 0)
        BY <3>3 DEF PassRefs
      <4>2. w.id = t => w = Report(t)
        BY <3>3, <3>k
      <4>3. WorkRefs(t)' <= WorkRefs(t)
        BY <1>5, <3>0
      <4>4. w.id = t => WorkRefs(t)' + 2 = WorkRefs(t)
        BY <1>5, <4>2
      <4> QED
        BY <3>0, <4>1, <4>3, <4>4
    <3> QED
      BY <1>11, <3>1, <3>2, <3>3
  <2> QED
    BY <1>1, <1>3, <1>4, <1>9, <1>10, <1>12, <1>15, <2>1, TakenHeld
<1> QED
  BY <1>14, <1>15 DEF KeepsHeld

(* The task has no work left, and goes on to user mode or to its end.       *)
LEMMA WorksDoneHeld ==
    ASSUME Sound, ~Oops, WorksDone \/ Die
    PROVE  KeepsHeld
<1>s. /\ Places /\ LifeInv /\ DeathInv
      /\ tk \in [mm : BOOLEAN, exiting : BOOLEAN, workExited : BOOLEAN,
                 exit : {"none", "zombie", "dead"}]
  BY Shapes DEF TypeInv, SimpleTypes, WorkTypes, Sound
<1>1. /\ UNCHANGED <<table, u, eng, works, taken, at, rep>>
      /\ \/ /\ pc["task"] = "tw" /\ tk' = [tk EXCEPT !.workExited = tk.exiting]
            /\ Goto("task", IF tk.exiting THEN "exited" ELSE "user")
         \/ pc["task"] = "exited" /\ Goto("task", "zombie") /\ tk' = [tk EXCEPT !.exit = "zombie"]
         \/ pc["task"] = "zombie" /\ Goto("task", "dead") /\ tk' = [tk EXCEPT !.exit = "dead"]
  BY DEF WorksDone, Die, others
<1>2. PICK l \in {"exited", "user", "zombie", "dead"} :
          /\ Goto("task", l) /\ (l = "user" => ~tk.exiting) /\ (l # "user" => tk.exiting)
  BY <1>s, <1>1 DEF DeathInv
<1>3. pc'["task"] = l /\ pc'["stap"] = pc["stap"]
  BY <1>s, <1>2, TaskGoes
<1>4. tk'.mm = tk.mm /\ tk'.exiting = tk.exiting /\ (tk'.exit = tk.exit \/ tk.exiting)
  <2>1. tk' = [tk EXCEPT !.workExited = tk.exiting]
           => tk'.mm = tk.mm /\ tk'.exiting = tk.exiting /\ tk'.exit = tk.exit
    BY <1>s
  <2>2. tk' = [tk EXCEPT !.exit = "zombie"] \/ tk' = [tk EXCEPT !.exit = "dead"]
           => tk'.mm = tk.mm /\ tk'.exiting = tk.exiting
    BY <1>s
  <2>3. pc["task"] \in {"exited", "zombie"} => tk.exiting
    BY <1>s DEF DeathInv
  <2> QED
    BY <1>1, <2>1, <2>2, <2>3
<1>5. NoNewWork /\ NoGain
  BY <1>1, Shapes, NoNewWorks, WorkUses DEF WorkStep
<1>6. LifeInv'
  <2>1. ~Calling("task")'
    BY <1>3 DEF Calling, CallLabels, PutLabels
  <2>2. \A s \in Structs : Report(s)' \in works' \cup taken' => tk'.exiting
    BY <1>s, <1>1, <1>4 DEF LifeInv, Report
  <2> QED
    BY <1>s, <1>1, <1>2, <1>3, <1>4, <2>1, <2>2 DEF LifeInv
<1>7. l \in Uncounted /\ pc["task"] \notin PutLabels /\ l # "tp_get"
  BY <1>1 DEF Uncounted, PutLabels
<1> QED
  BY <1>1, <1>3, <1>4, <1>5, <1>6, <1>7, OutHeld

(* Each step of the works, and of the task outside.                         *)
LEMMA WorkHeld ==
    ASSUME Sound, ~Oops, WorkStep
    PROVE  KeepsHeld
<1>s. Places /\ Calls /\ rep \in ReportRecord
  BY Shapes
<1>l. /\ {"w_done", "tf_chk", "tf_in", "tf", "tf_begin", "cl_end", "w_wake", "tw"}
           \subseteq TfLabels \cup {"w_wake", "tw", "w_done"}
      /\ {"w_done", "tf_chk", "tf_in", "tf", "tf_begin", "cl_end", "w_wake", "cl_match"}
           \cap PutLabels = {}
  BY DEF TfLabels, PutLabels
<1>1. ASSUME TakeWorks PROVE KeepsHeld
  BY <1>1, TakeWorksHeld
<1>2. ASSUME NEW w \in taken, RunWork(w) PROVE KeepsHeld
  BY <1>2, RunWorkHeld
<1>3. ASSUME WorksDone \/ Die PROVE KeepsHeld
  BY <1>3, WorksDoneHeld
<1>5. ASSUME TfDequeue PROVE KeepsHeld
  <2>1. /\ pc["task"] = "tf" /\ UNCHANGED <<table, u, eng, works, taken, tk, at>>
        /\ \/ Goto("task", "w_done") /\ UNCHANGED rep
           \/ rep' = [rep EXCEPT !.i = Head(tfs)] /\ Goto("task", "tf_chk")
    BY <1>5 DEF TfDequeue, kernel
  <2>2. rep' = [rep EXCEPT !.i = Head(tfs)] => rep'.ev = rep.ev
    BY <1>s DEF ReportRecord
  <2> QED
    BY <1>l, <2>1, <2>2, WorkMoveHeld
<1>6. ASSUME TfCheck PROVE KeepsHeld
  <2>1. /\ pc["task"] = "tf_chk" /\ UNCHANGED <<table, u, eng, works, taken, tk, at, rep>>
        /\ Goto("task", "tf_in") \/ Goto("task", "tf")
    BY <1>6 DEF TfCheck, kernel, others
  <2> QED
    BY <1>l, <2>1, WorkMoveHeld
<1>7. ASSUME TfEnter PROVE KeepsHeld
  <2>1. /\ pc["task"] = "tf_in" /\ UNCHANGED <<table, u, eng, works, taken, tk, rep>>
        /\ \/ Call("task", "finder", FinderEvents, "RESUME", "cl_match")
           \/ Goto("task", "tf_begin") /\ UNCHANGED at
    BY <1>7 DEF TfEnter, kernel, others
  <2> QED
    BY <1>l, <2>1, WorkMoveHeld, CloneCallHeld
<1>8. ASSUME TfBegin PROVE KeepsHeld
  <2>1. /\ pc["task"] = "tf_begin" /\ UNCHANGED <<table, u, eng, works, taken, tk, at, rep>>
        /\ Goto("task", "tf")
    BY <1>8 DEF TfBegin, kernel, others
  <2> QED
    BY <1>l, <2>1, WorkMoveHeld
<1>9. ASSUME CloneMatch PROVE KeepsHeld
  <2>1. /\ pc["task"] = "cl_match" /\ UNCHANGED <<table, u, eng, works, taken, tk, rep>>
        /\ \/ Call("task", "target", TargetEvents, "INTERRUPT", "cl_end")
           \/ Goto("task", "cl_end") /\ UNCHANGED at
    BY <1>9 DEF CloneMatch, kernel, others
  <2> QED
    BY <1>l, <2>1, WorkMoveHeld, CloneCallHeld
<1>10. ASSUME CloneDone PROVE KeepsHeld
  <2>1. /\ pc["task"] = "cl_end" /\ UNCHANGED <<table, u, eng, works, taken, tk, at, rep>>
        /\ Goto("task", "tf")
    BY <1>10 DEF CloneDone, kernel, others
  <2> QED
    BY <1>l, <2>1, WorkMoveHeld
<1>11. ASSUME stp_task_work_func_done PROVE KeepsHeld
  <2>1. /\ pc["task"] = "w_done" /\ UNCHANGED <<table, u, eng, works, taken, tk>>
        /\ at' = [at EXCEPT !["task"] = NoCall] /\ rep' = NoReport
        /\ Goto("task", "w_wake") \/ Goto("task", "tw")
    BY <1>11 DEF stp_task_work_func_done, kernel, others
  <2>2. at'["stap"] = at["stap"] /\ rep'.ev = "NONE"
    BY <1>s, <2>1 DEF Calls, Procs, NoReport
  <2> QED
    BY <1>l, <2>1, <2>2, WorkMoveHeld
<1>12. ASSUME Wake PROVE KeepsHeld
  <2>1. /\ pc["task"] = "w_wake" /\ pc'["task"] = "tw"
        /\ UNCHANGED <<table, u, eng, works, taken, tk, at, rep>>
        /\ Goto("task", "tw") \/ (pc["stap"] = "st_sleep" /\ pc'["stap"] = "st_wait")
    BY <1>s, <1>12, WakeMoves DEF Wake, kernel, others
  <2>2. CASE Goto("task", "tw")
    BY <1>l, <2>1, <2>2, WorkMoveHeld
  <2>3. CASE pc["stap"] = "st_sleep" /\ pc'["stap"] = "st_wait"
    BY <2>1, <2>3, WakeHeld
  <2> QED
    BY <2>1, <2>2, <2>3
<1> QED
  BY <1>1, <1>2, <1>3, <1>5, <1>6, <1>7, <1>8, <1>9, <1>10, <1>11, <1>12, Zenon DEF WorkStep

-----------------------------------------------------------------------------
(* The death of the task, step by step.                                     *)

(* A step of a call keeps it.                                             *)
LEMMA AttachKeepsDeath ==
    ASSUME PlaceInv, DeathInv, NEW p \in Procs, AttachStep(p)
    PROVE  DeathInv'
<1> USE DEF finder, kernel, others, hist, Goto, PlaceInv, DeathInv, CallLabels, PutLabels,
   CallPuts, Calling, TaskPlace, StapPlace, Locals, Procs
<1>1. ASSUME PutStruct(p) PROVE DeathInv'
  BY <1>1 DEF PutStruct
<1>2. ASSUME utrace_cleanup(p) PROVE DeathInv'
  BY <1>2 DEF utrace_cleanup
<1>3. ASSUME AttachGet(p) PROVE DeathInv'
  BY <1>3 DEF AttachGet, GetStruct
<1>4. ASSUME utrace_task_alloc(p) PROVE DeathInv'
  BY <1>4, AllocControl DEF Returned, NoCall
<1>5. ASSUME utrace_add_engine(p) PROVE DeathInv'
  <2>1. pc[p] = "att_eng" /\ UNCHANGED <<finder, cnt, kernel, rep, hist>>
    BY <1>5, AddControl
  <2>2. ASSUME NEW e, at' = [at EXCEPT ![p].e = e, ![p].found = FALSE, ![p].k = "ev_get"],
               Goto(p, IF at[p].found THEN "put" ELSE "ev_get")
        PROVE  DeathInv'
    BY <2>1, <2>2
  <2>3. ASSUME NEW rc, at' = [at EXCEPT ![p].rc = rc, ![p].k = "att_fail"], Goto(p, "put")
        PROVE  DeathInv'
    BY <2>1, <2>3
  <2> HIDE DEF DeathInv, PlaceInv, finder, hist, Goto
  <2> QED
    BY <1>5, <2>2, <2>3, AddControl, Zenon
<1>6. ASSUME AttachFailed(p) PROVE DeathInv'
  BY <1>6 DEF AttachFailed, Returned, NoCall
<1>7. ASSUME SetEventsGet(p) PROVE DeathInv'
  BY <1>7 DEF SetEventsGet, GetStruct
<1>8. ASSUME utrace_set_events(p) PROVE DeathInv'
  BY <1>8 DEF utrace_set_events
<1>9. ASSUME ControlGet(p) PROVE DeathInv'
  BY <1>9 DEF ControlGet, GetStruct
<1>10. ASSUME utrace_control(p) PROVE DeathInv'
  BY <1>10 DEF utrace_control
<1>11. ASSUME stp_task_work_get(p) PROVE DeathInv'
  BY <1>11 DEF stp_task_work_get
<1>12. ASSUME EnginePut(p) PROVE DeathInv'
  BY <1>12 DEF EnginePut, Returned, NoCall
<1> HIDE DEF finder, kernel, others, hist, Goto, PlaceInv, DeathInv, CallLabels, PutLabels,
   CallPuts, Calling, TaskPlace, StapPlace, Locals, Procs
<1> QED
  BY <1>1, <1>2, <1>3, <1>4, <1>5, <1>6, <1>7, <1>8, <1>9, <1>10, <1>11, <1>12, Zenon
     DEF AttachStep

(* A step of the stap thread keeps it.                                    *)
LEMMA StapKeepsDeath ==
    ASSUME PlaceInv, DeathInv, StapStep
    PROVE  DeathInv'
<1> USE DEF finder, kernel, others, hist, Goto, PlaceInv, DeathInv, CallLabels, PutLabels,
   CallPuts, Calling, TaskPlace, StapPlace, Locals, Procs
<1>1. ASSUME StartFinder PROVE DeathInv'
  BY <1>1, CallControl DEF StartFinder
<1>2. ASSUME StartTarget PROVE DeathInv'
  BY <1>2, CallControl DEF StartTarget
<1>3. ASSUME StartDone PROVE DeathInv'
  BY <1>3 DEF StartDone
<1>4. ASSUME PostGet PROVE DeathInv'
  BY <1>4 DEF PostGet, GetStruct
<1>5. ASSUME find_matching_engine PROVE DeathInv'
  <2>1. /\ pc["stap"] = "post_find" /\ Goto("stap", "put")
        /\ UNCHANGED <<finder, cnt, kernel, rep, hist>>
    BY <1>5, FindControl
  <2>2. CASE at' = [at EXCEPT !["stap"].k = "running"]
    BY <2>1, <2>2
  <2>3. ASSUME NEW s, NEW e,
               at' = [at EXCEPT !["stap"] = [NoCall EXCEPT !.s = s, !.e = e,
                                !.act = "INTERRUPT", !.k = "ctl_get", !.ret = "running"]]
        PROVE  DeathInv'
    BY <2>1, <2>3 DEF NoCall
  <2> HIDE DEF DeathInv, PlaceInv, finder, hist, Goto
  <2> QED
    BY <1>5, <2>2, <2>3, FindControl, Zenon
<1>6. ASSUME Stop PROVE DeathInv'
  BY <1>6 DEF Stop
<1>7. ASSUME CloseFinder PROVE DeathInv'
  BY <1>7 DEF CloseFinder
<1>8. ASSUME utrace_shutdown PROVE DeathInv'
  BY <1>8 DEF utrace_shutdown
<1>9. ASSUME Synchronize PROVE DeathInv'
  BY <1>9 DEF Synchronize
<1>10. ASSUME CancelUtraceWork PROVE DeathInv'
  BY <1>10 DEF CancelUtraceWork
<1>11. ASSUME WaitInuse PROVE DeathInv'
  BY <1>11 DEF WaitInuse
<1>12. ASSUME CancelTfWork PROVE DeathInv'
  BY <1>12 DEF CancelTfWork
<1>13. ASSUME stp_task_work_exit PROVE DeathInv'
  BY <1>13 DEF stp_task_work_exit
<1>14. ASSUME utrace_exit PROVE DeathInv'
  BY <1>14 DEF utrace_exit
<1> HIDE DEF finder, kernel, others, hist, Goto, PlaceInv, DeathInv, CallLabels, PutLabels,
   CallPuts, Calling, TaskPlace, StapPlace, Locals, Procs
<1> QED
  BY <1>1, <1>2, <1>3, <1>4, <1>5, <1>6, <1>7, <1>8, <1>9, <1>10, <1>11, <1>12, <1>13,
     <1>14, Zenon DEF StapStep

(* A step of a tracepoint probe keeps it.                                 *)
LEMMA ProbeKeepsDeath ==
    ASSUME PlaceInv, DeathInv, ProbeStep
    PROVE  DeathInv'
<1> USE DEF finder, kernel, others, hist, Goto, PlaceInv, DeathInv, CallLabels, PutLabels,
   CallPuts, Calling, TaskPlace, StapPlace, Locals, Procs
<1>1. ASSUME Exec PROVE DeathInv'
  BY <1>1 DEF Exec, NoReport
<1>2. ASSUME Exit PROVE DeathInv'
  <2>1. CASE reg
    <3>1. /\ pc["task"] = "user" /\ reg /\ pc' = [pc EXCEPT !["task"] = "tp_get"]
          /\ rep' = [NoReport EXCEPT !.ev = "DEATH", !.tp = TRUE]
          /\ UNCHANGED <<finder, cnt, works, taken, at>>
      BY <1>2, <2>1 DEF Exit
    <3> QED
      BY <3>1 DEF NoReport
  <2>2. CASE ~reg
    <3>1. /\ pc["task"] = "user" /\ ~reg /\ pc' = [pc EXCEPT !["task"] = "tw"]
          /\ UNCHANGED <<finder, cnt, works, taken, at, rep>>
      BY <1>2, <2>2 DEF Exit
    <3> QED
      BY <3>1
  <2> QED
    BY <2>1, <2>2
<1>3. ASSUME TracepointGet PROVE DeathInv'
  <2>1. /\ pc["task"] = "tp_get"
        /\ UNCHANGED <<finder, cnt, taken, tk, hist>>
    BY <1>3, TracepointControl
  <2>2. CASE Goto("task", "tp_out") /\ UNCHANGED <<works, at, rep>>
    BY <2>1, <2>2
  <2>3. ASSUME NEW s, rep' = [rep EXCEPT !.s = s],
               at' = [at EXCEPT !["task"] = [NoCall EXCEPT !.s = s, !.k = "tp_out"]],
               \/ Goto("task", "put") 
               \/ rep.ev = "EXEC" /\ Goto("task", "rep_start")
               \/ rep.ev # "EXEC" /\ Goto("task", "death_count")
        PROVE  DeathInv'
    BY <2>1, <2>3 DEF NoCall
  <2> HIDE DEF DeathInv, PlaceInv, finder, hist
  <2> QED
    BY <1>3, <2>2, <2>3, TracepointControl
<1>4. ASSUME DeathCount PROVE DeathInv'
  BY <1>4 DEF DeathCount
<1>5. ASSUME TracepointReturn PROVE DeathInv'
  BY <1>5 DEF TracepointReturn, NoCall, NoReport
<1> HIDE DEF finder, kernel, others, hist, Goto, PlaceInv, DeathInv, CallLabels, PutLabels,
   CallPuts, Calling, TaskPlace, StapPlace, Locals, Procs
<1> QED
  BY <1>1, <1>2, <1>3, <1>4, <1>5, Zenon DEF ProbeStep

(* A step of a reporting pass keeps it.                                   *)
LEMMA PassKeepsDeath ==
    ASSUME PlaceInv, DeathInv, PassStep
    PROVE  DeathInv'
<1> USE DEF finder, kernel, others, hist, Goto, PlaceInv, DeathInv, CallLabels, PutLabels,
   CallPuts, Calling, TaskPlace, StapPlace, Locals, Procs
<1>1. ASSUME start_report PROVE DeathInv'
  BY <1>1 DEF start_report
<1>2. ASSUME StartDeathReport PROVE DeathInv'
  BY <1>2 DEF StartDeathReport
<1>3. ASSUME start_callback PROVE DeathInv'
  BY <1>3 DEF start_callback
<1>4. ASSUME QuiesceCheck PROVE DeathInv'
  BY <1>4, DetachControl DEF QuiesceCheck, SameReport
<1>5. ASSUME QuiesceEnter PROVE DeathInv'
  BY <1>5 DEF QuiesceEnter, NoCall
<1>6. ASSUME QuiesceAdd PROVE DeathInv'
  BY <1>6 DEF QuiesceAdd
<1>7. ASSUME QuiesceCount PROVE DeathInv'
  BY <1>7 DEF QuiesceCount
<1>8. ASSUME AfterQuiesce PROVE DeathInv'
  BY <1>8, QuiesceControl DEF SameReport
<1>9. ASSUME EventCheck PROVE DeathInv'
  BY <1>9, DetachControl DEF EventCheck, SameReport
<1>10. ASSUME EventEnter PROVE DeathInv'
  BY <1>10, CallControl DEF EventEnter
<1>11. ASSUME ExecMatched PROVE DeathInv'
  BY <1>11 DEF ExecMatched
<1>12. ASSUME TargetEnd PROVE DeathInv'
  BY <1>12, DetachControl DEF TargetEnd, SameReport
<1>13. ASSUME finish_report PROVE DeathInv'
  BY <1>13 DEF finish_report
<1>14. ASSUME InterruptAgain PROVE DeathInv'
  BY <1>14 DEF InterruptAgain
<1>15. ASSUME NotifyAgain PROVE DeathInv'
  BY <1>15 DEF NotifyAgain
<1>16. ASSUME NotifyCount PROVE DeathInv'
  BY <1>16 DEF NotifyCount
<1>17. ASSUME utrace_maybe_reap PROVE DeathInv'
  BY <1>17 DEF utrace_maybe_reap
<1>18. ASSUME SecondPut PROVE DeathInv'
  BY <1>18 DEF SecondPut
<1> HIDE DEF finder, kernel, others, hist, Goto, PlaceInv, DeathInv, CallLabels, PutLabels,
   CallPuts, Calling, TaskPlace, StapPlace, Locals, Procs
<1> QED
  BY <1>1, <1>2, <1>3, <1>4, <1>5, <1>6, <1>7, <1>8, <1>9, <1>10, <1>11, <1>12, <1>13,
     <1>14, <1>15, <1>16, <1>17, <1>18, Zenon DEF PassStep

(* A step of the task around its works keeps it.                          *)
LEMMA WorkKeepsDeath ==
    ASSUME PlaceInv, DeathInv, WorkStep,
           DOMAIN tk = {"mm", "exiting", "workExited", "exit"}
    PROVE  DeathInv'
<1> USE DEF finder, kernel, others, hist, Goto, PlaceInv, DeathInv, CallLabels, PutLabels,
   CallPuts, Calling, TaskPlace, StapPlace, Locals, Procs
<1>1. ASSUME TakeWorks PROVE DeathInv'
  BY <1>1 DEF TakeWorks
<1>2. ASSUME NEW w \in taken, RunWork(w) PROVE DeathInv'
  BY <1>2 DEF RunWork, NoCall, NoReport
<1>3. ASSUME WorksDone PROVE DeathInv'
  BY <1>3 DEF WorksDone
<1>4. ASSUME Die PROVE DeathInv'
  BY <1>4 DEF Die
<1>5. ASSUME TfDequeue PROVE DeathInv'
  BY <1>5 DEF TfDequeue
<1>6. ASSUME TfCheck PROVE DeathInv'
  BY <1>6 DEF TfCheck
<1>7. ASSUME TfEnter PROVE DeathInv'
  BY <1>7, CallControl DEF TfEnter
<1>8. ASSUME TfBegin PROVE DeathInv'
  BY <1>8 DEF TfBegin
<1>9. ASSUME CloneMatch PROVE DeathInv'
  BY <1>9, CallControl DEF CloneMatch
<1>10. ASSUME CloneDone PROVE DeathInv'
  BY <1>10 DEF CloneDone
<1>11. ASSUME stp_task_work_func_done PROVE DeathInv'
  BY <1>11 DEF stp_task_work_func_done, NoCall, NoReport
<1>12. ASSUME Wake PROVE DeathInv'
  BY <1>12 DEF Wake
<1> HIDE DEF finder, kernel, others, hist, Goto, PlaceInv, DeathInv, CallLabels, PutLabels,
   CallPuts, Calling, TaskPlace, StapPlace, Locals, Procs
<1> QED
  BY <1>1, <1>2, <1>3, <1>4, <1>5, <1>6, <1>7, <1>8, <1>9, <1>10, <1>11, <1>12, Zenon
     DEF WorkStep

-----------------------------------------------------------------------------
(* The structs are held.                                                    *)

(* That two attachers met, or that a work was counted down early, is not
   forgotten.                                                               *)
LEMMA HistoryKept ==
    ASSUME Next
    PROVE  (raced => raced') /\ (early => early')
<1> USE DEF hist
<1>1. ASSUME NEW p \in Procs, AttachStep(p) PROVE (raced => raced') /\ (early => early')
  <2>1. ASSUME AttachGet(p) \/ SetEventsGet(p) \/ ControlGet(p)
        PROVE  (raced => raced') /\ (early => early')
    <3>1. ASSUME NEW a, NEW b, NEW c, GetStruct(p, a, b, c) PROVE UNCHANGED early
      BY <3>1 DEF GetStruct
    <3>2. ASSUME AttachGet(p) PROVE (raced => raced') /\ (early => early')
      BY <3>1, <3>2 DEF AttachGet
    <3>3. ASSUME SetEventsGet(p) PROVE (raced => raced') /\ (early => early')
      BY <3>1, <3>3 DEF SetEventsGet
    <3>4. ASSUME ControlGet(p) PROVE (raced => raced') /\ (early => early')
      BY <3>1, <3>4 DEF ControlGet
    <3> QED
      BY <2>1, <3>2, <3>3, <3>4
  <2>2. ASSUME \/ PutStruct(p) \/ utrace_cleanup(p) \/ utrace_task_alloc(p) \/ utrace_add_engine(p)
               \/ AttachFailed(p) \/ utrace_set_events(p) \/ utrace_control(p)
               \/ stp_task_work_get(p) \/ EnginePut(p)
        PROVE  UNCHANGED hist
    BY <2>2, Zenon DEF PutStruct, utrace_cleanup, utrace_task_alloc, utrace_add_engine, AttachFailed,
       utrace_set_events, utrace_control, stp_task_work_get, EnginePut
  <2> QED
    BY <1>1, <2>1, <2>2 DEF AttachStep
<1>2. ASSUME StapStep PROVE (raced => raced') /\ (early => early')
  <2>1. ASSUME PostGet PROVE (raced => raced') /\ (early => early')
    BY <2>1, Zenon DEF PostGet, GetStruct
  <2>2. ASSUME CancelUtraceWork PROVE (raced => raced') /\ (early => early')
    BY <2>2, Zenon DEF CancelUtraceWork
  <2>3. ASSUME \/ StartFinder \/ StartTarget \/ StartDone \/ find_matching_engine \/ Stop
               \/ CloseFinder \/ utrace_shutdown \/ Synchronize \/ WaitInuse \/ CancelTfWork
               \/ stp_task_work_exit \/ utrace_exit
        PROVE  UNCHANGED hist
    BY <2>3, Zenon DEF StartFinder, StartTarget, StartDone, find_matching_engine, Stop, CloseFinder,
       utrace_shutdown, Synchronize, WaitInuse, CancelTfWork, stp_task_work_exit, utrace_exit
  <2> QED
    BY <1>2, <2>1, <2>2, <2>3 DEF StapStep
<1>3. ASSUME ProbeStep PROVE UNCHANGED <<raced, early>>
  BY <1>3, Zenon DEF ProbeStep, Exec, Exit, TracepointGet, DeathCount, TracepointReturn
<1>4. ASSUME PassStep PROVE UNCHANGED <<raced, early>>
  BY <1>4, Zenon DEF PassStep, start_report, StartDeathReport, start_callback, QuiesceCheck,
     QuiesceEnter, QuiesceAdd, QuiesceCount, AfterQuiesce, EventCheck, EventEnter, ExecMatched,
     TargetEnd, finish_report, InterruptAgain, NotifyAgain, NotifyCount, utrace_maybe_reap, SecondPut
<1>5. ASSUME WorkStep PROVE UNCHANGED <<raced, early>>
  BY <1>5, Zenon DEF WorkStep, TakeWorks, RunWork, WorksDone, Die, TfDequeue, TfCheck, TfEnter,
     TfBegin, CloneMatch, CloneDone, stp_task_work_func_done, Wake
<1>6. UNCHANGED vars => UNCHANGED <<raced, early>>
  BY DEF vars
<1> QED
  BY <1>1, <1>2, <1>3, <1>4, <1>5, <1>6, NextSteps

(* Before anything is allocated nothing is held.                            *)
LEMMA InitHeld ==
    ASSUME Init
    PROVE  Sound /\ HeldInv
<1>1. /\ pc = [p \in Procs |-> IF p = "stap" THEN "start" ELSE "user"]
      /\ at = [p \in Procs |-> NoCall] /\ rep = NoReport
      /\ u = [s \in Structs |-> FreshStruct] /\ taken = {}
      /\ tk = [mm |-> TRUE, exiting |-> FALSE, workExited |-> FALSE, exit |-> "none"]
  BY DEF Init
<1>2. pc["stap"] = "start" /\ pc["task"] = "user" /\ rep.ev = "NONE" /\ at["stap"].rc = "0"
  BY <1>1 DEF Procs, NoReport, NoCall
<1>3. \A s \in Structs : Resume(s) \notin works \cup taken /\ Report(s) \notin works \cup taken
  <2>1. works = {TfWork(CloneId)} \/ works = {}
    BY Zenon DEF Init
  <2> QED
    BY <1>1, <2>1, WorkDistinct
<1>4. EnginesInv /\ QuietInv
  BY InitEngines, InitQuiet
<1>5. tk.mm = TRUE /\ tk.exiting = FALSE /\ tk.exit = "none"
  BY <1>1
<1>6. LifeInv
  BY <1>2, <1>3, <1>5 DEF LifeInv, Calling, CallLabels, PutLabels
<1>7. WorkInv /\ CodeInv /\ DeathInv
  BY <1>2, <1>3 DEF WorkInv, CodeInv, Failing, PutLabels, DeathInv
<1>8. \A s \in Structs : u[s].ref = 0 /\ ListOf(s) = {}
  BY <1>1, FreshRecord, ToSetParts DEF ListOf
<1>9. \A p \in Procs : pc[p] \notin UsesStruct \cup {"att_alloc", "cleanup"} /\ ~WithEngine(p)
  BY <1>2 DEF Procs, UsesStruct, WithEngine, UsesEngine, PutLabels
<1>10. \A p \in Procs, s \in Structs : ~CallHolds(p, s) /\ ~Making(p, s) /\ ~BeingMade(p)
  BY <1>9 DEF CallHolds, Making, BeingMade, UsesStruct
<1>11. RefsCounted
  <2> SUFFICES ASSUME NEW s \in Structs PROVE u[s].ref >= Refs(s)
    BY DEF RefsCounted
  <2>1. ~InPass
    BY <1>2 DEF InPass, UsesReport, Calling, CallLabels, PutLabels
  <2>2. PassRefs(s) = 0 /\ WorkRefs(s) = 0
    BY <1>3, <2>1 DEF PassRefs, WorkRefs, One
  <2>3. ~Owned(s) /\ ~CallHolds("stap", s) /\ ~CallHolds("task", s)
    BY <1>8, <1>10 DEF Owned, Procs
  <2>4. Refs(s) = 0
    BY <2>2, <2>3 DEF Refs, One
  <2> QED
    BY <1>8, <2>4
<1>12. OneCurrent /\ EmptyInv
  BY <1>8 DEF OneCurrent, EmptyInv
<1>13. MakingInv
  <2>1. ~BeingMade("stap")
    BY <1>2 DEF BeingMade
  <2> QED
    BY <1>9, <1>10, <2>1 DEF MakingInv
<1>14. AttachedInv
  BY <1>2 DEF AttachedInv, AttachedBy, WithEngine, UsesEngine, PutLabels
<1>15. CleanInv /\ EngineHeld
  BY <1>9 DEF CleanInv, EngineHeld, HasEngine, Procs
<1> QED
  BY <1>4, <1>6, <1>7, <1>11, <1>12, <1>13, <1>14, <1>15 DEF Sound, ControlInv, HeldInv

(* A stuttering step keeps it.                                              *)
LEMMA StutterHeld ==
    ASSUME Sound, UNCHANGED vars
    PROVE  KeepsHeld /\ DeathInv'
<1>1. UNCHANGED <<table, u, eng, works, taken, tk, pc, at, rep>>
  BY DEF vars, kernel
<1>2. Stays("stap") /\ NoNewWork /\ SameAdded /\ Objects'
  BY <1>1, Shapes, NoNewWorks, SameMemory, MemEffects DEF Stays
<1>3. LessHeld("stap")
  BY <1>1, StaysLess DEF LessHeld
<1>4. ControlInv'
  BY <1>1, <1>2, Shapes, LifeStays, WorkInvKept, CodeKept DEF ControlInv
<1>5. ASSUME HeldInv PROVE HeldInv'
  <2>1. NoGain
    BY <1>1 DEF NoGain, HasEngine, WithEngine
  <2>2. EngineHeld'
    BY <1>1, <1>5, <2>1, EnginesStay
  <2>3. \A s \in Structs : /\ u'[s].ref = u[s].ref /\ u'[s].mem = u[s].mem
                           /\ ListOf(s)' \subseteq ListOf(s) /\ u'[s].flags = u[s].flags
    BY <1>1 DEF ListOf
  <2>4. "stap" \in Procs /\ "stap" # "task" /\ (GaveUp => GaveUp')
    BY <1>1 DEF Procs, GaveUp
  <2> QED
    BY <1>1, <1>2, <1>3, <1>5, <2>2, <2>3, <2>4, Shapes, MoveHeld
<1>6. DeathInv'
  BY <1>1 DEF Sound, DeathInv
<1> QED
  BY <1>4, <1>5, <1>6 DEF KeepsHeld

(* What holds of the structs, whatever the processes do: all of it, until two
   attachers meet or a work is counted down before it is counted.           *)
StructsInv == Sound /\ (raced \/ early \/ HeldInv)

(* Every step keeps it.                                                     *)
LEMMA NextHeld ==
    ASSUME StructsInv, [Next]_vars
    PROVE  StructsInv'
<1>s. Sound /\ PlaceInv /\ QuietInv /\ EnginesInv /\ DeathInv
      /\ DOMAIN tk = {"mm", "exiting", "workExited", "exit"}
  BY Shapes DEF StructsInv, Sound, TypeInv, SimpleTypes, WorkTypes
<1>1. EnginesInv' /\ QuietInv'
  BY <1>s, NextEngines, NextQuiet
<1>2. KeepsHeld /\ DeathInv'
  <2>1. CASE UNCHANGED vars
    BY <1>s, <2>1, StutterHeld
  <2>2. ASSUME ~Oops, NEW p \in Procs, AttachStep(p) PROVE KeepsHeld /\ DeathInv'
    BY <1>s, <2>2, AttachStepHeld, AttachKeepsDeath
  <2>3. CASE ~Oops /\ StapStep
    BY <1>s, <2>3, StapHeld, StapKeepsDeath
  <2>4. CASE ~Oops /\ ProbeStep
    BY <1>s, <2>4, ProbeHeld, ProbeKeepsDeath
  <2>5. CASE ~Oops /\ PassStep
    BY <1>s, <2>5, PassHeld, PassKeepsDeath
  <2>6. CASE ~Oops /\ WorkStep
    BY <1>s, <2>6, WorkHeld, WorkKeepsDeath
  <2> QED
    BY <2>1, <2>2, <2>3, <2>4, <2>5, <2>6, StepsRun
<1>3. (raced => raced') /\ (early => early')
  BY HistoryKept DEF vars, hist
<1> QED
  BY <1>1, <1>2, <1>3 DEF StructsInv, Sound, KeepsHeld

(* A struct with a reference is in memory, and so are the ones in use.      *)
LEMMA HeldLive ==
    ASSUME Sound, HeldInv
    PROVE  /\ \A p \in Procs : pc[p] \in UsesStruct => u[at[p].s].mem = "live"
           /\ InPass => u[rep.s].mem = "live"
           /\ \A w \in works \cup taken : w.kind # "tf" => u[w.id].mem = "live"
<1>s. Objects /\ UseInv /\ ListInv /\ PlaceInv /\ works \in SUBSET Works /\ taken \in SUBSET Works
  BY Shapes
<1>1. \A s \in Structs : u[s].ref > 0 => u[s].mem = "live"
  BY <1>s DEF ListInv
<1>2. \A s \in Structs : /\ PassRefs(s) > 0 \/ WorkRefs(s) > 0 => u[s].mem = "live"
                         /\ \A p \in Procs : CallHolds(p, s) \/ Making(p, s) => u[s].mem = "live"
  BY <1>s, <1>1, Counted DEF HeldInv
<1>3. ASSUME InPass PROVE rep.s \in Structs /\ u[rep.s].mem = "live"
  <2>1. rep.s \in Structs
    BY <1>s, <1>3 DEF UseInv
  <2>2. PassRefs(rep.s) > 0
    BY <1>3 DEF PassRefs
  <2> QED
    BY <1>2, <2>1, <2>2
<1>4. ASSUME NEW p \in Procs, pc[p] \in UsesStruct PROVE u[at[p].s].mem = "live"
  <2>1. at[p].s \in Structs
    BY <1>s, <1>4 DEF UseInv
  <2>2. CASE pc[p] = "cleanup"
    BY <2>2 DEF HeldInv, CleanInv
  <2>3. CASE pc[p] \in {"ev_set", "ctl_lock", "ctl_count", "post_find", "att_eng"}
    <3>1. CallHolds(p, at[p].s) \/ Making(p, at[p].s)
      BY <2>3 DEF CallHolds, Making
    <3> QED
      BY <1>2, <2>1, <3>1
  <2>4. CASE pc[p] = "put" /\ at[p].k \in CallPuts \cup {"running"}
    <3>1. CallHolds(p, at[p].s) \/ Making(p, at[p].s)
      BY <2>4 DEF CallHolds, Making
    <3> QED
      BY <1>2, <2>1, <3>1
  <2>5. CASE p = "task" /\ (pc[p] = "put2" \/ (pc[p] = "put" /\ at[p].k \in PassPuts))
    <3>1. InPass /\ PutsReported
      BY <2>5 DEF InPass, PutsReported, PutLabels
    <3> QED
      BY <1>s, <1>3, <2>5, <3>1 DEF UseInv
  <2>6. pc["stap"] # "put2"
    BY <1>s DEF PlaceInv, StapPlace, CallLabels, PutLabels, StartLabels, StopLabels
  <2>7. pc[p] = "put" => at[p].k \in CallPuts \cup {"running"} \/ (p = "task" /\ at[p].k \in PassPuts)
    BY <1>s DEF PlaceInv, StapPlace, TaskPlace, PassPuts, Procs, PutLabels
  <2> QED
    BY <1>4, <2>2, <2>3, <2>4, <2>5, <2>6, <2>7 DEF UsesStruct, Procs
<1>5. ASSUME NEW w \in works \cup taken, w.kind # "tf" PROVE u[w.id].mem = "live"
  <2>1. w.id \in Structs /\ (w = Resume(w.id) \/ w = Report(w.id))
    BY <1>s, <1>5, WorkKinds
  <2>2. WorkRefs(w.id) > 0
    BY <2>1 DEF WorkRefs, One
  <2> QED
    BY <1>2, <2>1, <2>2
<1> QED
  BY <1>3, <1>4, <1>5

(* ... and the engines with them.                                           *)
LEMMA HeldEnginesLive ==
    ASSUME Sound, HeldInv
    PROVE  /\ \A s \in Structs : \A e \in ListOf(s) : eng[e].mem = "live"
           /\ ~tk.exiting => \A p \in Procs : pc[p] \in UsesEngine => eng[at[p].e].mem = "live"
<1>s. Objects /\ UseInv /\ EngineInv /\ PlaceInv
  BY Shapes
<1>1. \A s \in Structs : \A e \in ListOf(s) : e \in Engines /\ eng[e].mem = "live"
  <2>1. \A s \in Structs : ListOf(s) \subseteq Engines
    <3>1. \A s \in Structs : u[s].attached \in Seq(Engines) /\ u[s].attaching \in Seq(Engines)
      BY <1>s DEF Objects, StructRecord
    <3>2. \A s \in Structs : ToSet(u[s].attached) \in SUBSET Engines
                            /\ ToSet(u[s].attaching) \in SUBSET Engines
      BY <3>1, ToSetParts
    <3> QED
      BY <3>2 DEF ListOf
  <2> QED
    BY <1>s, <2>1 DEF EngineInv, Listed
<1>2. ASSUME ~tk.exiting, NEW p \in Procs, pc[p] \in UsesEngine PROVE eng[at[p].e].mem = "live"
  <2>1. WithEngine(p) /\ at[p].e \in Engines /\ Calling(p)
    BY <1>s, <1>2 DEF UseInv, WithEngine, UsesEngine, Calling, CallLabels
  <2>2. CASE at[p].act # "NONE"
    BY <1>2, <2>1, <2>2 DEF HasEngine, HeldInv, EngineHeld
  <2>3. CASE at[p].act = "NONE"
    <3>1. p = "task" /\ at[p].ret = "q_add"
      BY <1>s, <2>1, <2>3 DEF PlaceInv, StapPlace, TaskPlace, Procs
    <3>2. InPass /\ AtEngine
      BY <2>1, <3>1 DEF InPass, AtEngine
    <3>3. rep.s \in Structs /\ u[rep.s].mem = "live"
      BY <1>s, <3>2, HeldLive DEF UseInv
    <3>4. rep.i \in 1..Len(u[rep.s].attached) /\ at[p].e = u[rep.s].attached[rep.i]
      BY <1>s, <2>1, <2>3, <3>1, <3>2, <3>3 DEF UseInv
    <3>5. at[p].e \in ListOf(rep.s)
      <4>1. u[rep.s].attached \in Seq(Engines)
        BY <1>s, <3>3 DEF Objects, StructRecord
      <4>2. at[p].e \in ToSet(u[rep.s].attached)
        BY <3>4, <4>1, ToSetIs
      <4> QED
        BY <4>2 DEF ListOf
    <3> QED
      BY <1>1, <3>3, <3>5
  <2> QED
    BY <2>2, <2>3
<1> QED
  BY <1>1, <1>2

(* The structs and the engines, for any number of structs, engines, failures
   and execs: unless two attachers made a struct each for the task, or a work
   of utrace_resume() was counted down before it was counted, no struct utrace
   is freed under a process that looked it up, under a reporting pass or under
   a task work, the engines on its lists are alive, and so is the engine of a
   call until the task exits.                                               *)
THEOREM StructsHeld == Spec => []StructHeld
<1>1. Init => StructsInv
  BY InitHeld DEF StructsInv
<1>2. StructsInv /\ [Next]_vars => StructsInv'
  BY NextHeld
<1>3. StructsInv => StructHeld
  <2> SUFFICES ASSUME Sound, HeldInv PROVE StructHeld
    BY DEF StructsInv, StructHeld
  <2>1. pc["task"] \in UsesReport => InPass
    BY DEF InPass
  <2> QED
    BY <2>1, HeldLive, HeldEnginesLive DEF StructHeld
<1> QED
  BY <1>1, <1>2, <1>3, PTL DEF Spec

====
