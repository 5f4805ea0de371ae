------------------------------- MODULE Utrace -------------------------------
(***************************************************************************)
(* The task finder and its utrace layer, for one user task.                *)
(*   src/runtime/stp_utrace.c        struct utrace, engines, reports       *)
(*   src/runtime/stp_task_work.c     the count of outstanding task works   *)
(*   src/runtime/linux/task_finder2.c attaching, callbacks, shutdown       *)
(*                                                                         *)
(* Two processes run this code: "stap", the thread that starts the task    *)
(* finder, pokes the task afterwards and finally stops the task finder     *)
(* while the module unloads; and "task", the probed thread, which comes    *)
(* here through the exec and exit tracepoints and through the task works   *)
(* the kernel runs on its way back to user mode and out of do_exit().      *)
(* A critical section under utrace->lock or a bucket lock is one step.     *)
(*                                                                         *)
(* The task may have been forked by a traced parent, whose clone report    *)
(* then queued __stp_tf_clone_worker for it before it first ran.  The      *)
(* inline reports of a kernel without PREEMPT_RT are modelled.  Nobody in  *)
(* this code detaches an engine of another task, so utrace->reporting and  *)
(* utrace_barrier() (which nobody then waits in) are left out, and so are  *)
(* UTRACE_STOP and UTRACE_REPORT, which no caller uses.                    *)
(***************************************************************************)
EXTENDS Integers, Sequences, FiniteSets, SequencesExt

CONSTANTS
    NStructs,   \* bound: struct utrace objects that are ever allocated
    NEngines,   \* bound: engines that are ever allocated
    MaxTrouble  \* bound: how often the task is forked into the walk, execs,
                \* or an allocation fails, together

ASSUME UtraceAssumption == {NStructs, NEngines, MaxTrouble} \subseteq Nat

Structs == 1..NStructs
Engines == 1..NEngines
Procs == {"stap", "task"}

\* The event masks; CLONE, which concerns the task's children, is left out.
FinderEvents == {"EXEC", "DEATH"}
TargetEvents == {"QUIESCE", "DEATH"}

\* Mutant: the events kept after the first quiesce report lack DEATH.
BaseEventsNoDeath == {"EXEC"}

BaseEvents == {"EXEC", "DEATH"}

VARIABLES
    tf,         \* __stp_task_finder_state
    reg,        \* utrace is registered, and its probes are on the tracepoints
    inuse,      \* __stp_inuse_count
    tgtAttached,\* tgt->engine_attached
    table,      \* the structs of this task in its hash bucket, head first
    u,          \* struct -> struct utrace
    eng,        \* engine -> struct utrace_engine
    cnt,        \* stp_task_work_callbacks
    works,      \* task works queued on the task (tsk->task_works)
    taken,      \* task works task_work_run() took off it, still to run
    tfs,        \* __stp_tf_task_work_list, in order
    tk,         \* the task: mm present, PF_EXITING, past exit_task_work, EXIT_DEAD
    pc, at,     \* program counter and locals of the utrace calls, per process
    rep,        \* the task's struct utrace_report and loop position
    forked,     \* the task came up with a clone worker queued
    raced,      \* two attachers met while the task's struct was being made
    early,      \* a work was cancelled after it was added and before it was counted
    fails,      \* allocations that failed
    execs,
    nbegin, nend \* register and deregister callbacks __stp_call_callbacks made

kernel == <<works, taken, tk>>
finder == <<tf, reg, inuse, tgtAttached>>
hist == <<forked, raced, early, execs, nbegin, nend>>
vars == <<finder, table, u, eng, cnt, kernel, tfs, pc, at, rep, fails, hist>>

Resume(s) == [kind |-> "resume", id |-> s]
Report(s) == [kind |-> "report", id |-> s]
TfWork(i) == [kind |-> "tf", id |-> i]
CloneId == 0            \* the clone worker; a quiesce worker has its engine's number

NoStruct == 0
NoEngine == 0

FreshStruct == [mem |-> "unused", ref |-> 0, attached |-> <<>>, attaching |-> <<>>,
                pending |-> FALSE, flags |-> {}, resume |-> "RESUME", death |-> FALSE,
                resumeAdded |-> FALSE, reportAdded |-> FALSE]
FreshEngine == [mem |-> "unused", ref |-> 0, ops |-> "null", flags |-> {}]
NoCall == [ops |-> "null", s |-> NoStruct, found |-> FALSE, e |-> NoEngine,
           rc |-> "0", act |-> "RESUME", ev |-> {}, k |-> "user", ret |-> "user"]
NoReport == [s |-> NoStruct, ev |-> "NONE", i |-> 1, det |-> FALSE, spur |-> TRUE,
             tp |-> FALSE]

\* The list q after the entries in S were taken off it, in their order.  A
\* recursive function, and not SelectSeq, so that proofs can expand it.
Without(q, S) ==
    LET f[n \in Nat] == IF n = 0 THEN <<>>
                        ELSE IF q[n] \in S THEN f[n - 1] ELSE Append(f[n - 1], q[n])
    IN  f[Len(q)]

ListOf(s) == ToSet(u[s].attached) \cup ToSet(u[s].attaching)

Goto(p, l) == pc' = [pc EXCEPT ![p] = l]

Trouble == fails + execs + (IF forked THEN 1 ELSE 0) < MaxTrouble

-----------------------------------------------------------------------------
(* struct utrace: lookup, allocation, references                           *)

\* get_utrace_struct(): the first entry of the task, unless its count is zero.
Lookup == IF table # <<>> /\ u[Head(table)].ref > 0 THEN Head(table) ELSE NoStruct

\* p looks the struct up and goes on at found, or with rc at none.
GetStruct(p, found, none, rc) ==
    /\ LET s == Lookup IN
         /\ at' = [at EXCEPT ![p].s = s, ![p].found = s # NoStruct /\ found = "att_eng",
                             ![p].rc = IF s = NoStruct THEN rc ELSE @]
         /\ u' = IF s = NoStruct THEN u ELSE [u EXCEPT ![s].ref = @ + 1]
         /\ Goto(p, IF s = NoStruct THEN none ELSE found)
    /\ UNCHANGED <<finder, table, eng, cnt, kernel, tfs, rep, fails, forked, early, execs, nbegin, nend>>

\* utrace->lock, as the other process sees it.  Every critical section is one
\* step but utrace_control()'s, which ends after stp_task_work_get().
Unlocked(p, s) ==
    \A q \in Procs \ {p} : ~(pc[q] = "ctl_count" /\ at[q].s = s)

\* put_utrace_struct(): at zero the caller runs utrace_cleanup().
PutStruct(p) ==
    /\ pc[p] = "put"
    /\ u' = [u EXCEPT ![at[p].s].ref = @ - 1]
    /\ Goto(p, IF u[at[p].s].ref = 1 THEN "cleanup" ELSE at[p].k)
    /\ UNCHANGED <<finder, table, eng, cnt, kernel, tfs, at, rep, fails, hist>>

\* The structs in S leave the table; their engines are freed whatever
\* reference anybody still holds on them.
FreeStructs(S) ==
    /\ table' = Without(table, S)
    /\ eng' = [e \in Engines |->
                 IF \E s \in S : e \in ListOf(s)
                 THEN [eng[e] EXCEPT !.mem = "freed"] ELSE eng[e]]
    /\ u' = [s \in Structs |->
                 IF s \in S
                 THEN [u[s] EXCEPT !.mem = "freed", !.ref = 0,
                                   !.attached = <<>>, !.attaching = <<>>]
                 ELSE u[s]]

utrace_cleanup(p) ==
    /\ pc[p] = "cleanup"
    /\ FreeStructs({at[p].s})
    /\ Goto(p, at[p].k)
    /\ UNCHANGED <<finder, cnt, kernel, tfs, at, rep, fails, hist>>

\* utrace_engine_put(): the last reference frees the engine.
DropRef(e) == [eng EXCEPT ![e].ref = @ - 1, ![e].mem = IF eng[e].ref = 1 THEN "freed" ELSE @]

-----------------------------------------------------------------------------
(* __stp_utrace_attach() and the calls it makes.  Its return value is left *)
(* in at[p].rc when the process reaches at[p].ret.                         *)

\* Threads without an mm are refused with EPERM.
Call(p, ops, events, action, ret) ==
    IF tk.mm
    THEN /\ at' = [at EXCEPT ![p] = [NoCall EXCEPT !.ops = ops, !.ev = events,
                                                   !.act = action, !.ret = ret]]
         /\ Goto(p, "att_get")
    ELSE /\ at' = [at EXCEPT ![p] = [NoCall EXCEPT !.rc = "EPERM"]]
         /\ Goto(p, ret)

\* The call is over; only its return value is left.
Returned(p, rc) == at' = [at EXCEPT ![p] = [NoCall EXCEPT !.rc = rc]]

\* q is about to make a struct, or made it and has not queued an engine on it.
BeingMade(q) ==
    \/ pc[q] = "att_alloc"
    \/ pc[q] = "att_eng" /\ ~at[q].found
    \/ pc[q] = "put" /\ at[q].k = "att_fail" /\ ~at[q].found

\* utrace_attach_task() with UTRACE_ATTACH_CREATE looks for the struct...
AttachGet(p) ==
    /\ pc[p] = "att_get"
    /\ GetStruct(p, "att_eng", "att_alloc", "0")
    /\ raced' = (raced \/ \E q \in Procs \ {p} : BeingMade(q))

\* ... and makes one when there is none: utrace_task_alloc(), which does not
\* look again under the bucket lock.
utrace_task_alloc(p) ==
    /\ pc[p] = "att_alloc"
    /\ \/ \E s \in Structs :
            /\ u[s].mem = "unused" /\ \A r \in 1..(s - 1) : u[r].mem # "unused"
            /\ u' = [u EXCEPT ![s] = [FreshStruct EXCEPT !.mem = "live", !.ref = 1]]
            /\ table' = <<s>> \o table
            /\ at' = [at EXCEPT ![p].s = s]
            /\ Goto(p, "att_eng")
            /\ UNCHANGED fails
       \/ /\ Trouble
          /\ fails' = fails + 1
          /\ Returned(p, "ENOMEM")
          /\ Goto(p, at[p].ret)
          /\ UNCHANGED <<u, table>>
    /\ UNCHANGED <<finder, eng, cnt, kernel, tfs, rep, hist>>

\* utrace_add_engine(): a struct nobody uses yet gets REAP, and is left alone
\* when the task is already gone; otherwise the engine is queued on attaching
\* with two references, the list's and the caller's.
utrace_add_engine(p) ==
    /\ pc[p] = "att_eng"
    /\ LET s == at[p].s IN
       \/ \E e \in Engines :
            /\ eng[e].mem = "unused" /\ \A d \in 1..(e - 1) : eng[d].mem # "unused"
            /\ Unlocked(p, s)
            /\ IF u[s].flags = {} /\ tk.exit = "dead"
               THEN /\ at' = [at EXCEPT ![p].rc = "ESRCH", ![p].k = "att_fail"]
                    /\ Goto(p, "put")
                    /\ UNCHANGED <<u, eng>>
               ELSE /\ eng' = [eng EXCEPT ![e] = [mem |-> "live", ref |-> 2,
                                                  ops |-> at[p].ops, flags |-> {}]]
                    /\ u' = [u EXCEPT ![s].attaching = Append(@, e), ![s].pending = TRUE,
                                      ![s].flags = IF @ = {} THEN {"REAP"} ELSE @]
                    /\ at' = [at EXCEPT ![p].e = e, ![p].found = FALSE, ![p].k = "ev_get"]
                    /\ Goto(p, IF at[p].found THEN "put" ELSE "ev_get")
            /\ UNCHANGED fails
       \/ /\ Trouble
          /\ fails' = fails + 1
          /\ at' = [at EXCEPT ![p].rc = "ENOMEM", ![p].k = "att_fail"]
          /\ Goto(p, "put")
          /\ UNCHANGED <<u, eng>>
    /\ UNCHANGED <<finder, table, cnt, kernel, tfs, rep, hist>>

\* The error return of utrace_attach_task(): ESRCH counts as success.
AttachFailed(p) ==
    /\ pc[p] = "att_fail"
    /\ Returned(p, IF at[p].rc = "ESRCH" THEN "0" ELSE at[p].rc)
    /\ Goto(p, at[p].ret)
    /\ UNCHANGED <<finder, table, u, eng, cnt, kernel, tfs, rep, fails, hist>>

SetEventsGet(p) ==
    /\ pc[p] = "ev_get"
    /\ GetStruct(p, "ev_set", IF at[p].act = "NONE" THEN at[p].ret ELSE "eng_put", "ESRCH")
    /\ UNCHANGED raced

\* get_utrace_lock() refuses an engine that is marked or fully detached.
Attached(e) == eng[e].ops \notin {"null", "detached"}

\* utrace_set_events(): too late for death events once exit_state is set.
utrace_set_events(p) ==
    /\ pc[p] = "ev_set"
    /\ LET s == at[p].s
           e == at[p].e
           new == at[p].ev \ eng[e].flags
           rc == IF ~Attached(e) THEN "ESRCH"
                 ELSE IF tk.exit # "none" /\ new \cap {"DEATH", "QUIESCE"} # {} THEN "EALREADY"
                 ELSE "0"
       IN  IF eng[e].mem = "freed"
           THEN Goto(p, "oops") /\ UNCHANGED <<u, eng, at>>
           ELSE /\ Unlocked(p, s)
                /\ IF rc = "0"
                   THEN /\ eng' = [eng EXCEPT ![e].flags = at[p].ev]
                        /\ u' = [u EXCEPT ![s].flags = @ \cup at[p].ev]
                   ELSE UNCHANGED <<eng, u>>
                /\ at' = [at EXCEPT ![p].rc = rc,
                            ![p].k = IF at[p].act = "NONE" THEN at[p].ret
                                     ELSE IF rc = "0" /\ at[p].act = "INTERRUPT"
                                     THEN "ctl_get" ELSE "eng_put"]
                /\ Goto(p, "put")
    /\ UNCHANGED <<finder, table, cnt, kernel, tfs, rep, fails, hist>>

ControlGet(p) ==
    /\ pc[p] = "ctl_get"
    /\ GetStruct(p, "ctl_lock", "eng_put", "0")
    /\ UNCHANGED raced

\* Mutant: the queued work holds no reference.
NotifyNoRef(r) == [r EXCEPT !.resumeAdded = TRUE]

\* stp_task_notify_resume(): the queued work holds a reference to the struct.
stp_task_notify_resume(r) == [r EXCEPT !.resumeAdded = TRUE, !.ref = @ + 1]

\* utrace_control(UTRACE_INTERRUPT) and stp_task_notify_resume(): unless an
\* interrupt is already due, the resume work is queued with a reference to the
\* struct.  task_work_add() comes before the work is counted.
utrace_control(p) ==
    /\ pc[p] = "ctl_lock"
    /\ LET s == at[p].s
           interrupt == [u EXCEPT ![s].resume = "INTERRUPT"]
       IN  \/ /\ eng[at[p].e].mem = "freed"
              /\ Goto(p, "oops")
              /\ UNCHANGED <<u, works, at>>
           \/ /\ eng[at[p].e].mem = "live"
              /\ Unlocked(p, s)
              /\ at' = [at EXCEPT ![p].rc = "0", ![p].k = "eng_put"]
              /\ IF ~Attached(at[p].e) \/ tk.exit # "none" \/ u[s].resume = "INTERRUPT"
                 THEN Goto(p, "put") /\ UNCHANGED <<u, works>>
                 ELSE IF u[s].resumeAdded \/ tk.workExited
                 THEN u' = interrupt /\ Goto(p, "put") /\ UNCHANGED works
                 ELSE /\ u' = [interrupt EXCEPT ![s] = stp_task_notify_resume(@)]
                      /\ works' = works \cup {Resume(s)}
                      /\ Goto(p, "ctl_count")
    /\ UNCHANGED <<finder, table, eng, cnt, taken, tk, tfs, rep, fails, hist>>

\* stp_task_work_get(), after task_work_add().
stp_task_work_get(p) ==
    /\ pc[p] = "ctl_count"
    /\ cnt' = cnt + 1
    /\ Goto(p, "put")
    /\ UNCHANGED <<finder, table, u, eng, kernel, tfs, at, rep, fails, hist>>

\* The caller's reference goes, and the call returns.
EnginePut(p) ==
    /\ pc[p] = "eng_put"
    /\ IF eng[at[p].e].mem = "freed"
       THEN Goto(p, "oops") /\ UNCHANGED <<eng, at>>
       ELSE /\ Goto(p, at[p].ret)
            /\ Returned(p, at[p].rc)
            /\ eng' = DropRef(at[p].e)
    /\ UNCHANGED <<finder, table, u, cnt, kernel, tfs, rep, fails, hist>>

AttachStep(p) ==
    \/ PutStruct(p) \/ utrace_cleanup(p) \/ AttachGet(p)
    \/ utrace_task_alloc(p) \/ utrace_add_engine(p) \/ AttachFailed(p)
    \/ SetEventsGet(p) \/ utrace_set_events(p) \/ ControlGet(p) \/ utrace_control(p)
    \/ stp_task_work_get(p) \/ EnginePut(p)

-----------------------------------------------------------------------------
(* The stap thread: stap_start_task_finder() and                           *)
(* stap_task_finder_post_init() for this task, then                        *)
(* stap_stop_task_finder().                                                *)

\* The walk over the tasks attaches the finder's engine.  A task it cannot
\* attach to is skipped; any other error gives the whole start up.
StartFinder ==
    /\ pc["stap"] = "start"
    /\ Call("stap", "finder", FinderEvents, "RESUME", "s_finder")
    /\ UNCHANGED <<finder, table, u, eng, cnt, kernel, tfs, rep, fails, hist>>

\* The task matches a target: its engine is attached too, with an interrupt.
StartTarget ==
    /\ pc["stap"] = "s_finder"
    /\ IF at["stap"].rc = "0" /\ tk.mm
       THEN Call("stap", "target", TargetEvents, "INTERRUPT", "s_target")
       ELSE /\ Goto("stap", IF at["stap"].rc \in {"0", "EPERM"} THEN "post" ELSE "st_state")
            /\ UNCHANGED at
    /\ UNCHANGED <<finder, table, u, eng, cnt, kernel, tfs, rep, fails, hist>>

StartDone ==
    /\ pc["stap"] = "s_target"
    /\ IF at["stap"].rc \in {"0", "EPERM"}
       THEN tgtAttached' = TRUE /\ Goto("stap", "post")
       ELSE UNCHANGED tgtAttached /\ Goto("stap", "st_state")
    /\ UNCHANGED <<tf, reg, inuse, table, u, eng, cnt, kernel, tfs, at, rep, fails, hist>>

\* stap_task_finder_post_init() interrupts the task again, through the first
\* engine with the target's ops that it finds.
PostGet ==
    /\ pc["stap"] = "post"
    /\ IF tgtAttached
       THEN GetStruct("stap", "post_find", "running", "0") /\ UNCHANGED raced
       ELSE /\ Goto("stap", "running")
            /\ UNCHANGED <<finder, table, u, eng, cnt, kernel, tfs, at, rep, fails, hist>>

find_matching_engine ==
    /\ pc["stap"] = "post_find"
    /\ LET s == at["stap"].s
           lists == u[s].attached \o u[s].attaching
           found == Without(lists, {e \in Engines : eng[e].ops # "target"})
       IN  /\ Unlocked("stap", s)
           /\ IF found = <<>>
              THEN /\ at' = [at EXCEPT !["stap"].k = "running"]
                   /\ UNCHANGED eng
              ELSE /\ at' = [at EXCEPT !["stap"] = [NoCall EXCEPT !.s = s, !.e = Head(found),
                                !.act = "INTERRUPT", !.k = "ctl_get", !.ret = "running"]]
                   /\ eng' = [eng EXCEPT ![Head(found)].ref = @ + 1]
    /\ Goto("stap", "put")
    /\ UNCHANGED <<finder, table, u, cnt, kernel, tfs, rep, fails, hist>>

\* Module exit, at any time after the start.
Stop ==
    /\ pc["stap"] = "running"
    /\ Goto("stap", "st_state")
    /\ UNCHANGED <<finder, table, u, eng, cnt, kernel, tfs, at, rep, fails, hist>>

\* stap_stop_task_finder() closes the task finder and, in utrace_shutdown(),
\* the utrace layer, whose probes it takes off the tracepoints: a probe that
\* finds utrace unregistered returns at once.
CloseFinder ==
    /\ pc["stap"] = "st_state"
    /\ tf' = "stopping"
    /\ Goto("stap", "st_unreg")
    /\ UNCHANGED <<reg, inuse, tgtAttached, table, u, eng, cnt, kernel, tfs, at, rep, fails, hist>>

utrace_shutdown ==
    /\ pc["stap"] = "st_unreg"
    /\ reg' = FALSE
    /\ Goto("stap", "st_sync")
    /\ UNCHANGED <<tf, inuse, tgtAttached, table, u, eng, cnt, kernel, tfs, at, rep, fails, hist>>

\* Mutant: it does not wait.
SynchronizeNot ==
    /\ pc["stap"] = "st_sync"
    /\ Goto("stap", "st_cancel")
    /\ UNCHANGED <<finder, table, u, eng, cnt, kernel, tfs, at, rep, fails, hist>>

\* tracepoint_synchronize_unregister() waits for the probes still running.
Synchronize ==
    /\ pc["stap"] = "st_sync"
    /\ ~rep.tp
    /\ Goto("stap", "st_cancel")
    /\ UNCHANGED <<finder, table, u, eng, cnt, kernel, tfs, at, rep, fails, hist>>

\* utrace_cancel_all_task_work(), one stp_task_work_cancel() at a time: the
\* works still queued are taken back, and their references are kept.
CancelUtraceWork ==
    /\ pc["stap"] = "st_cancel"
    /\ LET mine == {w \in works : w.kind \in {"resume", "report"}} IN
         IF mine # {} /\ \E i \in 1..Len(table) : u[table[i]].ref > 0
         THEN /\ \E w \in mine :
                   /\ works' = works \ {w}
                   /\ early' = (early \/ (pc["task"] = "fin_count" /\ w = Resume(rep.s)))
              /\ cnt' = cnt - 1
              /\ UNCHANGED <<tf, pc>>
         ELSE /\ tf' = "stopped"
              /\ Goto("stap", "st_inuse")
              /\ UNCHANGED <<works, cnt, early>>
    /\ UNCHANGED <<reg, inuse, tgtAttached, table, u, eng, taken, tk, tfs, at, rep, fails,
                   forked, raced, execs, nbegin, nend>>

\* The handlers that saw the task finder running are waited for.
WaitInuse ==
    /\ pc["stap"] = "st_inuse"
    /\ inuse = 0
    /\ Goto("stap", "st_tfc")
    /\ UNCHANGED <<finder, table, u, eng, cnt, kernel, tfs, at, rep, fails, hist>>

\* __stp_tf_cancel_all_task_work(): while the list has an entry of the task,
\* any queued work of its worker function is cancelled, unlinked and freed.
CancelTfWork ==
    /\ pc["stap"] = "st_tfc" /\ pc["task"] # "q_count"
    /\ LET mine == {w \in works : w.kind = "tf"} IN
         IF mine # {} /\ tfs # <<>>
         THEN /\ \E w \in mine :
                   /\ works' = works \ {w}
                   /\ tfs' = Without(tfs, {w.id})
              /\ cnt' = cnt - 1
              /\ UNCHANGED pc
         ELSE /\ Goto("stap", "st_wait")
              /\ UNCHANGED <<works, tfs, cnt>>
    /\ UNCHANGED <<finder, table, u, eng, taken, tk, at, rep, fails, hist>>

\* utrace_exit(): the wait_event() of stp_task_work_exit() tests the count when
\* it has queued itself, and sleeps until it is woken when callbacks are counted.
stp_task_work_exit ==
    /\ pc["stap"] = "st_wait"
    /\ Goto("stap", IF cnt = 0 THEN "st_free" ELSE "st_sleep")
    /\ UNCHANGED <<finder, table, u, eng, cnt, kernel, tfs, at, rep, fails, hist>>

\* ... and everything left in the table is freed by force.
utrace_exit ==
    /\ pc["stap"] = "st_free"
    /\ FreeStructs({s \in ToSet(table) : u[s].ref > 0})
    /\ Goto("stap", "unloaded")
    /\ UNCHANGED <<finder, cnt, kernel, tfs, at, rep, fails, hist>>

Stap ==
    \/ AttachStep("stap")
    \/ StartFinder \/ StartTarget \/ StartDone \/ PostGet \/ find_matching_engine
    \/ CloseFinder \/ utrace_shutdown \/ Synchronize
    \/ CancelUtraceWork \/ WaitInuse \/ CancelTfWork \/ stp_task_work_exit \/ utrace_exit

-----------------------------------------------------------------------------
(* The probed task: tracepoints                                            *)

others == <<table, tfs, fails>>

\* It enters utrace_report_exec(); once utrace is unregistered that returns.
Exec ==
    /\ pc["task"] = "user" /\ reg
    /\ Trouble
    /\ execs' = execs + 1
    /\ rep' = [NoReport EXCEPT !.ev = "EXEC", !.tp = TRUE]
    /\ Goto("task", "tp_get")
    /\ UNCHANGED <<finder, u, eng, cnt, kernel, at, others, forked, raced, early, nbegin, nend>>

\* do_exit(): PF_EXITING is set and the mm dropped before the exit tracepoint.
Exit ==
    /\ pc["task"] = "user"
    /\ tk' = [tk EXCEPT !.mm = FALSE, !.exiting = TRUE]
    /\ IF reg
       THEN /\ rep' = [NoReport EXCEPT !.ev = "DEATH", !.tp = TRUE]
            /\ Goto("task", "tp_get")
       ELSE Goto("task", "tw") /\ UNCHANGED rep
    /\ UNCHANGED <<finder, u, eng, cnt, works, taken, at, others, hist>>

\* get_utrace_struct() and the test of utrace_flags.  An exec is reported here;
\* a death is passed on, with the reference, to utrace_report_work().
TracepointGet ==
    /\ pc["task"] = "tp_get"
    /\ LET s == Lookup
           got == [u EXCEPT ![s].ref = @ + 1]
       IN  IF s = NoStruct
           THEN Goto("task", "tp_out") /\ UNCHANGED <<u, works, at, rep>>
           ELSE /\ rep' = [rep EXCEPT !.s = s]
                /\ at' = [at EXCEPT !["task"] = [NoCall EXCEPT !.s = s, !.k = "tp_out"]]
                /\ IF rep.ev \notin u[s].flags \/ (rep.ev = "DEATH" /\ u[s].reportAdded)
                   THEN u' = got /\ Goto("task", "put") /\ UNCHANGED works
                   ELSE IF rep.ev = "EXEC"
                   THEN u' = got /\ Goto("task", "rep_start") /\ UNCHANGED works
                   ELSE /\ u' = [got EXCEPT ![s].reportAdded = TRUE]
                        /\ works' = works \cup {Report(s)}
                        /\ Goto("task", "death_count")
    /\ UNCHANGED <<finder, eng, cnt, taken, tk, others, hist>>

DeathCount ==
    /\ pc["task"] = "death_count"
    /\ cnt' = cnt + 1
    /\ Goto("task", "tp_out")
    /\ UNCHANGED <<finder, u, eng, kernel, at, rep, others, hist>>

TracepointReturn ==
    /\ pc["task"] = "tp_out"
    /\ rep' = NoReport
    /\ at' = [at EXCEPT !["task"] = NoCall]
    /\ Goto("task", IF tk.exiting THEN "tw" ELSE "user")
    /\ UNCHANGED <<finder, u, eng, cnt, kernel, others, hist>>

-----------------------------------------------------------------------------
(* The reporting pass                                                      *)

\* Mutant: a pass forgets the pending engines instead of adopting them.
LosePending(r) == [r EXCEPT !.pending = FALSE]

splice_attaching(r) == [r EXCEPT !.attached = @ \o r.attaching, !.attaching = <<>>, !.pending = FALSE]

\* start_report(), of an exec report and of utrace_resume(); the latter only
\* makes a pass when an interrupt was due and some engine wants QUIESCE.
start_report ==
    /\ pc["task"] = "rep_start"
    /\ LET s == rep.s IN
         /\ Unlocked("task", s)
         /\ u' = IF u[s].pending \/ u[s].resume # "RESUME"
                 THEN [u EXCEPT ![s] = [splice_attaching(@) EXCEPT !.resume = "RESUME"]] ELSE u
         /\ Goto("task", IF rep.ev = "EXEC" THEN "cb"
                         ELSE IF u[s].resume = "RESUME" THEN "put"
                         ELSE IF "QUIESCE" \in u[s].flags THEN "cb" ELSE "fin")
         /\ at' = [at EXCEPT !["task"].s = s, !["task"].k = "w_done"]
    /\ UNCHANGED <<finder, eng, cnt, kernel, rep, others, hist>>

\* The first part of utrace_report_work().
StartDeathReport ==
    /\ pc["task"] = "rw_lock"
    /\ Unlocked("task", rep.s)
    /\ u' = [u EXCEPT ![rep.s] = [splice_attaching(@) EXCEPT !.death = TRUE, !.resume = "RESUME"]]
    /\ Goto("task", "cb")
    /\ UNCHANGED <<finder, eng, cnt, kernel, at, rep, others, hist>>

Current == u[rep.s].attached[rep.i]

Wants(e, ev) == ev \in eng[e].flags

\* start_callback() for the next engine of the attached list.
start_callback ==
    /\ pc["task"] = "cb"
    /\ IF rep.i > Len(u[rep.s].attached)
       THEN /\ Goto("task", IF rep.ev = "DEATH" THEN "reap" ELSE "fin")
            /\ UNCHANGED rep
       ELSE /\ Goto("task", IF Wants(Current, "QUIESCE") THEN "cb_q"
                            ELSE IF Wants(Current, rep.ev) THEN "cb_ev" ELSE "cb")
            /\ rep' = IF Wants(Current, "QUIESCE") THEN rep
                      ELSE IF Wants(Current, rep.ev) THEN [rep EXCEPT !.spur = FALSE]
                      ELSE [rep EXCEPT !.i = @ + 1]
    /\ UNCHANGED <<finder, u, eng, cnt, kernel, at, others, hist>>

\* finish_callback_report() for UTRACE_DETACH: the engine is marked, and the
\* pass goes on with the next one.
DetachCurrent ==
    /\ Unlocked("task", rep.s)
    /\ eng' = [eng EXCEPT ![Current].ops = "detached"]
    /\ rep' = [rep EXCEPT !.det = TRUE, !.i = @ + 1]
    /\ Goto("task", "cb")

\* __stp_utrace_task_finder_target_quiesce(): outside the running state it
\* detaches; the state is read before the handler is counted.
QuiesceCheck ==
    /\ pc["task"] = "cb_q"
    /\ IF tf = "running"
       THEN Goto("task", "q_in") /\ UNCHANGED <<eng, rep>>
       ELSE DetachCurrent
    /\ UNCHANGED <<finder, u, cnt, kernel, at, others, hist>>

\* It turns quiesce reports off again (utrace_set_events() on current) ...
QuiesceEnter ==
    /\ pc["task"] = "q_in"
    /\ inuse' = inuse + 1
    /\ at' = [at EXCEPT !["task"] = [NoCall EXCEPT !.e = Current, !.ev = BaseEvents,
                                                   !.act = "NONE", !.ret = "q_add"]]
    /\ Goto("task", "ev_get")
    /\ UNCHANGED <<tf, reg, tgtAttached, u, eng, cnt, kernel, rep, others, hist>>

\* ... and queues __stp_tf_quiesce_worker under the list lock.
QuiesceAdd ==
    /\ pc["task"] = "q_add"
    /\ \/ /\ pc["stap"] # "st_tfc"
          /\ tfs' = Append(tfs, Current)
          /\ works' = works \cup {TfWork(Current)}
          /\ Goto("task", "q_count")
          /\ UNCHANGED <<inuse, fails>>
       \/ /\ Trouble
          /\ fails' = fails + 1
          /\ inuse' = inuse - 1
          /\ Goto("task", "cb_after")
          /\ UNCHANGED <<tfs, works>>
    /\ UNCHANGED <<tf, reg, tgtAttached, table, u, eng, cnt, taken, tk, at, rep, hist>>

QuiesceCount ==
    /\ pc["task"] = "q_count"
    /\ cnt' = cnt + 1
    /\ inuse' = inuse - 1
    /\ Goto("task", "cb_after")
    /\ UNCHANGED <<tf, reg, tgtAttached, u, eng, kernel, at, rep, others, hist>>

\* The rest of start_callback(): the engine's flags are read again.
AfterQuiesce ==
    /\ pc["task"] = "cb_after"
    /\ IF Wants(Current, rep.ev)
       THEN rep' = [rep EXCEPT !.spur = FALSE] /\ Goto("task", "cb_ev")
       ELSE /\ rep' = [rep EXCEPT !.i = @ + 1, !.spur = @ /\ rep.ev # "NONE"]
            /\ Goto("task", "cb")
    /\ UNCHANGED <<finder, u, eng, cnt, kernel, at, others, hist>>

\* The event callbacks.  The finder's death callback just detaches.
EventCheck ==
    /\ pc["task"] = "cb_ev"
    /\ IF tf = "running" /\ ~(eng[Current].ops = "finder" /\ rep.ev = "DEATH")
       THEN Goto("task", "ev_in") /\ UNCHANGED <<eng, rep>>
       ELSE DetachCurrent
    /\ UNCHANGED <<finder, u, cnt, kernel, at, others, hist>>

\* Mutant: the handler leaves __stp_inuse_count without having entered it.
EventEnterUncounted ==
    /\ pc["task"] = "ev_in"
    /\ IF eng[Current].ops = "finder"
       THEN Call("task", "target", TargetEvents, "INTERRUPT", "x_out")
       ELSE Goto("task", "end_cb") /\ UNCHANGED at
    /\ UNCHANGED <<finder, u, eng, cnt, kernel, rep, others, hist>>

\* The finder's exec callback matches the new program against the targets.
EventEnter ==
    /\ pc["task"] = "ev_in"
    /\ inuse' = inuse + 1
    /\ IF eng[Current].ops = "finder"
       THEN Call("task", "target", TargetEvents, "INTERRUPT", "x_out")
       ELSE Goto("task", "end_cb") /\ UNCHANGED at
    /\ UNCHANGED <<tf, reg, tgtAttached, u, eng, cnt, kernel, rep, others, hist>>

ExecMatched ==
    /\ pc["task"] = "x_out"
    /\ tgtAttached' = (tgtAttached \/ at["task"].rc \in {"0", "EPERM"})
    /\ inuse' = inuse - 1
    /\ rep' = [rep EXCEPT !.i = @ + 1]
    /\ Goto("task", "cb")
    /\ UNCHANGED <<tf, reg, u, eng, cnt, kernel, at, others, hist>>

\* The target's exec and death callbacks deregister the task and detach.
TargetEnd ==
    /\ pc["task"] = "end_cb"
    /\ nend' = nend + 1
    /\ inuse' = inuse - 1
    /\ DetachCurrent
    /\ UNCHANGED <<tf, reg, tgtAttached, u, cnt, kernel, at, others, forked, raced, early, execs, nbegin>>

\* utrace_reset(): engines marked detached leave the list and lose its
\* reference, and the struct's flags are recomputed from the rest.
utrace_reset(s) ==
    LET all == splice_attaching(u[s])
        gone == {e \in ToSet(all.attached) : eng[e].ops = "detached"}
        keep == Without(all.attached, gone)
        flags == UNION {eng[e].flags \cup {"REAP"} : e \in ToSet(keep)}
    IN  /\ u' = [u EXCEPT ![s] = [all EXCEPT !.attached = keep, !.flags = flags,
                                !.death = FALSE,
                                !.resume = IF flags = {} THEN "RESUME" ELSE @]]
        /\ eng' = [e \in Engines |->
                     IF e \in gone THEN [DropRef(e)[e] EXCEPT !.ops = "null"] ELSE eng[e]]

\* finish_report() / finish_resume_report()
finish_report ==
    /\ pc["task"] = "fin"
    /\ Unlocked("task", rep.s)
    /\ IF rep.spur \/ rep.det THEN utrace_reset(rep.s) ELSE UNCHANGED <<u, eng>>
    /\ at' = [at EXCEPT !["task"].s = rep.s, !["task"].k = IF rep.tp THEN "tp_out" ELSE "w_done"]
    /\ Goto("task", "put")
    /\ UNCHANGED <<finder, cnt, kernel, rep, others, hist>>

\* utrace_resume() found no engine that wants QUIESCE, so the interrupt is still
\* due.  If the signal sent with it is no longer pending, finish_resume_report()
\* queues the resume work once more.
InterruptAgain ==
    /\ pc["task"] = "fin"
    /\ ~rep.tp /\ rep.i = 1
    /\ Unlocked("task", rep.s)
    /\ utrace_reset(rep.s)
    /\ u'[rep.s].flags # {}
    /\ at' = [at EXCEPT !["task"].s = rep.s, !["task"].k = "w_done"]
    /\ Goto("task", "notify")
    /\ UNCHANGED <<finder, cnt, kernel, rep, others, hist>>

NotifyAgain ==
    /\ pc["task"] = "notify"
    /\ IF u[rep.s].resumeAdded
       THEN Goto("task", "put") /\ UNCHANGED <<u, works>>
       ELSE /\ u' = [u EXCEPT ![rep.s] = stp_task_notify_resume(@)]
            /\ works' = works \cup {Resume(rep.s)}
            /\ Goto("task", "fin_count")
    /\ UNCHANGED <<finder, eng, cnt, taken, tk, at, rep, others, hist>>

NotifyCount ==
    /\ pc["task"] = "fin_count"
    /\ cnt' = cnt + 1
    /\ Goto("task", "put")
    /\ UNCHANGED <<finder, u, eng, kernel, at, rep, others, hist>>

\* utrace_maybe_reap(FALSE): nobody reaps, so it resets.  Then
\* utrace_report_work() drops its own reference and the table's.
utrace_maybe_reap ==
    /\ pc["task"] = "reap"
    /\ Unlocked("task", rep.s)
    /\ utrace_reset(rep.s)
    /\ at' = [at EXCEPT !["task"].s = rep.s, !["task"].k = "put2"]
    /\ Goto("task", "put")
    /\ UNCHANGED <<finder, cnt, kernel, rep, others, hist>>

SecondPut ==
    /\ pc["task"] = "put2"
    /\ at' = [at EXCEPT !["task"].k = "w_done"]
    /\ Goto("task", "put")
    /\ UNCHANGED <<finder, u, eng, cnt, kernel, rep, others, hist>>

-----------------------------------------------------------------------------
(* The probed task: task works                                             *)

\* task_work_run() takes all queued works at once, on the way to user mode or
\* in exit_task_work().  A work it has taken can no longer be cancelled.
TakeWorks ==
    /\ pc["task"] \in {"user", "tw"}
    /\ taken = {} /\ works # {}
    /\ taken' = works
    /\ works' = {}
    /\ Goto("task", "tw")
    /\ UNCHANGED <<finder, u, eng, cnt, tk, at, rep, others, hist>>

\* The order in which it runs them depends on the kernel version.
RunWork(w) ==
    /\ pc["task"] = "tw"
    /\ taken' = taken \ {w}
    /\ rep' = [NoReport EXCEPT !.s = IF w.kind = "tf" THEN NoStruct ELSE w.id,
                               !.ev = IF w.kind = "report" THEN "DEATH" ELSE "NONE"]
    /\ at' = [at EXCEPT !["task"] = IF w.kind = "tf" THEN NoCall
                                    ELSE [NoCall EXCEPT !.s = w.id, !.k = "w_done"]]
    /\ \/ /\ w.kind = "resume"                         \* utrace_resume()
          /\ u' = [u EXCEPT ![w.id].resumeAdded = FALSE]
          /\ Goto("task", IF tk.exiting THEN "put" ELSE "rep_start")
       \/ /\ w.kind = "report"                         \* utrace_report_work()
          /\ u' = [u EXCEPT ![w.id].reportAdded = FALSE]
          /\ Goto("task", "rw_lock")
       \/ /\ w.kind = "tf"                             \* __stp_tf_task_worker_fn()
          /\ Goto("task", "tf")
          /\ UNCHANGED u
    /\ UNCHANGED <<finder, eng, cnt, works, tk, others, hist>>

\* exit_task_work() shuts the queue when it is empty.
WorksDone ==
    /\ pc["task"] = "tw"
    /\ taken = {} /\ works = {}
    /\ tk' = [tk EXCEPT !.workExited = tk.exiting]
    /\ Goto("task", IF tk.exiting THEN "exited" ELSE "user")
    /\ UNCHANGED <<finder, u, eng, cnt, works, taken, at, rep, others, hist>>

\* exit_notify() and release_task() set exit_state.
Die ==
    /\ \/ pc["task"] = "exited" /\ Goto("task", "zombie") /\ tk' = [tk EXCEPT !.exit = "zombie"]
       \/ pc["task"] = "zombie" /\ Goto("task", "dead") /\ tk' = [tk EXCEPT !.exit = "dead"]
    /\ UNCHANGED <<finder, u, eng, cnt, works, taken, at, rep, others, hist>>

\* __stp_tf_task_worker_fn() runs every entry of the task, then frees its own.
TfDequeue ==
    /\ pc["task"] = "tf"
    /\ pc["stap"] # "st_tfc"
    /\ IF tfs = <<>>
       THEN Goto("task", "w_done") /\ UNCHANGED <<tfs, rep>>
       ELSE /\ rep' = [rep EXCEPT !.i = Head(tfs)]
            /\ tfs' = Tail(tfs)
            /\ Goto("task", "tf_chk")
    /\ UNCHANGED <<finder, table, u, eng, cnt, kernel, at, fails, hist>>

\* __stp_tf_clone_worker() and __stp_tf_quiesce_worker() do nothing for a
\* task finder that stops or a task that exits.
TfCheck ==
    /\ pc["task"] = "tf_chk"
    /\ Goto("task", IF tf = "running" /\ ~tk.exiting THEN "tf_in" ELSE "tf")
    /\ UNCHANGED <<finder, u, eng, cnt, kernel, at, rep, others, hist>>

TfEnter ==
    /\ pc["task"] = "tf_in"
    /\ inuse' = inuse + 1
    /\ IF rep.i = CloneId
       THEN Call("task", "finder", FinderEvents, "RESUME", "cl_match")
       ELSE Goto("task", "tf_begin") /\ UNCHANGED at
    /\ UNCHANGED <<tf, reg, tgtAttached, u, eng, cnt, kernel, rep, others, hist>>

\* __stp_call_callbacks(): the targets learn of the task.
TfBegin ==
    /\ pc["task"] = "tf_begin"
    /\ nbegin' = nbegin + 1
    /\ inuse' = inuse - 1
    /\ Goto("task", "tf")
    /\ UNCHANGED <<tf, reg, tgtAttached, u, eng, cnt, kernel, at, rep, others, forked, raced, early, execs, nend>>

\* A new child is matched against the targets.
CloneMatch ==
    /\ pc["task"] = "cl_match"
    /\ IF at["task"].rc \in {"0", "EPERM"}
       THEN Call("task", "target", TargetEvents, "INTERRUPT", "cl_end")
       ELSE Goto("task", "cl_end") /\ UNCHANGED at
    /\ UNCHANGED <<finder, u, eng, cnt, kernel, rep, others, hist>>

CloneDone ==
    /\ pc["task"] = "cl_end"
    /\ tgtAttached' = (tgtAttached \/ at["task"].rc \in {"0", "EPERM"})
    /\ inuse' = inuse - 1
    /\ Goto("task", "tf")
    /\ UNCHANGED <<tf, reg, u, eng, cnt, kernel, at, rep, others, hist>>

\* stp_task_work_func_done() counts the callback down in stp_task_work_put(),
\* which wakes the waiter after that when no other is counted.
stp_task_work_func_done ==
    /\ pc["task"] = "w_done"
    /\ cnt' = cnt - 1
    /\ rep' = NoReport
    /\ at' = [at EXCEPT !["task"] = NoCall]
    /\ Goto("task", IF cnt = 1 THEN "w_wake" ELSE "tw")
    /\ UNCHANGED <<finder, u, eng, kernel, others, hist>>

\* Mutant: the waiter is not woken.
WakeNobody ==
    /\ pc["task"] = "w_wake"
    /\ Goto("task", "tw")
    /\ UNCHANGED <<finder, u, eng, cnt, kernel, at, rep, others, hist>>

\* wake_up(&stp_task_work_waitq): whoever sleeps there tests again, and the
\* callback is over.  (Where a cancellation counts down to zero nobody sleeps:
\* the thread that cancels is the one that will wait.)
Wake ==
    /\ pc["task"] = "w_wake"
    /\ pc' = [pc EXCEPT !["task"] = "tw",
                        !["stap"] = IF @ = "st_sleep" THEN "st_wait" ELSE @]
    /\ UNCHANGED <<finder, u, eng, cnt, kernel, at, rep, others, hist>>

\* Everything the task does in the kernel once it is there.
TaskKernel ==
    \/ AttachStep("task")
    \/ TracepointGet \/ DeathCount \/ TracepointReturn
    \/ start_report \/ StartDeathReport \/ start_callback
    \/ QuiesceCheck \/ QuiesceEnter \/ QuiesceAdd \/ QuiesceCount \/ AfterQuiesce
    \/ EventCheck \/ EventEnter \/ ExecMatched \/ TargetEnd
    \/ finish_report \/ InterruptAgain \/ NotifyAgain \/ NotifyCount
    \/ utrace_maybe_reap \/ SecondPut
    \/ TakeWorks \/ (\E w \in taken : RunWork(w)) \/ WorksDone \/ Die
    \/ TfDequeue \/ TfCheck \/ TfEnter \/ TfBegin \/ CloneMatch \/ CloneDone
    \/ stp_task_work_func_done \/ Wake

\* The labels at which a process still uses the struct in at[p].s, and those
\* of the reporting pass, which uses rep.s.
UsesStruct == {"att_eng", "put", "cleanup", "ev_set", "ctl_lock", "ctl_count",
               "post_find", "put2"}
UsesReport == {"rep_start", "rw_lock", "cb", "cb_q", "q_in", "q_add", "q_count",
               "cb_after", "cb_ev", "ev_in", "x_out", "end_cb", "fin", "notify",
               "fin_count", "reap"}

\* Some process uses an engine or a struct that was freed under it: what
\* happens from here on is undefined, and the model stops.
Oops ==
    \/ \E p \in Procs : pc[p] = "oops" \/ (pc[p] \in UsesStruct /\ u[at[p].s].mem = "freed")
    \/ pc["task"] \in UsesReport /\ u[rep.s].mem = "freed"

\* The session is over, or would be if a waiter slept for ever: that it does
\* not is left to StopReturns.
Over ==
    /\ Oops \/ (pc["stap"] \in {"unloaded", "st_sleep"} /\ pc["task"] = "dead")
    /\ UNCHANGED vars

-----------------------------------------------------------------------------

\* utrace_init() has run.  A forked task has its clone worker queued.
Init ==
    /\ tf = "running" /\ reg = TRUE /\ inuse = 0 /\ tgtAttached = FALSE
    /\ table = <<>>
    /\ u = [s \in Structs |-> FreshStruct]
    /\ eng = [e \in Engines |-> FreshEngine]
    /\ tk = [mm |-> TRUE, exiting |-> FALSE, workExited |-> FALSE, exit |-> "none"]
    /\ forked \in {FALSE, MaxTrouble > 0} /\ raced = FALSE /\ early = FALSE
    /\ tfs = IF forked THEN <<CloneId>> ELSE <<>>
    /\ works = IF forked THEN {TfWork(CloneId)} ELSE {}
    /\ cnt = IF forked THEN 1 ELSE 0
    /\ taken = {}
    /\ pc = [p \in Procs |-> IF p = "stap" THEN "start" ELSE "user"]
    /\ at = [p \in Procs |-> NoCall]
    /\ rep = NoReport
    /\ fails = 0 /\ execs = 0 /\ nbegin = 0 /\ nend = 0

Next == (~Oops /\ (Stap \/ Stop \/ TaskKernel \/ Exec \/ Exit)) \/ Over

Spec == Init /\ [][Next]_vars

\* Both processes keep running what they are in the middle of; an interrupted
\* task reaches task_work_run().  Nobody has to stop, exec or exit.
FairSpec == Spec /\ WF_vars(Stap) /\ WF_vars(TaskKernel)

-----------------------------------------------------------------------------

EventBits == {"EXEC", "DEATH", "QUIESCE", "REAP"}
OpsValues == {"null", "detached", "finder", "target"}
ReturnCodes == {"0", "EPERM", "ENOMEM", "ESRCH", "EALREADY"}

Works == [kind : {"resume", "report"}, id : Structs]
            \cup [kind : {"tf"}, id : Engines \cup {CloneId}]

\* The places of either process: in a call of __stp_utrace_attach(), putting a
\* struct; of the task: in a tracepoint probe, a reporting pass or a task work,
\* in the wake_up() at the end of one, or in none of the module's code; of the
\* stap thread: starting and stopping.
CallLabels == {"att_get", "att_alloc", "att_eng", "att_fail", "ev_get", "ev_set",
               "ctl_get", "ctl_lock", "ctl_count", "eng_put", "oops"}
PutLabels == {"put", "cleanup"}
ProbeLabels == {"tp_get", "death_count", "tp_out"}
PassLabels == {"rep_start", "rw_lock", "cb", "cb_q", "q_in", "q_add", "q_count",
               "cb_after", "cb_ev", "ev_in", "x_out", "end_cb", "fin", "notify",
               "fin_count", "reap", "put2", "w_done"}
TfLabels == {"tf", "tf_chk", "tf_in", "tf_begin", "cl_match", "cl_end"}
Uncounted == {"user", "tw", "w_wake", "exited", "zombie", "dead"}
Outside == Uncounted \ {"w_wake"}
StartLabels == {"start", "s_finder", "s_target", "post", "post_find", "running"}
StopLabels == {"st_state", "st_unreg", "st_sync", "st_cancel", "st_inuse", "st_tfc",
               "st_wait", "st_sleep", "st_free", "unloaded"}
Labels == UNION {CallLabels, PutLabels, ProbeLabels, PassLabels, TfLabels, Uncounted,
                 StartLabels, StopLabels}

FinderType ==
    /\ tf \in {"running", "stopping", "stopped"}
    /\ reg \in BOOLEAN /\ tgtAttached \in BOOLEAN
    /\ inuse \in Int /\ cnt \in Int
HistoryType ==
    /\ forked \in BOOLEAN /\ raced \in BOOLEAN /\ early \in BOOLEAN
    /\ fails \in Nat /\ execs \in Nat /\ nbegin \in Nat /\ nend \in Nat
StructType ==
    /\ table \in Seq(Structs)
    /\ u \in [Structs -> [mem : {"unused", "live", "freed"}, ref : Int,
                           attached : Seq(Engines), attaching : Seq(Engines),
                           pending : BOOLEAN, flags : SUBSET EventBits,
                           resume : {"RESUME", "INTERRUPT"}, death : BOOLEAN,
                           resumeAdded : BOOLEAN, reportAdded : BOOLEAN]]
EngineType ==
    eng \in [Engines -> [mem : {"unused", "live", "freed"}, ref : Int,
                         ops : OpsValues, flags : SUBSET EventBits]]
WorkType ==
    /\ tfs \in Seq(Engines \cup {CloneId})
    /\ works \in SUBSET Works /\ taken \in SUBSET Works
    /\ tk \in [mm : BOOLEAN, exiting : BOOLEAN, workExited : BOOLEAN,
               exit : {"none", "zombie", "dead"}]
PlaceType ==
    /\ pc \in [Procs -> Labels]
    /\ at \in [Procs -> [ops : OpsValues, s : Structs \cup {NoStruct}, found : BOOLEAN,
                          e : Engines \cup {NoEngine}, rc : ReturnCodes,
                          act : {"NONE", "RESUME", "INTERRUPT"}, ev : SUBSET EventBits,
                          k : Labels, ret : Labels]]
    /\ rep \in [s : Structs \cup {NoStruct}, ev : {"NONE", "EXEC", "DEATH"}, i : Nat,
                det : BOOLEAN, spur : BOOLEAN, tp : BOOLEAN]

\* Every piece of state has the shape its C declaration gives it, and neither
\* __stp_inuse_count nor the count of an engine is ever below zero.
TypeOK ==
    /\ FinderType /\ HistoryType /\ StructType /\ EngineType /\ WorkType /\ PlaceType
    /\ inuse >= 0
    /\ \A e \in Engines : eng[e].ref >= 0

\* The calls that use the engine in at[p].e, on which they hold a reference.
UsesEngine == {"ev_get", "ev_set", "ctl_get", "ctl_lock", "eng_put"}

\* No struct utrace is freed under a process that looked it up, under a
\* reporting pass, or while one of its embedded task works is queued or about
\* to run; the engines on its lists are alive, so the pass walks live ones; and
\* so is the engine a caller holds a reference on, until the task exits:
\* utrace_cleanup() frees the engines of a dead task whatever their count.
\* get_utrace_struct(), stp_task_notify_resume(), the reference the death
\* tracepoint passes to its worker and the two that worker drops must add up,
\* and utrace_exit() must not free by force what is in use.  None of it is so
\* when two attachers meet while the struct is being made, for its maker has
\* no reference of its own; and see UnloadQuiet for early.
StructHeld == raced \/ early \/
    /\ \A p \in Procs : pc[p] \in UsesStruct => u[at[p].s].mem = "live"
    /\ pc["task"] \in UsesReport => u[rep.s].mem = "live"
    /\ \A w \in works \cup taken : w.kind # "tf" => u[w.id].mem = "live"
    /\ \A s \in Structs : \A e \in ListOf(s) : eng[e].mem = "live"
    /\ ~tk.exiting =>
         \A p \in Procs : pc[p] \in UsesEngine => eng[at[p].e].mem = "live"

\* When stp_task_work_exit() has returned, no tracepoint probe runs in the task,
\* no task work is queued or taken, and none is before the point at which it
\* counted itself down.
CallbacksFinished ==
    pc["stap"] \in {"st_free", "unloaded"} =>
        works = {} /\ taken = {} /\ pc["task"] \in Uncounted

\* So it is although works are counted only after they are added, a work taken
\* by task_work_run() escapes the cancelling, and a callback that read the task
\* finder's state before it changed may add more afterwards.  The exception:
\* utrace_resume() adds its work again outside every lock and every count, and
\* the work is cancelled, and so counted down, before it was counted.
\* What this does not say is that the last callback has left the module: it may
\* still be in the wake_up() of stp_task_work_put(), see CallbacksGone.
UnloadQuiet == early \/ CallbacksFinished

\* stp_task_work_exit() "makes sure that all the callbacks are finished before
\* letting the module unload", even where no work was cancelled too early: the
\* task is then in none of the module's code.
CallbacksGone ==
    pc["stap"] \in {"st_free", "unloaded"} /\ ~early => pc["task"] \in Outside

\* A task that was announced to the targets is also withdrawn when it dies:
\* the death report finds an engine that wants it.  (Not after a failed
\* allocation, nor when two structs were made for the task.)
EndDelivered ==
    tk.exit = "dead" /\ tf = "running" /\ fails = 0 /\ ~Oops /\ ~raced
        => nend >= nbegin

\* Once the walk has attached to a matching task the targets hear of it, as
\* long as neither the task nor the task finder ends first.
BeginDelivered ==
    pc["stap"] = "running" /\ tgtAttached ~>
        nbegin > 0 \/ tk.exiting \/ tf # "running" \/ fails > 0 \/ Oops

\* stap_stop_task_finder() returns: none of its three waits is for ever.
StopReturns == pc["stap"] = "st_state" ~> pc["stap"] = "unloaded" \/ Oops
=============================================================================
