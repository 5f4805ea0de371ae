---------------------------- MODULE ProbeSession ----------------------------
(***************************************************************************)
(* The life of a systemtap session inside the kernel: the code that        *)
(* c_unparser::emit_module_init, emit_module_refresh and emit_module_exit  *)
(* (translate.cxx) generate, run against the probe handlers whose common   *)
(* prologue and epilogue tapsets.cxx generates.                            *)
(*                                                                         *)
(* Main is the thread that executes systemtap_module_init and later        *)
(* systemtap_module_exit (and with them the begin, end and error probes).  *)
(* Slots are the probe handlers: an interrupt level of a cpu, or a task,   *)
(* in which handlers of one probe group run one after the other.  Timers   *)
(* are the users of contexts that are no probes and look at no session     *)
(* state: the control-channel timer callback and system calls.  The        *)
(* refresh worker arms and disarms conditional probes on the fly.          *)
(***************************************************************************)
EXTENDS RuntimeContext

CONSTANTS
    Main, Slots, Timers,
    NGroups,        \* probe groups besides "be", numbered in the order of
                    \* all_session_groups
    GroupOf,        \* the group whose handlers a slot runs
    LevelOf,        \* 0 for task context, higher for interrupt levels
    AsyncGroups,    \* groups whose deregistration does not wait for a
                    \* handler that is already running
    EarlyGroups,    \* groups whose handlers also run in STAP_SESSION_STARTING
    OtfGroups,      \* groups with on-the-fly arming (otf_supported)
    SafeGroups      \* those whose handlers may queue work (otf_safe_context)

Groups == 1 .. NGroups

ASSUME SessionAssumption ==
    /\ Actors = {Main} \cup Slots \cup Timers
    /\ Main \notin Slots \cup Timers
    /\ Slots \cap Timers = {}
    /\ NGroups \in Nat
    /\ GroupOf \in [Slots -> Groups]
    /\ LevelOf \in [Actors -> Nat]
    /\ LevelOf[Main] = 0
    /\ AsyncGroups \subseteq Groups
    /\ EarlyGroups \subseteq Groups
    /\ OtfGroups \subseteq Groups \ EarlyGroups
    /\ SafeGroups \subseteq OtfGroups

(* A deregistration that does not wait is left to the stp_synchronize_sched
   of systemtap_module_exit: such handlers run in an interrupt or with
   preemption disabled.  Task-context handlers (utrace, uprobes), the early
   ones among them, are waited for by their own group.                      *)
ASSUME AsyncAssumption ==
    /\ \A a \in Slots : GroupOf[a] \in AsyncGroups => LevelOf[a] > 0
    /\ EarlyGroups \cap AsyncGroups = {}

VARIABLES
    session_state,
    globals,        \* the script globals: not yet initialised, usable, freed
    pc,             \* Main
    ret,            \* Main: where a subroutine (be probe, synchronize) returns
    gi,             \* Main: index of the group loops
    failed,         \* Main: systemtap_module_init gave up
    gp,             \* the handlers a pending synchronize_sched waits for
    armed,          \* groups whose probes can fire
    enabled,        \* the groups' own record of that (stp->enabled)
    cond,           \* groups whose condition holds (probe->cond_enabled)
    hpc,            \* each actor's position in its handler
    need_refresh,   \* need_module_refresh
    tick,           \* module_refresh_timer is running
    work,           \* module_refresher_work is queued
    wpc, wgi,       \* the refresh worker
    mutex,          \* module_refresh_mutex
    skipped,        \* skipped_count() > MAXSKIPPED
    exited,         \* history: exit() has been called
    errored,        \* history: an error has ended a session before its exit
    ran             \* history: which of end and error have run

mainvars == <<pc, ret, gi, failed, gp>>
probevars == <<armed, enabled, cond>>
workvars == <<need_refresh, tick, work, wpc, wgi, mutex>>
histvars == <<exited, errored, ran>>
vars == <<ctxvars, session_state, globals, mainvars, probevars, hpc, workvars,
          skipped, histvars>>

SessionStates == {"UNINITIALIZED", "STARTING", "RUNNING", "ERROR", "STOPPING",
                  "STOPPED"}

Init ==
    /\ CtxInit
    /\ session_state = "UNINITIALIZED"
    /\ globals = "none"
    /\ pc = "load" /\ ret = "load" /\ gi = 1 /\ failed = FALSE /\ gp = {}
    /\ armed = {} /\ enabled = {} /\ cond = Groups
    /\ hpc = [a \in Actors |-> "idle"]
    /\ need_refresh = FALSE /\ tick = FALSE /\ work = FALSE
    /\ wpc = "idle" /\ wgi = 1 /\ mutex = "free"
    /\ skipped = FALSE
    /\ exited = FALSE /\ errored = FALSE /\ ran = {}

----------------------------------------------------------------------------
(* Interrupts nest: a handler runs to completion before the code it has
   interrupted on its cpu goes on, and a task that owns a context has
   preemption disabled.                                                     *)
CanRun(a) ==
    \A b \in Actors \ {a} :
        CpuOf[b] = CpuOf[a] =>
            /\ LevelOf[b] > 0 /\ LevelOf[b] >= LevelOf[a] => hpc[b] = "idle"
            /\ LevelOf[b] = LevelOf[a] => cpc[b] = "out"

Goto(a, label) == hpc' = [hpc EXCEPT ![a] = label]

(* Mutant: synchronize_sched waits for nobody.                              *)
NoReadSide(a) == FALSE

(* Handlers that synchronize_sched has to wait for: those in interrupt
   context, and those in task context with preemption disabled.             *)
InReadSide(a) == hpc[a] # "idle" /\ (LevelOf[a] > 0 \/ cpc[a] # "out")

(* Leaving the handler ends the read-side section.                          *)
Leave(a) == Goto(a, "idle") /\ gp' = gp \ {a}

(* The be probe Main is in, by the place it will return to.                 *)
BeProbe == CASE ret = "register" -> "begin" [] ret = "error" -> "end"
             [] OTHER -> "error"

(* The states in which a handler goes past the prologue's test.             *)
Expected(a) ==
    IF a = Main
    THEN {CASE BeProbe = "begin" -> "STARTING" [] BeProbe = "end" -> "STOPPING"
            [] OTHER -> "ERROR"}
    ELSE {"RUNNING"} \cup
         (IF GroupOf[a] \in EarlyGroups THEN {"STARTING"} ELSE {})

----------------------------------------------------------------------------
(* Probe handlers: common_probe_entryfn_prologue.                           *)

(* A probe fires.                                                           *)
Enter(a) ==
    /\ a \in Slots /\ hpc[a] = "idle" /\ CanRun(a)
    /\ GroupOf[a] \in armed
    /\ Goto(a, "check")
    /\ UNCHANGED <<ctxvars, session_state, globals, mainvars, probevars,
                   workvars, skipped, histvars>>

(* _stp_ctl_work_callback and the control-channel system calls borrow the
   context whatever the session state, and give it back at once.            *)
EnterTimer(a) ==
    /\ a \in Timers /\ hpc[a] = "idle" /\ CanRun(a)
    /\ Goto(a, "get")
    /\ UNCHANGED <<ctxvars, session_state, globals, mainvars, probevars,
                   workvars, skipped, histvars>>

(* skipped_count() goes up, and may thereby pass MAXSKIPPED.                *)
CountSkip == skipped' \in {skipped, TRUE}

(* Too little stack is left.  Main, in a write(2), has plenty.              *)
LowStack(a) ==
    /\ a \in Slots /\ hpc[a] = "check" /\ CanRun(a)
    /\ Goto(a, "epilogue")
    /\ CountSkip
    /\ UNCHANGED <<ctxvars, session_state, globals, mainvars, probevars,
                   workvars, histvars>>

CheckState(a) ==
    /\ hpc[a] = "check" /\ CanRun(a)
    /\ Goto(a, IF session_state \in Expected(a) THEN "get" ELSE "epilogue")
    /\ UNCHANGED <<ctxvars, session_state, globals, mainvars, probevars,
                   workvars, skipped, histvars>>

(* _stp_runtime_entryfn_get_context returns null.  Builds with INTERRUPTIBLE
   0 count that as a skipped probe; timers are no probes.                   *)
NoContext(a) ==
    /\ Goto(a, "epilogue")
    /\ IF a \in Timers THEN UNCHANGED skipped ELSE CountSkip

GetContext(a) ==
    /\ hpc[a] = "get" /\ cpc[a] = "out" /\ CanRun(a)
    /\ IF CanLock(a)
       THEN /\ stp_runtime_context_trylock(a, "locked")
            /\ UNCHANGED <<contexts, busy, toscan, holdon, hpc, skipped>>
       ELSE NoContext(a) /\ UNCHANGED ctxvars
    /\ UNCHANGED <<session_state, globals, mainvars, probevars, workvars,
                   histvars>>

GotContext(a) ==
    /\ hpc[a] = "get" /\ CanRun(a)
    /\ \/ /\ TakeContext(a)
          /\ Goto(a, IF a \in Timers THEN "epilogue" ELSE "body")
          /\ UNCHANGED skipped
       \/ RefuseContext(a) /\ NoContext(a)
    /\ UNCHANGED <<session_state, globals, mainvars, probevars, workvars,
                   histvars>>

----------------------------------------------------------------------------
(* The script's handler, one effect per run, and the first line of the
   epilogue: a pending refresh is scheduled from the handler itself, where
   otf_safe_context allows it.                                              *)

Body(a, next) ==
    /\ a \in Slots \cup {Main} /\ hpc[a] = "body" /\ CanRun(a)
    /\ Goto(a, next)

ScheduleRefresh(a, needed) ==
    LET safe == a # Main /\ GroupOf[a] \in SafeGroups
    IN  /\ need_refresh' = (needed /\ ~ safe)
        /\ work' = (work \/ (needed /\ safe))
        /\ UNCHANGED <<tick, wpc, wgi, mutex>>

RanBy(a) == IF a = Main THEN {BeProbe} \ {"begin"} ELSE {}

(* Nothing the session can see.                                             *)
BodyPlain(a) ==
    /\ Body(a, "epilogue")
    /\ ScheduleRefresh(a, need_refresh)
    /\ ran' = ran \cup RanBy(a)
    /\ UNCHANGED <<ctxvars, session_state, globals, mainvars, probevars,
                   skipped, exited, errored>>

(* The tapset function exit(): atomic_set (session_state(), STOPPING); the
   same run may still end in an error.                                      *)
BodyExit(a) ==
    /\ \E next \in {"epilogue", "error"} : Body(a, next)
    /\ ScheduleRefresh(a, need_refresh)
    /\ session_state' = "STOPPING"
    /\ exited' = TRUE
    /\ ran' = ran \cup RanBy(a)
    /\ UNCHANGED <<ctxvars, globals, mainvars, probevars, skipped, errored>>

(* A statement fails and sets c->last_error, or the handler has used more
   cycles than STP_OVERLOAD_THRESHOLD.                                      *)
BodyError(a) ==
    /\ Body(a, "error")
    /\ ScheduleRefresh(a, need_refresh)
    /\ ran' = ran \cup RanBy(a)
    /\ UNCHANGED <<ctxvars, session_state, globals, mainvars, probevars,
                   skipped, exited, errored>>

(* stp_lock_probe gives up on a global's lock and skips the body; be probes
   take no locks.                                                           *)
BodySkipped(a) ==
    /\ a # Main
    /\ Body(a, "epilogue")
    /\ ScheduleRefresh(a, need_refresh)
    /\ CountSkip
    /\ UNCHANGED <<ctxvars, session_state, globals, mainvars, probevars,
                   histvars>>

(* c_unparser::emit_probe_condition_update flips the condition of another
   probe.                                                                   *)
BodyCondition(a, g) ==
    /\ g \in OtfGroups
    /\ \E next \in {"epilogue", "error"} : Body(a, next)
    /\ cond' = IF g \in cond THEN cond \ {g} ELSE cond \cup {g}
    /\ ScheduleRefresh(a, TRUE)
    /\ ran' = ran \cup RanBy(a)
    /\ UNCHANGED <<ctxvars, session_state, globals, mainvars, armed, enabled,
                   skipped, exited, errored>>

----------------------------------------------------------------------------
(* Probe handlers: common_probe_entryfn_epilogue.                           *)

RecordError ==
    errored' = (errored \/ session_state \in {"STARTING", "RUNNING"})

(* error_count() has passed MAXERRORS, or the overload test has struck.     *)
EpilogueError(a) ==
    /\ hpc[a] = "error" /\ CanRun(a)
    /\ session_state' = "ERROR"
    /\ RecordError
    /\ Goto(a, "epilogue")
    /\ UNCHANGED <<ctxvars, globals, mainvars, probevars, workvars, skipped,
                   exited, ran>>

(* Label probe_epilogue: too many skipped probes stop a running session.
   pseudo_atomic_cmpxchg reads ...                                          *)
TooManySkipped(a) == a \notin Timers /\ skipped /\ session_state = "RUNNING"

SkippedTooMany(a) ==
    /\ hpc[a] = "epilogue" /\ TooManySkipped(a) /\ CanRun(a)
    /\ Goto(a, "cmpxchg")
    /\ UNCHANGED <<ctxvars, session_state, globals, mainvars, probevars,
                   workvars, skipped, histvars>>

(* ... and writes as a separate step, with only local interrupts disabled.  *)
SkippedSetError(a) ==
    /\ hpc[a] = "cmpxchg" /\ CanRun(a)
    /\ session_state' = "ERROR"
    /\ RecordError
    /\ Goto(a, "put")
    /\ UNCHANGED <<ctxvars, globals, mainvars, probevars, workvars, skipped,
                   exited, ran>>

(* Without a context (the prologue jumped to probe_epilogue) there is
   nothing to give back.                                                    *)
PutContext(a) ==
    /\ \/ hpc[a] = "epilogue" /\ ~ TooManySkipped(a)
       \/ hpc[a] = "put"
    /\ CanRun(a)
    /\ CASE cpc[a] = "held"   -> /\ stp_runtime_entryfn_put_context(a)
                                 /\ Goto(a, "put")
                                 /\ UNCHANGED gp
         [] cpc[a] = "unlock" -> stp_runtime_context_unlock(a) /\ Leave(a)
         [] OTHER             -> UNCHANGED ctxvars /\ Leave(a)
    /\ UNCHANGED <<session_state, globals, pc, ret, gi, failed, probevars,
                   workvars, skipped, histvars>>

Handler(a) ==
    \/ LowStack(a) \/ CheckState(a) \/ GetContext(a) \/ GotContext(a)
    \/ BodyPlain(a) \/ BodyExit(a) \/ BodyError(a) \/ BodySkipped(a)
    \/ \E g \in Groups : BodyCondition(a, g)
    \/ EpilogueError(a) \/ SkippedTooMany(a) \/ SkippedSetError(a)
    \/ PutContext(a)

----------------------------------------------------------------------------
(* Subroutines of Main.  `Call' leaves the return label in ret.             *)

Call(label, back) == pc' = label /\ ret' = back
Jump(label) == pc' = label /\ UNCHANGED ret

(* enter_be_probe, called for each phase; the handler steps above run it.   *)
EnterBeProbe(back) ==
    /\ hpc[Main] = "idle"
    /\ Goto(Main, "check")
    /\ Call("be", back)
    /\ UNCHANGED <<ctxvars, session_state, globals, gi, failed, gp, probevars,
                   workvars, skipped, histvars>>

BeProbeReturns ==
    /\ pc = "be" /\ hpc[Main] = "idle"
    /\ Jump(ret)
    /\ UNCHANGED <<ctxvars, session_state, globals, gi, failed, gp, probevars,
                   hpc, workvars, skipped, histvars>>

(* stp_synchronize_sched: flush_scheduled_work ...                          *)
FlushScheduledWork ==
    /\ pc = "flush"
    /\ ~ work /\ wpc = "idle"
    /\ gp' = {a \in Slots : InReadSide(a)}
    /\ Jump("gp")
    /\ UNCHANGED <<ctxvars, session_state, globals, gi, failed, probevars, hpc,
                   workvars, skipped, histvars>>

(* ... then synchronize_sched: every handler that was running is done.      *)
SynchronizeSched ==
    /\ pc = "gp" /\ gp = {}
    /\ Jump(ret)
    /\ UNCHANGED <<ctxvars, session_state, globals, gi, failed, gp, probevars,
                   hpc, workvars, skipped, histvars>>

----------------------------------------------------------------------------
(* systemtap_module_init.                                                   *)

(* Version, credential or session checks fail before anything is set up.    *)
InitRefused ==
    /\ pc = "load"
    /\ failed' = TRUE
    /\ Jump("out")
    /\ UNCHANGED <<ctxvars, session_state, globals, gi, gp, probevars, hpc,
                   workvars, skipped, histvars>>

InitStarting ==
    /\ pc = "load" /\ session_state = "UNINITIALIZED"
    /\ session_state' = "STARTING"
    /\ Jump("alloc")
    /\ UNCHANGED <<ctxvars, globals, gi, failed, gp, probevars, hpc, workvars,
                   skipped, histvars>>

InitContext(p) ==
    /\ pc = "alloc"
    /\ stp_runtime_contexts_alloc(p)
    /\ UNCHANGED <<session_state, globals, mainvars, probevars, hpc, workvars,
                   skipped, histvars>>

(* An allocation of a context or of a global has failed.                    *)
InitNoMemory ==
    /\ pc \in {"alloc", "globals"}
    /\ failed' = TRUE
    /\ Jump("out")
    /\ UNCHANGED <<ctxvars, session_state, globals, gi, gp, probevars, hpc,
                   workvars, skipped, histvars>>

InitContextsDone ==
    /\ pc = "alloc" /\ \A p \in CPUs : contexts[p] # "null"
    /\ Jump("globals")
    /\ UNCHANGED <<ctxvars, session_state, globals, gi, failed, gp, probevars,
                   hpc, workvars, skipped, histvars>>

InitGlobals ==
    /\ pc = "globals"
    /\ globals' = "live"
    /\ Jump("begin")
    /\ UNCHANGED <<ctxvars, session_state, gi, failed, gp, probevars, hpc,
                   workvars, skipped, histvars>>

(* The be group comes first: its emit_module_init runs the begin probes.    *)
InitBegin == pc = "begin" /\ EnterBeProbe("register")

(* Mutant: the loop over the groups goes one too far.                       *)
RegisterPastEnd ==
    /\ pc = "register" /\ gi \in 1 .. NGroups + 1
    /\ armed' = armed \cup ({gi} \cap cond)
    /\ enabled' = enabled \cup ({gi} \cap cond)
    /\ Jump("registered")
    /\ UNCHANGED <<ctxvars, session_state, globals, gi, failed, gp, cond, hpc,
                   workvars, skipped, histvars>>

(* A group arms those of its probes whose condition holds ...               *)
RegisterGroup ==
    /\ pc = "register" /\ gi \in Groups
    /\ armed' = armed \cup ({gi} \cap cond)
    /\ enabled' = enabled \cup ({gi} \cap cond)
    /\ Jump("registered")
    /\ UNCHANGED <<ctxvars, session_state, globals, gi, failed, gp, cond, hpc,
                   workvars, skipped, histvars>>

RegisterOk ==
    /\ pc = "registered"
    /\ gi' = gi + 1
    /\ Jump("register")
    /\ UNCHANGED <<ctxvars, session_state, globals, failed, gp, probevars, hpc,
                   workvars, skipped, histvars>>

(* Mutant: a failed registration leaves its first probes armed.             *)
RegisterFailsArmed ==
    /\ pc = "registered"
    /\ UNCHANGED armed
    /\ Jump("rollback")
    /\ UNCHANGED <<ctxvars, session_state, globals, gi, failed, gp, enabled,
                   cond, hpc, workvars, skipped, histvars>>

(* ... or fails half-way and rolls back its own part.                       *)
RegisterFails ==
    /\ pc = "registered"
    /\ armed' = armed \ {gi}
    /\ Jump("rollback")
    /\ UNCHANGED <<ctxvars, session_state, globals, gi, failed, gp, enabled,
                   cond, hpc, workvars, skipped, histvars>>

(* Mutant: deregistration never waits for running handlers.                 *)
QuietAtOnce(g) == TRUE

(* No handler of group g is running, where deregistration waits for that.   *)
GroupQuiet(g) ==
    g \in AsyncGroups \/ \A a \in Slots : GroupOf[a] = g => hpc[a] = "idle"

(* The groups registered so far are then taken down in the error state.     *)
InitFails ==
    /\ pc = "rollback" /\ GroupQuiet(gi)
    /\ session_state' = "ERROR"
    /\ RecordError
    /\ failed' = TRUE
    /\ gi' = gi - 1
    /\ Jump("unregister")
    /\ UNCHANGED <<ctxvars, globals, gp, probevars, hpc, workvars, skipped,
                   exited, ran>>

(* Mutant: atomic_set in place of atomic_cmpxchg.                           *)
InitRunningAnyway ==
    /\ pc = "register" /\ gi > NGroups
    /\ session_state' = "RUNNING"
    /\ Jump("post")
    /\ UNCHANGED <<ctxvars, globals, gi, failed, gp, probevars, hpc, workvars,
                   skipped, histvars>>

(* atomic_cmpxchg(session_state(), STARTING, RUNNING).                      *)
InitRunning ==
    /\ pc = "register" /\ gi > NGroups
    /\ session_state' = IF session_state = "STARTING" THEN "RUNNING"
                        ELSE session_state
    /\ Jump("post")
    /\ UNCHANGED <<ctxvars, globals, gi, failed, gp, probevars, hpc, workvars,
                   skipped, histvars>>

(* hrtimer_start(&module_refresh_timer), where some probe's condition can be
   updated on the fly, and return 0.                                        *)
InitDone ==
    /\ pc = "post"
    /\ tick' = (OtfGroups # {})
    /\ Jump("up")
    /\ UNCHANGED <<ctxvars, session_state, globals, gi, failed, gp, probevars,
                   hpc, need_refresh, work, wpc, wgi, mutex, skipped,
                   histvars>>

(* Label out: the globals go first, then the session stops.                 *)
OutGlobals ==
    /\ pc = "out"
    /\ globals' = "freed"
    /\ Jump("out_stopped")
    /\ UNCHANGED <<ctxvars, session_state, gi, failed, gp, probevars, hpc,
                   workvars, skipped, histvars>>

OutStopped ==
    /\ pc = "out_stopped"
    /\ session_state' = "STOPPED"
    /\ Call("flush", "free")
    /\ UNCHANGED <<ctxvars, globals, gi, failed, gp, probevars, hpc, workvars,
                   skipped, histvars>>

ModuleInit ==
    \/ InitRefused \/ InitStarting \/ \E p \in CPUs : InitContext(p)
    \/ InitNoMemory \/ InitContextsDone \/ InitGlobals \/ InitBegin
    \/ RegisterGroup \/ RegisterOk \/ RegisterFails \/ InitFails
    \/ InitRunning \/ InitDone \/ OutGlobals \/ OutStopped

----------------------------------------------------------------------------
(* systemtap_module_exit, which also ends a failed init from "unregister"
   to "error".                                                              *)

(* Mutant: STAP_SESSION_STOPPING is never set.                              *)
ExitTestOnly ==
    /\ pc = "up"
    /\ Jump(CASE session_state = "STARTING" -> "done"
              [] session_state = "RUNNING"  -> "cancel"
              [] OTHER                      -> "cancel")
    /\ UNCHANGED <<ctxvars, session_state, globals, gi, failed, gp, probevars,
                   hpc, workvars, skipped, histvars>>

(* atomic_read (session_state()) == RUNNING ...                             *)
ExitTest ==
    /\ pc = "up"
    /\ Jump(CASE session_state = "STARTING" -> "done"
              [] session_state = "RUNNING"  -> "set_stopping"
              [] OTHER                      -> "cancel")
    /\ UNCHANGED <<ctxvars, session_state, globals, gi, failed, gp, probevars,
                   hpc, workvars, skipped, histvars>>

(* ... and atomic_set are two steps.                                        *)
ExitSetStopping ==
    /\ pc = "set_stopping"
    /\ session_state' = "STOPPING"
    /\ Jump("cancel")
    /\ UNCHANGED <<ctxvars, globals, gi, failed, gp, probevars, hpc, workvars,
                   skipped, histvars>>

(* hrtimer_cancel(&module_refresh_timer); stp_synchronize_sched().          *)
ExitCancelTick ==
    /\ pc = "cancel"
    /\ tick' = FALSE
    /\ Call("flush", "lock")
    /\ UNCHANGED <<ctxvars, session_state, globals, gi, failed, gp, probevars,
                   hpc, need_refresh, work, wpc, wgi, mutex, skipped,
                   histvars>>

ExitLock ==
    /\ pc = "lock" /\ mutex = "free"
    /\ mutex' = "main"
    /\ gi' = NGroups
    /\ Jump("unregister")
    /\ UNCHANGED <<ctxvars, session_state, globals, failed, gp, probevars, hpc,
                   need_refresh, tick, work, wpc, wgi, skipped, histvars>>

(* The groups' emit_module_exit, in reverse order ...                       *)
UnregisterGroup ==
    /\ pc = "unregister" /\ gi \in Groups
    /\ armed' = armed \ {gi}
    /\ Jump("unregistering")
    /\ UNCHANGED <<ctxvars, session_state, globals, gi, failed, gp, enabled,
                   cond, hpc, workvars, skipped, histvars>>

UnregisterWait ==
    /\ pc = "unregistering" /\ GroupQuiet(gi)
    /\ gi' = gi - 1
    /\ Jump("unregister")
    /\ UNCHANGED <<ctxvars, session_state, globals, failed, gp, probevars, hpc,
                   workvars, skipped, histvars>>

(* ... down to the be group, which runs the end and the error probes.       *)
ExitEnd == pc = "unregister" /\ gi = 0 /\ EnterBeProbe("error")

ExitError == pc = "error" /\ EnterBeProbe("be_exited")

(* Mutant: mutex_unlock is forgotten.                                       *)
ExitKeepsMutex ==
    /\ pc = "be_exited"
    /\ IF failed
       THEN Jump("out") /\ UNCHANGED mutex
       ELSE Call("flush", "wait") /\ UNCHANGED mutex
    /\ UNCHANGED <<ctxvars, session_state, globals, gi, failed, gp, probevars,
                   hpc, need_refresh, tick, work, wpc, wgi, skipped, histvars>>

ExitUnlock ==
    /\ pc = "be_exited"
    /\ IF failed
       THEN Jump("out") /\ UNCHANGED mutex
       ELSE Call("flush", "wait") /\ mutex' = "free"
    /\ UNCHANGED <<ctxvars, session_state, globals, gi, failed, gp, probevars,
                   hpc, need_refresh, tick, work, wpc, wgi, skipped, histvars>>

(* _stp_runtime_context_wait.                                               *)
ExitWait ==
    /\ pc = "wait"
    /\ IF CanLock(Main)
       THEN ContextWaitBegin(Main) /\ Jump("scan")
       ELSE UNCHANGED ctxvars /\ Jump("stopped")
    /\ UNCHANGED <<session_state, globals, gi, failed, gp, probevars, hpc,
                   workvars, skipped, histvars>>

ExitScan ==
    /\ pc = "scan"
    /\ \/ (\E p \in CPUs : ContextWaitScan(Main, p)) /\ UNCHANGED <<pc, ret>>
       \/ ContextWaitEnd(Main) /\ Jump(IF holdon THEN "wait" ELSE "stopped")
    /\ UNCHANGED <<session_state, globals, gi, failed, gp, probevars, hpc,
                   workvars, skipped, histvars>>

ExitStopped ==
    /\ pc = "stopped"
    /\ session_state' = "STOPPED"
    /\ Call("flush", "fini")
    /\ UNCHANGED <<ctxvars, globals, gi, failed, gp, probevars, hpc, workvars,
                   skipped, histvars>>

ExitGlobals ==
    /\ pc = "fini"
    /\ globals' = "freed"
    /\ Jump("free")
    /\ UNCHANGED <<ctxvars, session_state, gi, failed, gp, probevars, hpc,
                   workvars, skipped, histvars>>

(* Mutant: contexts are freed with the counter left open.                   *)
ExitContextsOpen ==
    /\ \/ pc = "free" /\ UNCHANGED ctxvars /\ Jump("vfree")
       \/ pc = "vfree" /\ Jump("done")
          /\ contexts' = [p \in CPUs |-> "freed"]
          /\ UNCHANGED <<busy_ctr, busy, cpc, toscan, holdon>>
    /\ UNCHANGED <<session_state, globals, gi, failed, gp, probevars, hpc,
                   workvars, skipped, histvars>>

(* _stp_runtime_contexts_free.                                              *)
ExitContexts ==
    /\ \/ pc = "free" /\ CloseContexts /\ Jump("vfree")
       \/ pc = "vfree" /\ FreeContexts /\ Jump("done")
    /\ UNCHANGED <<session_state, globals, gi, failed, gp, probevars, hpc,
                   workvars, skipped, histvars>>

ModuleExit ==
    \/ ExitTest \/ ExitSetStopping \/ ExitCancelTick \/ ExitLock
    \/ UnregisterGroup \/ UnregisterWait \/ ExitEnd \/ ExitError \/ ExitUnlock
    \/ ExitWait \/ ExitScan \/ ExitStopped \/ ExitGlobals \/ ExitContexts

----------------------------------------------------------------------------
(* module_refresh_timer_cb.                                                 *)
RefreshTick ==
    /\ tick /\ need_refresh
    /\ need_refresh' = FALSE
    /\ work' = TRUE
    /\ UNCHANGED <<ctxvars, session_state, globals, mainvars, probevars, hpc,
                   tick, wpc, wgi, mutex, skipped, histvars>>

(* module_refresher runs systemtap_module_refresh: lock, ...                *)
RefreshStart ==
    /\ wpc = "idle" /\ work
    /\ work' = FALSE
    /\ wpc' = "lock"
    /\ UNCHANGED <<ctxvars, session_state, globals, mainvars, probevars, hpc,
                   need_refresh, tick, wgi, mutex, skipped, histvars>>

RefreshLock ==
    /\ wpc = "lock" /\ mutex = "free"
    /\ mutex' = "worker"
    /\ wpc' = "check"
    /\ UNCHANGED <<ctxvars, session_state, globals, mainvars, probevars, hpc,
                   need_refresh, tick, work, wgi, skipped, histvars>>

(* Mutant: the session state is not looked at.                              *)
RefreshUnchecked ==
    /\ wpc = "check"
    /\ IF TRUE
       THEN wpc' = "groups" /\ UNCHANGED mutex
       ELSE wpc' = "idle" /\ mutex' = "free"
    /\ UNCHANGED <<ctxvars, session_state, globals, mainvars, probevars, hpc,
                   need_refresh, tick, work, wgi, skipped, histvars>>

(* ... only then look at the session state, ...                             *)
RefreshCheck ==
    /\ wpc = "check"
    /\ IF session_state \in {"RUNNING", "STARTING"}
       THEN wpc' = "groups" /\ UNCHANGED mutex
       ELSE wpc' = "idle" /\ mutex' = "free"
    /\ UNCHANGED <<ctxvars, session_state, globals, mainvars, probevars, hpc,
                   need_refresh, tick, work, wgi, skipped, histvars>>

(* ... and bring each group's probes in line with their conditions.         *)
RefreshGroup ==
    /\ wpc = "groups" /\ wgi \in Groups
    /\ wgi' = wgi + 1
    /\ IF wgi \in OtfGroups
       THEN /\ armed' = CASE wgi \in cond \ enabled -> armed \cup {wgi}
                          [] wgi \in enabled \ cond -> armed \ {wgi}
                          [] OTHER -> armed
            /\ enabled' = (enabled \ {wgi}) \cup ({wgi} \cap cond)
       ELSE UNCHANGED <<armed, enabled>>
    /\ UNCHANGED <<ctxvars, session_state, globals, mainvars, cond, hpc,
                   need_refresh, tick, work, wpc, mutex, skipped, histvars>>

RefreshUnlock ==
    /\ wpc = "groups" /\ wgi > NGroups
    /\ wpc' = "idle" /\ wgi' = 1
    /\ mutex' = "free"
    /\ UNCHANGED <<ctxvars, session_state, globals, mainvars, probevars, hpc,
                   need_refresh, tick, work, skipped, histvars>>

Refresh == RefreshStart \/ RefreshLock \/ RefreshCheck \/ RefreshGroup
           \/ RefreshUnlock

----------------------------------------------------------------------------
MainStep == ModuleInit \/ ModuleExit \/ BeProbeReturns \/ FlushScheduledWork
            \/ SynchronizeSched

(* The module may be unloaded; nothing more happens here.                   *)
Unloadable == pc = "done" /\ UNCHANGED vars

Next ==
    \/ MainStep
    \/ \E a \in Actors : Enter(a) \/ EnterTimer(a) \/ Handler(a)
    \/ RefreshTick
    \/ Refresh
    \/ Unloadable

Spec == Init /\ [][Next]_vars

(* Handlers are bounded by MAXACTION, the worker and the control thread are
   scheduled by the kernel; nothing forces a probe to fire.                 *)
Fairness ==
    /\ WF_vars(MainStep)
    /\ \A a \in Actors : WF_vars(Handler(a))
    /\ WF_vars(Refresh)

FairSpec == Spec /\ Fairness

----------------------------------------------------------------------------
TypeOK ==
    /\ CtxTypeOK
    /\ session_state \in SessionStates
    /\ globals \in {"none", "live", "freed"}
    /\ pc \in {"load", "alloc", "globals", "begin", "be", "register",
               "registered", "rollback", "post", "up", "set_stopping",
               "cancel", "flush", "gp", "lock", "unregister", "unregistering",
               "error", "be_exited", "wait", "scan", "stopped", "fini",
               "free", "vfree", "out", "out_stopped", "done"}
    /\ ret \in {"load", "register", "error", "be_exited", "lock", "wait",
                "fini", "free"}
    /\ gi \in 0 .. NGroups + 1
    /\ failed \in BOOLEAN
    /\ gp \in SUBSET Slots
    /\ armed \in SUBSET Groups /\ enabled \in SUBSET Groups
    /\ cond \in SUBSET Groups
    /\ hpc \in [Actors -> {"idle", "check", "get", "body", "error",
                           "epilogue", "cmpxchg", "put"}]
    /\ need_refresh \in BOOLEAN /\ tick \in BOOLEAN /\ work \in BOOLEAN
    /\ wpc \in {"idle", "lock", "check", "groups"}
    /\ wgi \in 1 .. NGroups + 1
    /\ mutex \in {"free", "main", "worker"}
    /\ skipped \in BOOLEAN
    /\ exited \in BOOLEAN /\ errored \in BOOLEAN
    /\ ran \in SUBSET {"end", "error"}

InBody(a) == a \notin Timers /\ hpc[a] = "body"

(* No script code runs on globals that are not there: neither before
   systemtap_module_init has set them up nor after either exit path has
   freed them.                                                              *)
GlobalsSafe == \A a \in Actors : InBody(a) => globals = "live"

(* be_derived_probe::needs_global_locks is false because begin, end and
   error probes "aren't run concurrently with any other probes": while one
   executes, no other handler does, not even one of a group that deregisters
   without waiting.                                                         *)
BeProbesRunAlone == InBody(Main) => \A a \in Slots : ~ InBody(a)

(* When systemtap_module_exit has returned, nothing can enter the module's
   text again: no probe is armed, no refresh work is queued or running, no
   handler is still on its way out.                                         *)
NothingLeftBehind ==
    pc = "done" =>
        /\ armed = {}
        /\ ~ work /\ wpc = "idle" /\ mutex # "worker"
        /\ \A a \in Slots : hpc[a] = "idle"

(* exit() "New probes will not fire (except "end" probes)": the session
   never counts as running again, even when a begin probe called exit()
   before systemtap_module_init was through.                                *)
ExitSticks == exited => session_state \notin {"STARTING", "RUNNING"}

(* A session that came up and was shut down has run its end probes, or,
   after an error, its error probes.                                        *)
FinalProbesRan ==
    pc = "done" /\ ~ failed => ran \cap {"end", "error"} # {}

(* The manual: "In the case of an error-triggered shutdown, "end" probes are
   not run".                                                                *)
ErrorSkipsEnd == InBody(Main) /\ BeProbe = "end" => ~ errored

(* systemtap_module_init and systemtap_module_exit return: neither the
   mutex, nor the two synchronisations, nor the wait for contexts hangs.    *)
InitReturns == (pc = "load") ~> (pc \in {"up", "done"})
ExitReturns == (pc = "cancel") ~> (pc = "done")
=============================================================================
