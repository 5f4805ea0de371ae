------------------------ MODULE ProbeSession_proofs ------------------------
(***************************************************************************)
(* What systemtap_module_init, systemtap_module_refresh and                *)
(* systemtap_module_exit promise the probe handlers, for any number of     *)
(* probe groups, handlers, cpus and interrupt levels.  First, a session    *)
(* uses the contexts as RuntimeContext prescribes, so what is proved of    *)
(* the protocol holds of every session; and exit() is final.               *)
(***************************************************************************)
EXTENDS ProbeSession, RuntimeContext_proofs

----------------------------------------------------------------------------
(* What a handler does to the contexts, it does by a step of the protocol.  *)
LEMMA HandlerRefines ==
    ASSUME NEW a \in Actors, Handler(a)
    PROVE  ContextStep(a) \/ UNCHANGED ctxvars
<1>1. CASE GetContext(a)
  BY <1>1 DEF GetContext, ContextStep
<1>2. CASE GotContext(a)
  BY <1>2 DEF GotContext, ContextStep
<1>3. CASE PutContext(a)
  BY <1>3 DEF PutContext, ContextStep
<1>4. CASE \/ LowStack(a) \/ CheckState(a) \/ BodyPlain(a) \/ BodyExit(a)
           \/ BodyError(a) \/ BodySkipped(a) \/ \E g \in Groups : BodyCondition(a, g)
           \/ EpilogueError(a) \/ SkippedTooMany(a) \/ SkippedSetError(a)
  BY <1>4
     DEF LowStack, CheckState, BodyPlain, BodyExit, BodyError, BodySkipped,
         BodyCondition, EpilogueError, SkippedTooMany, SkippedSetError
<1> QED
  BY <1>1, <1>2, <1>3, <1>4 DEF Handler

(* systemtap_module_init only allocates contexts.                           *)
LEMMA InitRefines ==
    ASSUME ModuleInit
    PROVE  (\E p \in CPUs : stp_runtime_contexts_alloc(p)) \/ UNCHANGED ctxvars
<1>1. CASE \E p \in CPUs : InitContext(p)
  BY <1>1 DEF InitContext
<1>2. CASE \/ InitRefused \/ InitStarting \/ InitNoMemory \/ InitContextsDone
           \/ InitGlobals \/ InitBegin \/ RegisterGroup \/ RegisterOk
  BY <1>2
     DEF InitRefused, InitStarting, InitNoMemory, InitContextsDone,
         InitGlobals, InitBegin, EnterBeProbe, RegisterGroup, RegisterOk
<1>3. CASE \/ RegisterFails \/ InitFails \/ InitRunning \/ InitDone
           \/ OutGlobals \/ OutStopped
  BY <1>3
     DEF RegisterFails, InitFails, InitRunning, InitDone, OutGlobals,
         OutStopped
<1> QED
  BY <1>1, <1>2, <1>3 DEF ModuleInit

(* systemtap_module_exit waits for contexts, closes and frees them.         *)
LEMMA ExitRefines ==
    ASSUME ModuleExit
    PROVE  ContextStep(Main) \/ CloseContexts \/ FreeContexts
           \/ UNCHANGED ctxvars
<1>1. CASE ExitWait
  BY <1>1 DEF ExitWait, ContextStep
<1>2. CASE ExitScan
  BY <1>2 DEF ExitScan, ContextStep
<1>3. CASE ExitContexts
  BY <1>3 DEF ExitContexts
<1>4. CASE \/ ExitTest \/ ExitSetStopping \/ ExitCancelTick \/ ExitLock
           \/ UnregisterGroup \/ UnregisterWait \/ ExitEnd
  BY <1>4
     DEF ExitTest, ExitSetStopping, ExitCancelTick, ExitLock, UnregisterGroup,
         UnregisterWait, ExitEnd, EnterBeProbe
<1>5. CASE \/ ExitError \/ ExitUnlock \/ ExitStopped \/ ExitGlobals
  BY <1>5 DEF ExitError, EnterBeProbe, ExitUnlock, ExitStopped, ExitGlobals
<1> QED
  BY <1>1, <1>2, <1>3, <1>4, <1>5 DEF ModuleExit

(* Every step of a session is a step of the protocol, or none.              *)
LEMMA StepRefines == [Next]_vars => [CtxNext]_ctxvars
<1> SUFFICES ASSUME [Next]_vars PROVE [CtxNext]_ctxvars
  OBVIOUS
<1>1. CASE ModuleInit
  BY <1>1, InitRefines DEF CtxNext
<1>2. CASE ModuleExit
  <2>1. Main \in Actors
    BY SessionAssumption
  <2> QED
    BY <1>2, <2>1, ExitRefines DEF CtxNext
<1>3. CASE BeProbeReturns \/ FlushScheduledWork \/ SynchronizeSched
  BY <1>3 DEF BeProbeReturns, FlushScheduledWork, SynchronizeSched
<1>4. CASE \E a \in Actors : Enter(a) \/ EnterTimer(a)
  BY <1>4 DEF Enter, EnterTimer
<1>5. CASE \E a \in Actors : Handler(a)
  BY <1>5, HandlerRefines DEF CtxNext
<1>6. CASE RefreshTick \/ Refresh
  BY <1>6
     DEF RefreshTick, Refresh, RefreshStart, RefreshLock, RefreshCheck,
         RefreshGroup, RefreshUnlock
<1>7. CASE Unloadable \/ UNCHANGED vars
  BY <1>7 DEF Unloadable, vars
<1> QED
  BY <1>1, <1>2, <1>3, <1>4, <1>5, <1>6, <1>7 DEF Next, MainStep

(* Init, refresh, exit, probe handlers and timers together are a client of
   the context protocol: every session implements CtxSpec.                  *)
THEOREM SessionImplementsContexts == Spec => CtxSpec
<1>1. Init => CtxInit
  BY DEF Init
<1>2. [Next]_vars => [CtxNext]_ctxvars
  BY StepRefines
<1> QED
  BY <1>1, <1>2, PTL DEF Spec, CtxSpec

(* Hence systemtap_module_exit frees no context a handler can still see,
   whatever the probe groups, cpus and interrupt levels.                    *)
THEOREM SessionFreesSafely == Spec => []ContextsFreedUnused
BY SessionImplementsContexts, ContextsSafe, PTL

(* _stp_contexts_busy_ctr counts the threads between trylock and unlock
   exactly, in every session: neither an early return nor the wait of
   systemtap_module_exit loses or repeats a count.                          *)
THEOREM SessionCounts == Spec => []BusyCtrCounts
<1>1. CtxInv => BusyCtrCounts
  BY DEF CtxInv
<1> QED
  BY <1>1, SessionImplementsContexts, ContextInvariant, PTL

(* Two handlers, nested or on their way out, never own one context.         *)
THEOREM SessionExclusive == Spec => []OneHolderPerCpu
BY SessionImplementsContexts, ContextExclusive, PTL

----------------------------------------------------------------------------
(* The part of ExitSticks that is inductive: once exit() has been called the
   session state is one of the three that nothing leads back from.          *)
ExitFinal == exited => session_state \in {"ERROR", "STOPPING", "STOPPED"}

(* No step leads back to a session that counts as running.                  *)
LEMMA ExitFinalStep == ExitFinal /\ [Next]_vars => ExitFinal'
<1> SUFFICES ASSUME ExitFinal, [Next]_vars PROVE ExitFinal'
  OBVIOUS
<1> USE DEF ExitFinal, histvars
<1>1. CASE ModuleInit
  <2>1. CASE InitStarting \/ InitFails \/ InitRunning \/ OutStopped
    BY <2>1 DEF InitStarting, InitFails, InitRunning, OutStopped
  <2>2. CASE \/ InitRefused \/ (\E p \in CPUs : InitContext(p)) \/ InitNoMemory
             \/ InitContextsDone \/ InitGlobals \/ InitBegin \/ RegisterGroup
             \/ RegisterOk \/ RegisterFails \/ InitDone \/ OutGlobals
    BY <2>2
       DEF InitRefused, InitContext, InitNoMemory, InitContextsDone,
           InitGlobals, InitBegin, EnterBeProbe, RegisterGroup, RegisterOk,
           RegisterFails, InitDone, OutGlobals
  <2> QED
    BY <1>1, <2>1, <2>2 DEF ModuleInit
<1>2. CASE ModuleExit
  <2>1. CASE ExitSetStopping \/ ExitStopped
    BY <2>1 DEF ExitSetStopping, ExitStopped
  <2>2. CASE \/ ExitTest \/ ExitCancelTick \/ ExitLock \/ UnregisterGroup
             \/ UnregisterWait \/ ExitEnd \/ ExitError \/ ExitUnlock
             \/ ExitWait \/ ExitScan \/ ExitGlobals \/ ExitContexts
    BY <2>2
       DEF ExitTest, ExitCancelTick, ExitLock, UnregisterGroup,
           UnregisterWait, ExitEnd, ExitError, EnterBeProbe, ExitUnlock,
           ExitWait, ExitScan, ExitGlobals, ExitContexts
  <2> QED
    BY <1>2, <2>1, <2>2 DEF ModuleExit
<1>3. CASE BeProbeReturns \/ FlushScheduledWork \/ SynchronizeSched
  BY <1>3 DEF BeProbeReturns, FlushScheduledWork, SynchronizeSched
<1>4. CASE \E a \in Actors : Enter(a) \/ EnterTimer(a)
  BY <1>4 DEF Enter, EnterTimer
<1>5. CASE \E a \in Actors : Handler(a)
  <2> PICK a \in Actors : Handler(a)
    BY <1>5
  <2>1. CASE BodyExit(a) \/ EpilogueError(a) \/ SkippedSetError(a)
    BY <2>1 DEF BodyExit, EpilogueError, SkippedSetError
  <2>2. CASE \/ LowStack(a) \/ CheckState(a) \/ GetContext(a) \/ GotContext(a)
             \/ BodyPlain(a) \/ BodyError(a) \/ BodySkipped(a)
             \/ (\E g \in Groups : BodyCondition(a, g)) \/ SkippedTooMany(a)
             \/ PutContext(a)
    BY <2>2
       DEF LowStack, CheckState, GetContext, GotContext, BodyPlain, BodyError,
           BodySkipped, BodyCondition, SkippedTooMany, PutContext
  <2> QED
    BY <2>1, <2>2 DEF Handler
<1>6. CASE RefreshTick \/ Refresh
  BY <1>6
     DEF RefreshTick, Refresh, RefreshStart, RefreshLock, RefreshCheck,
         RefreshGroup, RefreshUnlock
<1>7. CASE Unloadable \/ UNCHANGED vars
  BY <1>7 DEF Unloadable, vars
<1> QED
  BY <1>1, <1>2, <1>3, <1>4, <1>5, <1>6, <1>7 DEF Next, MainStep

(* After exit() the session never counts as starting or running again, even
   when the call came from a begin probe or an early handler while
   systemtap_module_init was still on its way to STAP_SESSION_RUNNING.      *)
THEOREM ExitIsFinal == Spec => []ExitSticks
<1>1. Init => ExitFinal
  BY DEF Init, ExitFinal
<1>2. ExitFinal /\ [Next]_vars => ExitFinal'
  BY ExitFinalStep
<1>3. ExitFinal => ExitSticks
  BY DEF ExitFinal, ExitSticks
<1> QED
  BY <1>1, <1>2, <1>3, PTL DEF Spec

----------------------------------------------------------------------------
(* Then: handlers find their globals, be probes run alone, and nothing is   
   left behind.                                                             *)

(* Where Main is.  Before it has registered a group ...                     *)
NotYet == pc \in {"load", "alloc", "globals", "begin"}
          \/ (pc = "be" /\ ret = "register")

(* ... in systemtap_module_init, before STAP_SESSION_RUNNING ...            *)
InInit == NotYet \/ pc \in {"register", "registered", "rollback"}

(* ... with the session up, until it has module_refresh_mutex ...           *)
Live == pc \in {"post", "up", "set_stopping", "cancel", "lock"}
        \/ (pc \in {"flush", "gp"} /\ ret = "lock")

(* ... after the last group has been deregistered ...                       *)
Torn == \/ pc \in {"error", "be_exited", "out", "out_stopped", "wait", "scan",
                   "stopped", "fini", "free", "vfree", "done"}
        \/ pc = "be" /\ ret # "register"
        \/ pc \in {"flush", "gp"} /\ ret # "lock"

(* ... after the grace period that follows, ...                             *)
Quiet == \/ pc \in {"wait", "scan", "stopped", "fini", "free", "vfree", "done"}
         \/ pc \in {"flush", "gp"} /\ ret = "fini"

(* ... and after the last flush_scheduled_work.                             *)
Flushed == pc \in {"fini", "free", "vfree", "done"} \/ (pc = "gp" /\ ret = "fini")

(* On the way out of a failed systemtap_module_init: before its globals are
   freed, and after.                                                        *)
OutPath == pc \in {"out", "out_stopped"} \/ (pc \in {"flush", "gp"} /\ ret = "free")

(* A session that never came up.                                            *)
NeverUp == InInit \/ failed

Final == {"ERROR", "STOPPING", "STOPPED"}

----------------------------------------------------------------------------
(* The return labels match the subroutine; only the exit path can fail.     *)
FlowInv ==
    /\ pc = "be" => ret \in {"register", "error", "be_exited"}
    /\ pc \in {"flush", "gp"} => ret \in {"lock", "wait", "fini", "free"}
    /\ failed => (Torn /\ pc \notin {"wait", "scan", "stopped", "fini"}
                  /\ ~ (pc \in {"flush", "gp"} /\ ret # "free"))
                 \/ pc \in {"unregister", "unregistering"}
    /\ OutPath => failed
    /\ pc \in {"registered", "rollback", "unregistering"} => gi \in Groups
    /\ pc = "register" => gi \in 1 .. NGroups + 1
    /\ pc = "unregister" => gi \in 0 .. NGroups
    /\ NotYet => gi = 1
    /\ hpc[Main] # "idle" => pc = "be"

(* session_state never leads back.                                          *)
StateInv ==
    /\ InInit /\ pc # "load" => session_state \in {"STARTING"} \cup Final
    /\ NeverUp => session_state # "RUNNING"
    /\ pc \in {"post", "up", "set_stopping"} =>
         session_state \in {"RUNNING"} \cup Final
    /\ ~ failed /\ ~ InInit /\ pc \notin {"post", "up", "set_stopping"} =>
         session_state \in Final

(* The script globals are there from their initialisation to their end.     *)
GlobalsInv ==
    pc \in {"load", "alloc", "globals", "free", "vfree", "done"} \/ OutPath
    \/ globals = "live"

(* The refresh worker and its mutex: it is idle until the session is up, is
   kept out while Main deregisters, and finds nothing to do afterwards.     *)
WorkerInv ==
    /\ mutex = "worker" <=> wpc \in {"check", "groups"}
    /\ mutex = "main" <=>
         /\ ~ failed
         /\ \/ pc \in {"unregister", "unregistering", "error", "be_exited"}
            \/ pc = "be" /\ ret # "register"
    /\ wpc = "groups" => Live
    /\ tick => pc \in {"up", "set_stopping", "cancel"}
    /\ NeverUp \/ Flushed => ~ work /\ wpc = "idle"

(* Groups are armed in order and disarmed in reverse order.                 *)
ArmedInv ==
    /\ NotYet \/ Torn => armed = {}
    /\ pc \in {"register", "rollback", "unregistering"} => armed \subseteq 1 .. gi - 1
    /\ pc \in {"registered", "unregister"} => armed \subseteq 1 .. gi

(* The handlers that may still be running, in each phase.                   *)
Running(a) ==
    /\ ~ NotYet /\ ~ Quiet
    /\ pc = "register" => GroupOf[a] < gi
    /\ pc \in {"registered", "rollback"} => GroupOf[a] <= gi
    /\ pc \in {"unregister", "unregistering"} =>
         GroupOf[a] <= gi \/ GroupOf[a] \in AsyncGroups
    /\ Torn => GroupOf[a] \in AsyncGroups
    /\ pc = "gp" /\ ret \in {"wait", "free"} => a \in gp

(* A handler that has read the session state as running, or is about to set
   it, although its group does not wait for it: the grace period before
   mutex_lock does, so none is left when deregistration begins.             *)
Passed == {"get", "body", "error", "cmpxchg"}

Outlasts(a) ==
    /\ pc = "gp" /\ ret = "lock" => a \in gp
    /\ ~ Torn /\ pc \notin {"lock", "unregister", "unregistering"}

SlotInv == \A a \in Slots :
    /\ hpc[a] # "idle" => Running(a)
    /\ NeverUp /\ GroupOf[a] \notin EarlyGroups => hpc[a] \notin {"get", "body"}
    /\ ~ failed /\ GroupOf[a] \in AsyncGroups /\ hpc[a] \in Passed => Outlasts(a)

(* The part of TypeOK that is not about contexts.                           *)
MainType ==
    /\ session_state \in SessionStates
    /\ globals \in {"none", "live", "freed"}
    /\ pc \in {"load", "alloc", "globals", "begin", "be", "register",
               "registered", "rollback", "post", "up", "set_stopping",
               "cancel", "flush", "gp", "lock", "unregister", "unregistering",
               "error", "be_exited", "wait", "scan", "stopped", "fini",
               "free", "vfree", "out", "out_stopped", "done"}
    /\ ret \in {"load", "register", "error", "be_exited", "lock", "wait",
                "fini", "free"}
    /\ gi \in 0 .. NGroups + 1
    /\ failed \in BOOLEAN
    /\ gp \in SUBSET Slots

SideType ==
    /\ armed \in SUBSET Groups /\ enabled \in SUBSET Groups
    /\ cond \in SUBSET Groups
    /\ hpc \in [Actors -> {"idle", "check", "get", "body", "error",
                           "epilogue", "cmpxchg", "put"}]
    /\ need_refresh \in BOOLEAN /\ tick \in BOOLEAN /\ work \in BOOLEAN
    /\ wpc \in {"idle", "lock", "check", "groups"}
    /\ wgi \in 1 .. NGroups + 1
    /\ mutex \in {"free", "main", "worker"}
    /\ skipped \in BOOLEAN
    /\ exited \in BOOLEAN /\ errored \in BOOLEAN
    /\ ran \in SUBSET {"end", "error"}

SessionInv ==
    /\ MainType /\ SideType /\ FlowInv /\ StateInv /\ GlobalsInv /\ WorkerInv
    /\ ArmedInv /\ SlotInv
----------------------------------------------------------------------------
(* The invariant holds when the module is loaded.                           *)
LEMMA InitInv == Init => SessionInv
<1> SUFFICES ASSUME Init PROVE SessionInv
  OBVIOUS
<1>0. Main \in Actors /\ Slots \subseteq Actors
  BY SessionAssumption
<1>1. MainType
  <2>1. failed \in BOOLEAN
    BY Zenon DEF Init
  <2> QED
    BY <2>1, SessionAssumption DEF Init, MainType, SessionStates
<1>2. SideType
  <2>1. /\ need_refresh \in BOOLEAN /\ tick \in BOOLEAN /\ work \in BOOLEAN
        /\ skipped \in BOOLEAN /\ exited \in BOOLEAN /\ errored \in BOOLEAN
    BY Zenon DEF Init
  <2> QED
    BY <2>1, SessionAssumption DEF Init, SideType, Groups
<1>3. FlowInv
  BY <1>0, SessionAssumption DEF Init, FlowInv, Torn, OutPath, NotYet, Groups
<1>4. StateInv /\ GlobalsInv
  BY DEF Init, StateInv, GlobalsInv, NeverUp, InInit, NotYet
<1>5. WorkerInv
  BY DEF Init, WorkerInv, Live, Flushed, NeverUp, InInit, NotYet
<1>6. ArmedInv
  BY DEF Init, ArmedInv
<1>7. SlotInv
  BY <1>0 DEF Init, SlotInv, Passed
<1> QED
  BY <1>1, <1>2, <1>3, <1>4, <1>5, <1>6, <1>7 DEF SessionInv

(* systemtap_module_init.                                                   *)
LEMMA ModuleInitInv ==
    ASSUME SessionInv, ModuleInit
    PROVE  SessionInv'
<1> USE SessionAssumption DEF SessionInv, MainType, SideType, FlowInv,
   StateInv, GlobalsInv, WorkerInv, ArmedInv, SlotInv, Running, Passed,
   Outlasts, NotYet, InInit, Live, Torn, Quiet, Flushed, OutPath, NeverUp,
   Final, mainvars, probevars, workvars, histvars
<1>1. CASE InitRefused
  BY <1>1 DEF InitRefused, Jump
<1>2. CASE InitStarting
  BY <1>2 DEF InitStarting, Jump, SessionStates
<1>3. ASSUME NEW p \in CPUs, InitContext(p) PROVE SessionInv'
  BY <1>3 DEF InitContext
<1>4. CASE InitNoMemory
  BY <1>4 DEF InitNoMemory, Jump
<1>5. CASE InitContextsDone
  BY <1>5 DEF InitContextsDone, Jump
<1>6. CASE InitGlobals
  BY <1>6 DEF InitGlobals, Jump
<1>7. CASE InitBegin
  BY <1>7 DEF InitBegin, EnterBeProbe, Call, Goto
<1>8. CASE RegisterGroup
  BY <1>8 DEF RegisterGroup, Jump, Groups
<1>9. CASE RegisterOk
  BY <1>9 DEF RegisterOk, Jump, Groups
<1>10. CASE RegisterFails
  BY <1>10 DEF RegisterFails, Jump, Groups
<1>11. CASE InitFails
  BY <1>11 DEF InitFails, Jump, Groups, RecordError, GroupQuiet, SessionStates
<1>12. CASE InitRunning
  BY <1>12 DEF InitRunning, Jump, SessionStates
<1>13. CASE InitDone
  BY <1>13 DEF InitDone, Jump
<1>14. CASE OutGlobals
  BY <1>14 DEF OutGlobals, Jump
<1>15. CASE OutStopped
  BY <1>15 DEF OutStopped, Call, SessionStates
<1> HIDE DEF SessionInv, MainType, SideType, FlowInv, StateInv, GlobalsInv,
   WorkerInv, ArmedInv, SlotInv, Running, Passed, Outlasts, NotYet, InInit,
   Live, Torn, Quiet, Flushed, OutPath, NeverUp, Final, mainvars, probevars,
   workvars, histvars
<1> QED
  BY <1>1, <1>2, <1>3, <1>4, <1>5, <1>6, <1>7, <1>8, <1>9, <1>10, <1>11,
     <1>12, <1>13, <1>14, <1>15 DEF ModuleInit

(* systemtap_module_exit.                                                   *)
LEMMA ModuleExitInv ==
    ASSUME SessionInv, ModuleExit
    PROVE  SessionInv'
<1> USE SessionAssumption DEF SessionInv, MainType, SideType, FlowInv,
   StateInv, GlobalsInv, WorkerInv, ArmedInv, SlotInv, Running, Passed,
   Outlasts, NotYet, InInit, Live, Torn, Quiet, Flushed, OutPath, NeverUp,
   Final, mainvars, probevars, workvars, histvars
<1>1. CASE ExitTest
  BY <1>1 DEF ExitTest, Jump
<1>2. CASE ExitSetStopping
  BY <1>2 DEF ExitSetStopping, Jump, SessionStates
<1>3. CASE ExitCancelTick
  <2> HIDE DEF MainType, SideType, FlowInv, StateInv, GlobalsInv, WorkerInv,
     ArmedInv, SlotInv, Running, Passed, Outlasts, NotYet, InInit, Live, Torn,
     Quiet, Flushed, OutPath, NeverUp, Final, mainvars, probevars, workvars,
     histvars
  <2>1. MainType'
    BY <1>3 DEF ExitCancelTick, Call, MainType, mainvars
  <2>2. SideType'
    BY <1>3 DEF ExitCancelTick, Call, SideType, probevars, workvars, histvars
  <2>3. FlowInv'
    BY <1>3 DEF ExitCancelTick, Call, FlowInv, NotYet, Torn, OutPath, mainvars
  <2>4. StateInv' /\ GlobalsInv'
    BY <1>3 DEF ExitCancelTick, Call, StateInv, GlobalsInv, FlowInv, NotYet,
       Torn, OutPath, NeverUp, InInit, Final, mainvars
  <2>5. WorkerInv'
    BY <1>3 DEF ExitCancelTick, Call, WorkerInv, FlowInv, StateInv, NotYet,
       Torn, OutPath, NeverUp, InInit, Live, Flushed, Final, workvars,
       mainvars
  <2>6. ArmedInv'
    BY <1>3 DEF ExitCancelTick, Call, ArmedInv, FlowInv, NotYet, Torn,
       probevars, mainvars
  <2>7. SlotInv'
    BY <1>3 DEF ExitCancelTick, Call, SlotInv, Running, Passed, Outlasts,
       FlowInv, SideType, StateInv, Final, NotYet, Torn, Quiet, NeverUp,
       InInit, mainvars
  <2> QED
    BY <2>1, <2>2, <2>3, <2>4, <2>5, <2>6, <2>7
<1>4. CASE ExitLock
  BY <1>4 DEF ExitLock, Jump, Groups
<1>5. CASE UnregisterGroup
  BY <1>5 DEF UnregisterGroup, Jump, Groups
<1>6. CASE UnregisterWait
  BY <1>6 DEF UnregisterWait, Jump, Groups, GroupQuiet
<1>7. CASE ExitEnd
  <2> HIDE DEF MainType, SideType, FlowInv, StateInv, GlobalsInv, WorkerInv,
     ArmedInv, SlotInv, Running, Passed, Outlasts, NotYet, InInit, Live, Torn,
     Quiet, Flushed, OutPath, NeverUp, Final, mainvars, probevars, workvars,
     histvars
  <2>1. MainType'
    BY <1>7 DEF ExitEnd, EnterBeProbe, Call, Goto, Groups, MainType, mainvars
  <2>2. SideType'
    BY <1>7 DEF ExitEnd, EnterBeProbe, Call, Goto, Groups, SideType,
       probevars, workvars, histvars
  <2>3. FlowInv'
    BY <1>7 DEF ExitEnd, EnterBeProbe, Call, Goto, Groups, FlowInv, NotYet,
       Torn, OutPath, mainvars
  <2>4. StateInv' /\ GlobalsInv'
    BY <1>7 DEF ExitEnd, EnterBeProbe, Call, Goto, Groups, StateInv,
       GlobalsInv, FlowInv, NotYet, Torn, OutPath, NeverUp, InInit, Final,
       mainvars
  <2>5. WorkerInv'
    BY <1>7 DEF ExitEnd, EnterBeProbe, Call, Goto, Groups, WorkerInv, FlowInv,
       StateInv, NotYet, Torn, OutPath, NeverUp, InInit, Live, Flushed, Final,
       workvars, mainvars
  <2>6. ArmedInv'
    BY <1>7 DEF ExitEnd, EnterBeProbe, Call, Goto, Groups, ArmedInv, FlowInv,
       NotYet, Torn, probevars, mainvars
  <2>7. SlotInv'
    BY <1>7 DEF ExitEnd, EnterBeProbe, Call, Goto, Groups, SlotInv, Running,
       Passed, Outlasts, FlowInv, SideType, StateInv, Final, NotYet, Torn,
       Quiet, NeverUp, InInit, mainvars
  <2> QED
    BY <2>1, <2>2, <2>3, <2>4, <2>5, <2>6, <2>7
<1>8. CASE ExitError
  BY <1>8 DEF ExitError, EnterBeProbe, Call, Goto
<1>9. CASE ExitUnlock
  BY <1>9 DEF ExitUnlock, Jump, Call
<1>10. CASE ExitWait
  BY <1>10 DEF ExitWait, Jump
<1>11. CASE ExitScan
  BY <1>11 DEF ExitScan, Jump
<1>12. CASE ExitStopped
  BY <1>12 DEF ExitStopped, Call, SessionStates
<1>13. CASE ExitGlobals
  BY <1>13 DEF ExitGlobals, Jump
<1>14. CASE ExitContexts
  BY <1>14 DEF ExitContexts, Jump
<1> HIDE DEF SessionInv, MainType, SideType, FlowInv, StateInv, GlobalsInv,
   WorkerInv, ArmedInv, SlotInv, Running, Passed, Outlasts, NotYet, InInit,
   Live, Torn, Quiet, Flushed, OutPath, NeverUp, Final, mainvars, probevars,
   workvars, histvars
<1> QED
  BY <1>1, <1>2, <1>3, <1>4, <1>5, <1>6, <1>7, <1>8, <1>9, <1>10, <1>11,
     <1>12, <1>13, <1>14 DEF ModuleExit

(* The subroutines of Main.                                                 *)
LEMMA SubroutineInv ==
    ASSUME SessionInv, BeProbeReturns \/ FlushScheduledWork \/ SynchronizeSched
    PROVE  SessionInv'
<1> USE SessionAssumption DEF SessionInv, MainType, SideType, FlowInv,
   StateInv, GlobalsInv, WorkerInv, ArmedInv, SlotInv, Running, Passed,
   Outlasts, NotYet, InInit, Live, Torn, Quiet, Flushed, OutPath, NeverUp,
   Final, mainvars, probevars, workvars, histvars
<1>1. CASE BeProbeReturns
  BY <1>1 DEF BeProbeReturns, Jump
<1>2. CASE FlushScheduledWork
  BY <1>2, AsyncAssumption DEF FlushScheduledWork, Jump, InReadSide
<1>3. CASE SynchronizeSched
  BY <1>3 DEF SynchronizeSched, Jump
<1> HIDE DEF SessionInv, MainType, SideType, FlowInv, StateInv, GlobalsInv,
   WorkerInv, ArmedInv, SlotInv, Running, Passed, Outlasts, NotYet, InInit,
   Live, Torn, Quiet, Flushed, OutPath, NeverUp, Final, mainvars, probevars,
   workvars, histvars
<1> QED
  BY <1>1, <1>2, <1>3

(* The refresh worker and its timer.                                        *)
LEMMA RefreshInv ==
    ASSUME SessionInv, RefreshTick \/ Refresh
    PROVE  SessionInv'
<1> USE SessionAssumption DEF SessionInv, MainType, SideType, FlowInv,
   StateInv, GlobalsInv, WorkerInv, ArmedInv, SlotInv, Running, Passed,
   Outlasts, NotYet, InInit, Live, Torn, Quiet, Flushed, OutPath, NeverUp,
   Final, mainvars, probevars, workvars, histvars
<1>1. CASE RefreshTick
  <2> HIDE DEF MainType, SideType, FlowInv, StateInv, GlobalsInv, WorkerInv,
     ArmedInv, SlotInv, Running, Passed, Outlasts, NotYet, InInit, Live, Torn,
     Quiet, Flushed, OutPath, NeverUp, Final, mainvars, probevars, workvars,
     histvars
  <2>1. MainType'
    BY <1>1 DEF RefreshTick, MainType, mainvars
  <2>2. SideType'
    BY <1>1 DEF RefreshTick, SideType, probevars, workvars, histvars
  <2>3. FlowInv'
    BY <1>1 DEF RefreshTick, FlowInv, NotYet, Torn, OutPath, mainvars
  <2>4. StateInv' /\ GlobalsInv'
    BY <1>1 DEF RefreshTick, StateInv, GlobalsInv, FlowInv, NotYet, Torn,
       OutPath, NeverUp, InInit, Final, mainvars
  <2>5. WorkerInv'
    BY <1>1 DEF RefreshTick, WorkerInv, FlowInv, StateInv, NotYet, Torn,
       OutPath, NeverUp, InInit, Live, Flushed, Final, workvars, mainvars
  <2>6. ArmedInv'
    BY <1>1 DEF RefreshTick, ArmedInv, FlowInv, NotYet, Torn, probevars,
       mainvars
  <2>7. SlotInv'
    BY <1>1 DEF RefreshTick, SlotInv, Running, Passed, Outlasts, FlowInv,
       SideType, StateInv, Final, NotYet, Torn, Quiet, NeverUp, InInit,
       mainvars
  <2> QED
    BY <2>1, <2>2, <2>3, <2>4, <2>5, <2>6, <2>7
<1>2. CASE RefreshStart
  <2> HIDE DEF MainType, SideType, FlowInv, StateInv, GlobalsInv, WorkerInv,
     ArmedInv, SlotInv, Running, Passed, Outlasts, NotYet, InInit, Live, Torn,
     Quiet, Flushed, OutPath, NeverUp, Final, mainvars, probevars, workvars,
     histvars
  <2>1. MainType'
    BY <1>2 DEF RefreshStart, MainType, mainvars
  <2>2. SideType'
    BY <1>2 DEF RefreshStart, SideType, probevars, workvars, histvars
  <2>3. FlowInv'
    BY <1>2 DEF RefreshStart, FlowInv, NotYet, Torn, OutPath, mainvars
  <2>4. StateInv' /\ GlobalsInv'
    BY <1>2 DEF RefreshStart, StateInv, GlobalsInv, FlowInv, NotYet, Torn,
       OutPath, NeverUp, InInit, Final, mainvars
  <2>5. WorkerInv'
    BY <1>2 DEF RefreshStart, WorkerInv, FlowInv, StateInv, NotYet, Torn,
       OutPath, NeverUp, InInit, Live, Flushed, Final, workvars, mainvars
  <2>6. ArmedInv'
    BY <1>2 DEF RefreshStart, ArmedInv, FlowInv, NotYet, Torn, probevars,
       mainvars
  <2>7. SlotInv'
    BY <1>2 DEF RefreshStart, SlotInv, Running, Passed, Outlasts, FlowInv,
       SideType, StateInv, Final, NotYet, Torn, Quiet, NeverUp, InInit,
       mainvars
  <2> QED
    BY <2>1, <2>2, <2>3, <2>4, <2>5, <2>6, <2>7
<1>3. CASE RefreshLock
  BY <1>3 DEF RefreshLock
<1>4. CASE RefreshCheck
  BY <1>4 DEF RefreshCheck
<1>5. CASE RefreshGroup
  BY <1>5 DEF RefreshGroup, Groups
<1>6. CASE RefreshUnlock
  BY <1>6 DEF RefreshUnlock
<1> HIDE DEF SessionInv, MainType, SideType, FlowInv, StateInv, GlobalsInv,
   WorkerInv, ArmedInv, SlotInv, Running, Passed, Outlasts, NotYet, InInit,
   Live, Torn, Quiet, Flushed, OutPath, NeverUp, Final, mainvars, probevars,
   workvars, histvars
<1> QED
  BY <1>1, <1>2, <1>3, <1>4, <1>5, <1>6 DEF Refresh

----------------------------------------------------------------------------
(* What a step of a handler may do: it moves its own actor, may end the
   session, may leave the read-side section on its way out, and may queue a
   refresh if it runs the body of a safe probe.                             *)
HandlerEffect(a) ==
    /\ UNCHANGED <<globals, pc, ret, gi, failed, armed, enabled, tick, wpc, wgi, mutex>>
    /\ hpc[a] # "idle"
    /\ \A b \in Actors \ {a} : hpc'[b] = hpc[b]
    /\ gp' = gp \/ (gp' = gp \ {a} /\ hpc'[a] = "idle")
    /\ session_state' \in {session_state, "STOPPING", "ERROR"}
    /\ hpc'[a] \in {"get", "body"} =>
         hpc[a] \in {"get", "body"} \/ session_state \in Expected(a)
    /\ hpc'[a] \in Passed =>
         hpc[a] \in Passed \/ session_state \in Expected(a) \cup {"RUNNING"}
    /\ work' => work \/ (a \in Slots /\ GroupOf[a] \in SafeGroups /\ hpc[a] = "body")

(* A handler keeps the types.                                               *)
LEMMA HandlerTypes ==
    ASSUME SideType, NEW a \in Actors, Handler(a)
    PROVE  SideType'
<1> USE DEF SideType, probevars, workvars, histvars, Goto
<1>1. CASE LowStack(a) 
  BY <1>1 DEF LowStack, CountSkip
<1>2. CASE CheckState(a)
  BY <1>2 DEF CheckState
<1>3. CASE GetContext(a)
  BY <1>3 DEF GetContext, NoContext, CountSkip
<1>4. CASE GotContext(a)
  BY <1>4 DEF GotContext, NoContext, CountSkip
<1>5. CASE BodyPlain(a)
  BY <1>5 DEF BodyPlain, Body, ScheduleRefresh, RanBy, BeProbe
<1>6. CASE BodyExit(a)
  BY <1>6 DEF BodyExit, Body, ScheduleRefresh, RanBy, BeProbe
<1>7. CASE BodyError(a)
  BY <1>7 DEF BodyError, Body, ScheduleRefresh, RanBy, BeProbe
<1>8. CASE BodySkipped(a)
  BY <1>8 DEF BodySkipped, Body, ScheduleRefresh, CountSkip
<1>9. ASSUME NEW g \in Groups, BodyCondition(a, g) PROVE SideType'
  BY <1>9 DEF BodyCondition, Body, ScheduleRefresh, RanBy, BeProbe
<1>10. CASE EpilogueError(a)
  BY <1>10 DEF EpilogueError, RecordError
<1>11. CASE SkippedTooMany(a)
  BY <1>11 DEF SkippedTooMany
<1>12. CASE SkippedSetError(a)
  BY <1>12 DEF SkippedSetError, RecordError
<1>13. CASE PutContext(a)
  BY <1>13 DEF PutContext, Leave
<1> QED
  BY <1>1, <1>2, <1>3, <1>4, <1>5, <1>6, <1>7, <1>8, <1>9, <1>10, <1>11,
     <1>12, <1>13 DEF Handler

(* Every step of a handler has this effect.                                 *)
LEMMA HandlerDoes ==
    ASSUME SideType, NEW a \in Actors, Handler(a)
    PROVE  HandlerEffect(a)
<1>0. hpc \in [Actors -> {"idle", "check", "get", "body", "error",
                           "epilogue", "cmpxchg", "put"}]
  BY DEF SideType
<1> USE <1>0, SessionAssumption DEF HandlerEffect, Passed, mainvars, probevars, workvars, Goto
<1>1. CASE LowStack(a) 
  BY <1>1 DEF LowStack
<1>2. CASE CheckState(a)
  BY <1>2 DEF CheckState
<1>3. CASE GetContext(a)
  BY <1>3 DEF GetContext, NoContext
<1>4. CASE GotContext(a)
  BY <1>4 DEF GotContext, NoContext
<1>5. CASE BodyPlain(a)
  BY <1>5 DEF BodyPlain, Body, ScheduleRefresh
<1>6. CASE BodyExit(a)
  BY <1>6 DEF BodyExit, Body, ScheduleRefresh
<1>7. CASE BodyError(a)
  BY <1>7 DEF BodyError, Body, ScheduleRefresh
<1>8. CASE BodySkipped(a)
  BY <1>8 DEF BodySkipped, Body, ScheduleRefresh
<1>9. ASSUME NEW g \in Groups, BodyCondition(a, g) PROVE HandlerEffect(a)
  BY <1>9 DEF BodyCondition, Body, ScheduleRefresh
<1>10. CASE EpilogueError(a)
  BY <1>10 DEF EpilogueError
<1>11. CASE SkippedTooMany(a)
  BY <1>11 DEF SkippedTooMany, TooManySkipped
<1>12. CASE SkippedSetError(a)
  BY <1>12 DEF SkippedSetError
<1>13. CASE PutContext(a)
  BY <1>13 DEF PutContext, Leave
<1> HIDE DEF HandlerEffect
<1> QED
  BY <1>1, <1>2, <1>3, <1>4, <1>5, <1>6, <1>7, <1>8, <1>9, <1>10, <1>11,
     <1>12, <1>13 DEF Handler

(* Handlers keep the invariant: a safe probe queues no refresh before the
   session is up or after the last flush, and none passes the prologue's test
   once the session is ending.                                              *)
LEMMA HandlerKeeps ==
    ASSUME SessionInv, NEW a \in Actors, Handler(a)
    PROVE  SessionInv'
<1>0. HandlerEffect(a) /\ SideType' /\ MainType
  BY HandlerDoes, HandlerTypes DEF SessionInv
<1>1. MainType'
  BY <1>0 DEF MainType, HandlerEffect, SessionStates
<1>2. hpc[Main] # "idle" => pc = "be"
  BY DEF SessionInv, FlowInv
<1>3. hpc'[Main] # "idle" => pc = "be"
  BY <1>0, <1>2, SessionAssumption DEF HandlerEffect
<1>4. FlowInv'
  BY <1>0, <1>3 DEF SessionInv, FlowInv, HandlerEffect, NotYet, Torn, OutPath
<1>5. StateInv'
  BY <1>0 DEF SessionInv, StateInv, HandlerEffect, NotYet, InInit, NeverUp, Final
<1>6. GlobalsInv' /\ ArmedInv'
  BY <1>0 DEF SessionInv, GlobalsInv, ArmedInv, HandlerEffect, NotYet, Torn, OutPath
<1>7. WorkerInv'
  <2>1. ASSUME NeverUp \/ Flushed, work' PROVE FALSE
    <3>1. ~ work
      BY <2>1 DEF SessionInv, WorkerInv
    <3>2. a \in Slots /\ GroupOf[a] \in SafeGroups /\ hpc[a] = "body"
      BY <1>0, <2>1, <3>1 DEF HandlerEffect
    <3>3. GroupOf[a] \notin EarlyGroups
      BY <3>2, SessionAssumption
    <3>4. CASE NeverUp
      BY <3>2, <3>3, <3>4 DEF SessionInv, SlotInv
    <3>5. CASE Flushed
      BY <3>2, <3>5 DEF SessionInv, SlotInv, Running, Flushed, Quiet
    <3> QED
      BY <2>1, <3>4, <3>5
  <2> QED
    BY <1>0, <2>1 DEF SessionInv, WorkerInv, HandlerEffect, NotYet, InInit, NeverUp, Live, Flushed
<1>8. SlotInv'
  <2> SUFFICES ASSUME NEW b \in Slots
               PROVE  /\ hpc'[b] # "idle" => Running(b)'
                      /\ NeverUp' /\ GroupOf[b] \notin EarlyGroups =>
                           hpc'[b] \notin {"get", "body"}
                      /\ ~ failed' /\ GroupOf[b] \in AsyncGroups
                           /\ hpc'[b] \in Passed => Outlasts(b)'
    BY DEF SlotInv
  <2>0. b \in Actors /\ b # Main /\ NeverUp' = NeverUp
    BY <1>0, SessionAssumption DEF HandlerEffect, NeverUp, InInit, NotYet
  <2>1. hpc'[b] # "idle" => hpc[b] # "idle" /\ (b \in gp => b \in gp')
    BY <1>0, <2>0 DEF HandlerEffect
  <2>2. hpc'[b] # "idle" => Running(b)'
    BY <1>0, <2>1 DEF SessionInv, SlotInv, Running, HandlerEffect, NotYet, Quiet, Torn
  <2>3. ASSUME NeverUp, GroupOf[b] \notin EarlyGroups, hpc'[b] \in {"get", "body"}
        PROVE  FALSE
    <3>1. hpc[b] \notin {"get", "body"}
      BY <2>3 DEF SessionInv, SlotInv
    <3>2. b = a
      BY <1>0, <2>0, <2>3, <3>1 DEF HandlerEffect
    <3>3. session_state \in Expected(b)
      BY <1>0, <2>3, <3>1, <3>2 DEF HandlerEffect
    <3>4. session_state = "RUNNING"
      BY <2>0, <2>3, <3>3 DEF Expected
    <3> QED
      BY <2>3, <3>4 DEF SessionInv, StateInv
  <2>4. ASSUME ~ failed, GroupOf[b] \in AsyncGroups, hpc'[b] \in Passed
        PROVE  Outlasts(b)'
    <3>1. hpc'[b] # "idle" /\ hpc[b] # "idle"
      BY <2>1, <2>4 DEF Passed
    <3>2. CASE hpc[b] \in Passed
      BY <1>0, <2>1, <2>4, <3>1, <3>2
         DEF SessionInv, SlotInv, Outlasts, HandlerEffect, Torn
    <3>3. CASE hpc[b] \notin Passed
      <4>1. b = a
        BY <1>0, <2>0, <2>4, <3>3 DEF HandlerEffect
      <4>2. session_state = "RUNNING"
        BY <1>0, <2>0, <2>4, <3>3, <4>1, AsyncAssumption DEF HandlerEffect, Expected
      <4>3. InInit \/ pc \in {"post", "up", "set_stopping"}
        BY <2>4, <4>2 DEF SessionInv, StateInv, Final
      <4> QED
        BY <1>0, <4>3
           DEF Outlasts, HandlerEffect, InInit, NotYet, Torn
    <3> QED
      BY <3>2, <3>3
  <2> QED
    BY <1>0, <2>0, <2>2, <2>3, <2>4 DEF HandlerEffect
<1> QED
  BY <1>0, <1>1, <1>4, <1>5, <1>6, <1>7, <1>8 DEF SessionInv

(* A probe fires only if its group is armed, and then it may run.           *)
LEMMA EnterKeeps ==
    ASSUME SessionInv, NEW a \in Actors, Enter(a) \/ EnterTimer(a)
    PROVE  SessionInv'
<1>0. PICK l \in {"check", "get"} : 
        /\ hpc' = [hpc EXCEPT ![a] = l] /\ hpc[a] = "idle"
        /\ \/ a \in Slots /\ GroupOf[a] \in armed /\ l = "check"
           \/ a \in Timers
        /\ UNCHANGED <<ctxvars, session_state, globals, mainvars, probevars,
                   workvars, skipped, histvars>>
  BY DEF Enter, EnterTimer, Goto
<1>1. MainType' /\ SideType'
  BY <1>0 DEF SessionInv, MainType, SideType, mainvars, probevars, workvars, histvars
<1>2. hpc'[Main] = hpc[Main]
  BY <1>0, SessionAssumption
<1>3. FlowInv' /\ StateInv' /\ GlobalsInv' /\ ArmedInv'
  BY <1>0, <1>2 DEF SessionInv, FlowInv, StateInv, GlobalsInv, ArmedInv, mainvars, probevars, NotYet, Torn, OutPath, InInit, NeverUp, Final
<1>4. WorkerInv'
  BY <1>0 DEF SessionInv, WorkerInv, mainvars, workvars, NotYet, InInit, NeverUp, Live, Flushed
<1>5. SlotInv'
  <2> SUFFICES ASSUME NEW b \in Slots
               PROVE  /\ hpc'[b] # "idle" => Running(b)'
                      /\ NeverUp' /\ GroupOf[b] \notin EarlyGroups =>
                           hpc'[b] \notin {"get", "body"}
                      /\ ~ failed' /\ GroupOf[b] \in AsyncGroups
                           /\ hpc'[b] \in Passed => Outlasts(b)'
    BY DEF SlotInv
  <2>0. b \in Actors /\ NeverUp' = NeverUp /\ Running(b)' = Running(b)
        /\ failed' = failed /\ Outlasts(b)' = Outlasts(b)
        /\ hpc \in [Actors -> {"idle", "check", "get", "body", "error",
                           "epilogue", "cmpxchg", "put"}]
    BY <1>0, SessionAssumption DEF mainvars, NeverUp, InInit, NotYet, Running, Outlasts, Quiet,
           Torn, SessionInv, SideType
  <2>1. CASE b = a
    <3>1. hpc'[b] = "check" /\ GroupOf[b] \in armed
      BY <1>0, <2>0, <2>1, SessionAssumption
    <3>2. Running(b)
      BY <3>1, SessionAssumption DEF SessionInv, ArmedInv, FlowInv, MainType, Running, NotYet, Quiet, Torn, Groups
    <3> QED
      BY <2>0, <3>1, <3>2 DEF Passed
  <2>2. CASE b # a
    BY <1>0, <2>0, <2>2 DEF SessionInv, SlotInv
  <2> QED
    BY <2>1, <2>2
<1> QED
  BY <1>1, <1>3, <1>4, <1>5 DEF SessionInv

----------------------------------------------------------------------------
(* Every step keeps the invariant.                                          *)
LEMMA StepInv == SessionInv /\ [Next]_vars => SessionInv'
<1> SUFFICES ASSUME SessionInv, [Next]_vars PROVE SessionInv'
  OBVIOUS
<1>1. CASE MainStep
  BY <1>1, ModuleInitInv, ModuleExitInv, SubroutineInv DEF MainStep
<1>2. CASE \E a \in Actors : Enter(a) \/ EnterTimer(a) \/ Handler(a)
  BY <1>2, EnterKeeps, HandlerKeeps
<1>3. CASE RefreshTick \/ Refresh
  BY <1>3, RefreshInv
<1>4. CASE Unloadable \/ UNCHANGED vars
  <2>0. UNCHANGED <<session_state, globals, mainvars, probevars, hpc, workvars,
                    skipped, histvars>>
    BY <1>4 DEF Unloadable, vars
  <2>1. MainType'
    BY <2>0 DEF SessionInv, MainType, mainvars
  <2>2. SideType'
    BY <2>0 DEF SessionInv, SideType, probevars, workvars, histvars
  <2>3. FlowInv'
    BY <2>0 DEF SessionInv, FlowInv, NotYet, Torn, OutPath, mainvars
  <2>4. StateInv' /\ GlobalsInv'
    BY <2>0 DEF SessionInv, StateInv, GlobalsInv, FlowInv, NotYet, Torn,
       OutPath, NeverUp, InInit, Final, mainvars
  <2>5. WorkerInv'
    BY <2>0 DEF SessionInv, WorkerInv, FlowInv, StateInv, NotYet, Torn,
       OutPath, NeverUp, InInit, Live, Flushed, Final, workvars, mainvars
  <2>6. ArmedInv'
    BY <2>0 DEF SessionInv, ArmedInv, FlowInv, NotYet, Torn, probevars,
       mainvars
  <2>7. SlotInv'
    BY <2>0 DEF SessionInv, SlotInv, Running, Passed, Outlasts, FlowInv,
       SideType, StateInv, Final, NotYet, Torn, Quiet, NeverUp, InInit,
       mainvars
  <2> QED
    BY <2>1, <2>2, <2>3, <2>4, <2>5, <2>6, <2>7 DEF SessionInv
<1> QED
  BY <1>1, <1>2, <1>3, <1>4 DEF Next

(* The phases of a session, for any number of groups and handlers.          *)
THEOREM SessionInvariant == Spec => []SessionInv
BY InitInv, StepInv, PTL DEF Spec

(* Every variable keeps its type.                                           *)
THEOREM SessionTypes == Spec => []TypeOK
<1>1. SessionInv /\ CtxInv => TypeOK
  BY DEF SessionInv, MainType, SideType, CtxInv, TypeOK
<1> QED
  BY <1>1, SessionInvariant, SessionImplementsContexts, ContextInvariant, PTL

(* No script code runs on globals that are not there, on the way up, on the
   way down or on the way out of a systemtap_module_init that failed.       *)
THEOREM GlobalsAlwaysThere == Spec => []GlobalsSafe
<1>1. SessionInv => GlobalsSafe
  <2> SUFFICES ASSUME SessionInv, NEW a \in Actors, InBody(a)
               PROVE  globals = "live"
    BY DEF GlobalsSafe
  <2>1. CASE a = Main
    BY <2>1 DEF InBody, SessionInv, FlowInv, GlobalsInv, OutPath
  <2>2. CASE a \in Slots
    <3>1. hpc[a] = "body" /\ Running(a)
      BY <2>2 DEF InBody, SessionInv, SlotInv
    <3>2. CASE OutPath
      <4>1. failed /\ GroupOf[a] \in AsyncGroups
        BY <3>1, <3>2 DEF SessionInv, FlowInv, Running, OutPath, Torn
      <4>2. GroupOf[a] \notin EarlyGroups
        BY <4>1, AsyncAssumption
      <4> QED
        BY <2>2, <3>1, <4>1, <4>2 DEF SessionInv, SlotInv, NeverUp
    <3>3. CASE ~ OutPath
      BY <3>1, <3>3 DEF SessionInv, GlobalsInv, Running, NotYet, Quiet
    <3> QED
      BY <3>2, <3>3
  <2> QED
    BY <2>1, <2>2, SessionAssumption DEF InBody
<1> QED
  BY <1>1, SessionInvariant, PTL

(* begin, end and error probes, which take no locks, run alone.             *)
THEOREM BeProbesAlone == Spec => []BeProbesRunAlone
<1>1. SessionInv => BeProbesRunAlone
  <2> SUFFICES ASSUME SessionInv, InBody(Main), NEW a \in Slots, InBody(a)
               PROVE  FALSE
    BY DEF BeProbesRunAlone
  <2>1. pc = "be" /\ hpc[a] = "body" /\ Running(a)
    BY DEF InBody, SessionInv, FlowInv, SlotInv
  <2>2. Torn /\ GroupOf[a] \in AsyncGroups /\ GroupOf[a] \notin EarlyGroups
    BY <2>1, AsyncAssumption DEF Running, NotYet, Torn
  <2>3. CASE failed
    BY <2>1, <2>2, <2>3 DEF SessionInv, SlotInv, NeverUp
  <2>4. CASE ~ failed
    BY <2>1, <2>2, <2>4 DEF SessionInv, SlotInv, Passed, Outlasts
  <2> QED
    BY <2>3, <2>4
<1> QED
  BY <1>1, SessionInvariant, PTL

(* When systemtap_module_exit has returned, or systemtap_module_init has
   failed, nothing can enter the module's text again.                       *)
THEOREM LeavesNothing == Spec => []NothingLeftBehind
<1>1. SessionInv => NothingLeftBehind
  <2> SUFFICES ASSUME SessionInv, pc = "done"
               PROVE  /\ armed = {}
                      /\ ~ work /\ wpc = "idle" /\ mutex # "worker"
                      /\ \A a \in Slots : hpc[a] = "idle"
    BY DEF NothingLeftBehind
  <2>1. Torn /\ Quiet /\ Flushed
    BY DEF Torn, Quiet, Flushed
  <2>2. armed = {}
    BY <2>1 DEF SessionInv, ArmedInv
  <2>3. ~ work /\ wpc = "idle" /\ mutex # "worker"
    BY <2>1 DEF SessionInv, WorkerInv
  <2>4. \A a \in Slots : hpc[a] = "idle"
    BY <2>1 DEF SessionInv, SlotInv, Running
  <2> QED
    BY <2>2, <2>3, <2>4
<1> QED
  BY <1>1, SessionInvariant, PTL

----------------------------------------------------------------------------
(* For the end and error probes: where each handler, and Main in
   _stp_runtime_context_wait, is between trylock and unlock, ...            *)
HandlerCtx(a) ==
    /\ hpc[a] = "check" => cpc[a] = "out"
    /\ hpc[a] = "get" => cpc[a] \in {"out", "locked"}
    /\ hpc[a] \in {"body", "error"} => cpc[a] = "held"
    /\ hpc[a] \in {"epilogue", "cmpxchg"} => cpc[a] \in {"out", "held"}
    /\ hpc[a] = "put" => cpc[a] \in {"out", "held", "unlock"}
    /\ hpc[a] = "idle" =>
         cpc[a] = "out" \/ (a = Main /\ pc = "scan" /\ cpc[a] = "scan")

TimerPlaces == \A a \in Timers : hpc[a] \in {"idle", "get", "epilogue", "put"}

(* ... the contexts, which are all there from their allocation until
   systemtap_module_exit frees them, ...                                    *)
ContextsThere ==
    /\ ~ failed /\ pc \notin {"load", "alloc"} =>
         \A p \in CPUs : contexts[p] # "null"
    /\ busy_ctr = INT_MAX => pc \in {"vfree", "done"}

HandlersInv == (\A a \in Actors : HandlerCtx(a)) /\ TimerPlaces /\ ContextsThere

(* ... and what has been decided: an end probe that has not run found the
   session in error, and then the error probes run.                         *)
Decided == ran # {} \/ session_state = "ERROR"
Past == {"idle", "error", "epilogue", "cmpxchg", "put"}

FinalRun == ~ failed =>
    /\ session_state = "STOPPED" => Flushed \/ (pc = "flush" /\ ret = "fini")
    /\ pc = "be" /\ ret = "error" =>
         /\ hpc[Main] = "get" => session_state = "STOPPING"
         /\ hpc[Main] \in Past => Decided
    /\ pc = "error" => Decided
    /\ pc = "be" /\ ret = "be_exited" =>
         /\ hpc[Main] = "check" => Decided
         /\ hpc[Main] \in Past => ran # {}
    /\ pc = "be_exited" \/ Quiet \/ (pc \in {"flush", "gp"} /\ ret = "wait") =>
         ran # {}

FinalInv == SessionInv /\ CtxInv /\ HandlersInv /\ FinalRun

----------------------------------------------------------------------------
(* The steps of a handler on its context.                                   *)
LEMMA HandlerCtxKept ==
    ASSUME FinalInv, CtxInv', NEW a \in Actors, Handler(a)
    PROVE  HandlersInv'
<1>0. /\ hpc \in [Actors -> {"idle", "check", "get", "body", "error",
                              "epilogue", "cmpxchg", "put"}]
      /\ cpc \in [Actors -> CtxStates] /\ busy_ctr \in 0 .. INT_MAX
      /\ HandlerCtx(a) /\ TimerPlaces /\ INT_MAX \in Nat
      /\ hpc[a] # "idle" /\ UNCHANGED <<pc, failed>>
      /\ a = Main => pc = "be"
  BY HandlerDoes, IntMaxAssumption
     DEF FinalInv, SessionInv, SideType, FlowInv, CtxInv, CtxTypeOK,
         HandlersInv, HandlerEffect
<1> DEFINE Moves == /\ contexts' = contexts
                    /\ \A b \in Actors \ {a} : hpc'[b] = hpc[b] /\ cpc'[b] = cpc[b]
                    /\ HandlerCtx(a)' /\ TimerPlaces'
                    /\ busy_ctr' \in {busy_ctr, busy_ctr - 1} \/ cpc'[a] = "locked"
<1>1. Moves
  <2> USE <1>0, SessionAssumption DEF HandlerCtx, TimerPlaces, Goto, ctxvars
  <2>1. CASE LowStack(a)
    BY <2>1 DEF LowStack
  <2>2. CASE CheckState(a)
    BY <2>2 DEF CheckState
  <2>3. CASE GetContext(a)
    BY <2>3 DEF GetContext, NoContext, stp_runtime_context_trylock
  <2>4. CASE GotContext(a)
    BY <2>4 DEF GotContext, NoContext, TakeContext, RefuseContext
  <2>5. CASE BodyPlain(a)
    BY <2>5 DEF BodyPlain, Body
  <2>6. CASE BodyExit(a)
    BY <2>6 DEF BodyExit, Body
  <2>7. CASE BodyError(a)
    BY <2>7 DEF BodyError, Body
  <2>8. CASE BodySkipped(a)
    BY <2>8 DEF BodySkipped, Body
  <2>9. ASSUME NEW g \in Groups, BodyCondition(a, g) PROVE Moves
    BY <2>9 DEF BodyCondition, Body
  <2>10. CASE EpilogueError(a)
    BY <2>10 DEF EpilogueError
  <2>11. CASE SkippedTooMany(a)
    BY <2>11 DEF SkippedTooMany, TooManySkipped
  <2>12. CASE SkippedSetError(a)
    BY <2>12 DEF SkippedSetError
  <2>13. CASE PutContext(a)
    BY <2>13 DEF PutContext, Leave, stp_runtime_entryfn_put_context,
                 stp_runtime_context_unlock
  <2> HIDE DEF Moves
  <2> QED
    BY <2>1, <2>2, <2>3, <2>4, <2>5, <2>6, <2>7, <2>8, <2>9, <2>10, <2>11,
       <2>12, <2>13 DEF Handler
<1>2. \A b \in Actors : HandlerCtx(b)'
  BY <1>0, <1>1 DEF FinalInv, HandlersInv, HandlerCtx
<1>3. busy_ctr' = INT_MAX => busy_ctr = INT_MAX
  <2>1. CASE cpc'[a] = "locked"
    BY <2>1 DEF CtxInv, BusyCtrCounts, Lockers
  <2>2. CASE cpc'[a] # "locked"
    BY <1>0, <1>1, <2>2
  <2> QED
    BY <2>1, <2>2
<1>4. ContextsThere'
  BY <1>0, <1>1, <1>3 DEF FinalInv, HandlersInv, ContextsThere
<1> QED
  BY <1>1, <1>2, <1>4 DEF HandlersInv

(* While Main is in the end and error probes nobody else moves the session
   state: what the groups have not waited for did not pass the prologue.    *)
LEMMA OthersKeep ==
    ASSUME FinalInv, NEW a \in Actors, a # Main, Handler(a), Torn, ~ failed
    PROVE  UNCHANGED <<session_state, ran>>
<1>1. hpc[a] \notin {"body", "error", "cmpxchg"}
  <2>1. CASE a \in Slots
    BY <2>1, HandlerDoes
       DEF FinalInv, SessionInv, SlotInv, Running, Passed, Outlasts, HandlerEffect
  <2>2. CASE a \in Timers
    BY <2>2 DEF FinalInv, HandlersInv, TimerPlaces
  <2> QED
    BY <2>1, <2>2, SessionAssumption
<1> QED
  BY <1>1
     DEF Handler, LowStack, CheckState, GetContext, GotContext, BodyPlain,
         BodyExit, BodyError, BodySkipped, BodyCondition, Body, EpilogueError,
         SkippedTooMany, SkippedSetError, PutContext, histvars

(* Main finds a context for its be probes: they are there, and whoever used
   the one of its cpu has given it back before Main could go on.            *)
LEMMA MainGetsContext ==
    ASSUME FinalInv, CanRun(Main), cpc[Main] # "held"
    PROVE  busy[CpuOf[Main]] = 0
<1> SUFFICES ASSUME busy[CpuOf[Main]] # 0 PROVE FALSE
  OBVIOUS
<1>0. Main \in Actors /\ LevelOf[Main] = 0 /\ LevelOf \in [Actors -> Nat]
  BY SessionAssumption
<1>1. busy[CpuOf[Main]] = 1 /\ CpuOf[Main] \in CPUs
  BY <1>0, CpuOfAssumption DEF FinalInv, CtxInv, CtxTypeOK
<1>2. PICK b \in Actors : cpc[b] = "held" /\ CpuOf[b] = CpuOf[Main]
  BY <1>1 DEF FinalInv, CtxInv, OneHolderPerCpu
<1>3. b # Main
  BY <1>2
<1>4. CASE LevelOf[b] = 0
  BY <1>0, <1>2, <1>3, <1>4 DEF CanRun
<1>5. CASE LevelOf[b] > 0
  <2>1. hpc[b] = "idle"
    BY <1>0, <1>2, <1>3, <1>5 DEF CanRun
  <2> QED
    BY <1>2, <1>3, <2>1 DEF FinalInv, HandlersInv, HandlerCtx
<1> QED
  BY <1>0, <1>4, <1>5

(* The be probes of systemtap_module_exit.                                  *)
LEMMA BeProbeFinal ==
    ASSUME FinalInv, Handler(Main)
    PROVE  FinalRun'
<1> SUFFICES ASSUME ~ failed' PROVE FinalRun'
  BY DEF FinalRun
<1>0. /\ hpc \in [Actors -> {"idle", "check", "get", "body", "error",
                              "epilogue", "cmpxchg", "put"}]
      /\ Main \in Actors /\ Main \notin Slots \cup Timers
      /\ pc = "be" /\ UNCHANGED <<pc, ret, failed>>
      /\ ret \in {"register", "error", "be_exited"}
      /\ CpuOf[Main] \in CPUs
  BY HandlerDoes, SessionAssumption, CpuOfAssumption
     DEF FinalInv, SessionInv, SideType, FlowInv, HandlerEffect
<1>1. ~ Flushed' /\ ~ Quiet' /\ pc' = "be"
  BY <1>0 DEF Flushed, Quiet
<1>2. session_state # "STOPPED" /\ (ret # "register" => session_state \in Final)
  BY <1>0 DEF FinalInv, FinalRun, Flushed, SessionInv, StateInv, InInit, NotYet
<1>3. session_state' # "STOPPED"
  BY <1>0, <1>2, HandlerDoes DEF FinalInv, SessionInv, HandlerEffect
<1> DEFINE Goal ==
      /\ ret = "error" =>
           /\ hpc'[Main] = "get" => session_state' = "STOPPING"
           /\ hpc'[Main] \in Past => Decided'
      /\ ret = "be_exited" =>
           /\ hpc'[Main] = "check" => Decided'
           /\ hpc'[Main] \in Past => ran' # {}
<1>4. ASSUME ret \in {"error", "be_exited"} PROVE Goal
  <2>1. /\ session_state \in {"STOPPING", "ERROR"}
        /\ ret = "error" /\ hpc[Main] = "get" => session_state = "STOPPING"
        /\ ret = "error" /\ hpc[Main] \in Past => Decided
        /\ ret = "be_exited" /\ hpc[Main] = "check" => Decided
        /\ ret = "be_exited" /\ hpc[Main] \in Past => ran # {}
    BY <1>0, <1>2, <1>4 DEF FinalInv, FinalRun, Final
  <2>2. Expected(Main) = IF ret = "error" THEN {"STOPPING"} ELSE {"ERROR"}
    BY <1>4 DEF Expected, BeProbe
  <2>3. RanBy(Main) # {}
    BY <1>4 DEF RanBy, BeProbe
  <2> USE <1>0, <1>4, <2>1 DEF Past, Decided, Goto
  <2>4. CASE CheckState(Main)
    BY <2>2, <2>4 DEF CheckState, histvars
  <2>5. CASE GetContext(Main)
    <3>1. CanLock(Main)
      BY <2>5 DEF FinalInv, HandlersInv, ContextsThere, CanLock
    <3> QED
      BY <2>5, <3>1 DEF GetContext, histvars
  <2>6. CASE GotContext(Main)
    <3>1. busy[CpuOf[Main]] = 0
      BY <2>6, MainGetsContext DEF GotContext, TakeContext, RefuseContext
    <3>2. ~ RefuseContext(Main)
      BY <3>1 DEF RefuseContext
    <3> QED
      BY <2>6, <3>2 DEF GotContext, histvars
  <2>7. CASE BodyPlain(Main)
    BY <2>3, <2>7 DEF BodyPlain, Body
  <2>8. CASE BodyExit(Main)
    BY <2>3, <2>8 DEF BodyExit, Body
  <2>9. CASE BodyError(Main)
    BY <2>3, <2>9 DEF BodyError, Body
  <2>10. ASSUME NEW g \in Groups, BodyCondition(Main, g) PROVE Goal
    BY <2>3, <2>10 DEF BodyCondition, Body
  <2>11. CASE EpilogueError(Main)
    BY <2>11 DEF EpilogueError
  <2>12. CASE SkippedTooMany(Main)
    BY <2>12 DEF SkippedTooMany, histvars
  <2>13. CASE SkippedSetError(Main)
    BY <2>13 DEF SkippedSetError
  <2>14. CASE PutContext(Main)
    BY <2>14 DEF PutContext, Leave, histvars
  <2>15. ~ LowStack(Main) /\ ~ BodySkipped(Main)
    BY DEF LowStack, BodySkipped
  <2> HIDE DEF Goal
  <2> QED
    BY <2>4, <2>5, <2>6, <2>7, <2>8, <2>9, <2>10, <2>11, <2>12, <2>13, <2>14,
       <2>15 DEF Handler
<1> QED
  BY <1>0, <1>1, <1>3, <1>4 DEF FinalRun

(* The other handlers.                                                      *)
LEMMA OtherFinal ==
    ASSUME FinalInv, NEW a \in Actors, a # Main, Handler(a)
    PROVE  FinalRun'
<1> SUFFICES ASSUME ~ failed' PROVE FinalRun'
  BY DEF FinalRun
<1>0. /\ UNCHANGED <<pc, ret, failed>> /\ hpc'[Main] = hpc[Main]
      /\ session_state' \in {session_state, "STOPPING", "ERROR"}
  BY HandlerDoes, SessionAssumption DEF FinalInv, SessionInv, HandlerEffect
<1>1. CASE Torn
  <2>1. UNCHANGED <<session_state, ran>>
    BY <1>0, <1>1, OthersKeep
  <2> QED
    BY <1>0, <2>1 DEF FinalInv, FinalRun, Decided, Quiet, Flushed
<1>2. CASE ~ Torn
  BY <1>0, <1>2
     DEF FinalInv, FinalRun, Torn, Quiet, Flushed, SessionInv, FlowInv
<1> QED
  BY <1>1, <1>2

(* A probe or a timer begins.                                               *)
LEMMA EnterFinal ==
    ASSUME FinalInv, NEW a \in Actors, Enter(a) \/ EnterTimer(a)
    PROVE  HandlersInv' /\ FinalRun'
<1>0. /\ a # Main /\ hpc[a] = "idle"
      /\ hpc' = [hpc EXCEPT ![a] = IF a \in Timers THEN "get" ELSE "check"]
      /\ UNCHANGED <<ctxvars, pc, ret, failed, session_state, ran>>
  BY SessionAssumption DEF Enter, EnterTimer, Goto, mainvars, histvars
<1>1. /\ hpc \in [Actors -> {"idle", "check", "get", "body", "error",
                              "epilogue", "cmpxchg", "put"}]
      /\ Main \in Actors /\ Timers \subseteq Actors
  BY SessionAssumption DEF FinalInv, SessionInv, SideType
<1>2. \A b \in Actors : HandlerCtx(b)'
  BY <1>0, <1>1 DEF FinalInv, HandlersInv, HandlerCtx, ctxvars
<1>3. TimerPlaces' /\ ContextsThere'
  BY <1>0, <1>1
     DEF FinalInv, HandlersInv, TimerPlaces, ContextsThere, ctxvars
<1>4. hpc'[Main] = hpc[Main]
  BY <1>0, <1>1
<1>5. FinalRun'
  BY <1>0, <1>4 DEF FinalInv, FinalRun, Decided, Quiet, Flushed
<1> QED
  BY <1>2, <1>3, <1>5 DEF HandlersInv

(* The steps of systemtap_module_init and systemtap_module_exit leave the
   handlers and, but for four of them, the contexts alone.                  *)
LEMMA MainCtx ==
    ASSUME FinalInv, CtxInv', MainStep
    PROVE  HandlersInv'
<1>0. /\ hpc \in [Actors -> {"idle", "check", "get", "body", "error",
                              "epilogue", "cmpxchg", "put"}]
      /\ cpc \in [Actors -> CtxStates] /\ busy_ctr \in 0 .. INT_MAX
      /\ Main \in Actors /\ Main \notin Timers /\ INT_MAX \in Nat
      /\ hpc[Main] # "idle" => pc = "be"
      /\ \A a \in Actors : HandlerCtx(a)
      /\ TimerPlaces /\ ContextsThere
      /\ contexts \in [CPUs -> {"null", "live", "freed"}]
      /\ BusyCtrCounts
  BY SessionAssumption, IntMaxAssumption
     DEF FinalInv, SessionInv, SideType, FlowInv, CtxInv, CtxTypeOK, HandlersInv
<1> USE <1>0 DEF Jump, Call
<1>1. ASSUME UNCHANGED <<hpc, ctxvars>>, pc # "scan", pc' # "scan",
             pc' \in {"load", "alloc"} => pc' = pc,
             failed' \/ pc' \in {"load", "alloc"} \/ pc \notin {"load", "alloc"},
             failed => failed', pc \in {"vfree", "done"} => pc' \in {"vfree", "done"}
      PROVE  HandlersInv'
  BY <1>1 DEF HandlersInv, HandlerCtx, TimerPlaces, ContextsThere, ctxvars
<1>2. CASE \E p \in CPUs : InitContext(p)
  BY <1>2
     DEF InitContext, stp_runtime_contexts_alloc, HandlersInv, HandlerCtx,
         TimerPlaces, ContextsThere, mainvars
<1>3. CASE InitStarting
  BY <1>3
     DEF InitStarting, HandlersInv, HandlerCtx, TimerPlaces, ContextsThere,
         ctxvars
<1>4. CASE InitContextsDone
  BY <1>4
     DEF InitContextsDone, HandlersInv, HandlerCtx, TimerPlaces,
         ContextsThere, ctxvars
<1>5. CASE \/ InitBegin \/ ExitEnd \/ ExitError
  <2>1. /\ hpc[Main] = "idle" /\ hpc' = [hpc EXCEPT ![Main] = "check"]
        /\ pc \in {"begin", "unregister", "error"} /\ pc' = "be"
        /\ UNCHANGED <<ctxvars, failed>>
    BY <1>5 DEF InitBegin, ExitEnd, ExitError, EnterBeProbe, Goto
  <2>2. \A a \in Actors : HandlerCtx(a)'
    BY <2>1 DEF HandlerCtx, ctxvars
  <2>3. TimerPlaces'
    BY <2>1, SessionAssumption DEF TimerPlaces
  <2>4. ContextsThere'
    BY <2>1 DEF ContextsThere, ctxvars
  <2> QED
    BY <2>2, <2>3, <2>4 DEF HandlersInv
<1>6. CASE ExitWait
  <2>1. CASE CanLock(Main)
    <3>1. /\ cpc' = [cpc EXCEPT ![Main] = "scan"] /\ pc = "wait" /\ pc' = "scan"
          /\ UNCHANGED <<contexts, hpc, failed>>
      BY <1>6, <2>1
         DEF ExitWait, ContextWaitBegin, stp_runtime_context_trylock
    <3>2. busy_ctr' # INT_MAX
      BY <3>1 DEF CtxInv, BusyCtrCounts, Lockers
    <3>3. hpc[Main] = "idle"
      BY <3>1
    <3>4. \A a \in Actors : HandlerCtx(a)'
      BY <3>1, <3>3 DEF HandlerCtx
    <3>5. TimerPlaces' /\ ContextsThere'
      BY <3>1, <3>2 DEF TimerPlaces, ContextsThere
    <3> QED
      BY <3>4, <3>5 DEF HandlersInv
  <2>2. CASE ~ CanLock(Main)
    BY <1>1, <1>6, <2>2 DEF ExitWait
  <2> QED
    BY <2>1, <2>2
<1>7. CASE ExitScan
  BY <1>7
     DEF ExitScan, ContextWaitScan, ContextWaitEnd, HandlersInv, HandlerCtx,
         TimerPlaces, ContextsThere, ctxvars
<1>8. CASE ExitContexts
  BY <1>8
     DEF ExitContexts, CloseContexts, FreeContexts, HandlersInv, HandlerCtx,
         TimerPlaces, ContextsThere
<1>9. CASE \/ InitRefused \/ InitNoMemory \/ InitGlobals \/ RegisterGroup
           \/ RegisterOk \/ RegisterFails \/ InitFails \/ InitRunning
           \/ InitDone \/ OutGlobals \/ OutStopped
  BY <1>1, <1>9
     DEF InitRefused, InitNoMemory, InitGlobals, RegisterGroup, RegisterOk,
         RegisterFails, InitFails, InitRunning, InitDone, OutGlobals,
         OutStopped
<1>10. CASE \/ ExitTest \/ ExitSetStopping \/ ExitCancelTick \/ ExitLock
            \/ UnregisterGroup \/ UnregisterWait \/ ExitUnlock \/ ExitStopped
            \/ ExitGlobals
  BY <1>1, <1>10
     DEF ExitTest, ExitSetStopping, ExitCancelTick, ExitLock, UnregisterGroup,
         UnregisterWait, ExitUnlock, ExitStopped, ExitGlobals
<1>11. CASE BeProbeReturns \/ FlushScheduledWork \/ SynchronizeSched
  <2>1. pc = "be" => ret \in {"register", "error", "be_exited"}
    BY DEF FinalInv, SessionInv, FlowInv
  <2>2. pc \in {"flush", "gp"} => ret \in {"lock", "wait", "fini", "free"}
    BY DEF FinalInv, SessionInv, FlowInv
  <2> QED
    BY <1>1, <1>11, <2>1, <2>2
       DEF BeProbeReturns, FlushScheduledWork, SynchronizeSched
<1> QED
  BY <1>2, <1>3, <1>4, <1>5, <1>6, <1>7, <1>8, <1>9, <1>10, <1>11
     DEF MainStep, ModuleInit, ModuleExit

(* Main between its be probes.                                              *)
LEMMA MainFinal ==
    ASSUME FinalInv, MainStep
    PROVE  FinalRun'
<1>0. /\ hpc \in [Actors -> {"idle", "check", "get", "body", "error",
                              "epilogue", "cmpxchg", "put"}]
      /\ Main \in Actors /\ (hpc[Main] # "idle" => pc = "be")
      /\ FinalRun /\ FlowInv /\ StateInv /\ ran' = ran
  BY SessionAssumption
     DEF FinalInv, SessionInv, SideType, FlowInv, MainStep, ModuleInit,
         ModuleExit, InitRefused, InitStarting, InitContext, InitNoMemory,
         InitContextsDone, InitGlobals, InitBegin, EnterBeProbe,
         RegisterGroup, RegisterOk, RegisterFails, InitFails, InitRunning,
         InitDone, OutGlobals, OutStopped, ExitTest, ExitSetStopping,
         ExitCancelTick, ExitLock, UnregisterGroup, UnregisterWait, ExitEnd,
         ExitError, ExitUnlock, ExitWait, ExitScan, ExitStopped, ExitGlobals,
         ExitContexts, BeProbeReturns, FlushScheduledWork, SynchronizeSched,
         histvars
<1> USE <1>0 DEF Jump, Call, FinalRun, FlowInv, Quiet, Flushed, Decided, Past
<1>1. CASE \/ InitRefused \/ InitStarting \/ (\E p \in CPUs : InitContext(p))
           \/ InitNoMemory \/ InitContextsDone \/ InitGlobals
  BY <1>1
     DEF InitRefused, InitStarting, InitContext, InitNoMemory,
         InitContextsDone, InitGlobals, mainvars
<1>2. CASE InitBegin \/ ExitEnd
  BY <1>2 DEF InitBegin, ExitEnd, EnterBeProbe, Goto
<1>3. CASE \/ RegisterGroup \/ RegisterOk \/ RegisterFails \/ InitFails
           \/ InitRunning \/ InitDone
  BY <1>3
     DEF RegisterGroup, RegisterOk, RegisterFails, InitFails, InitRunning,
         InitDone
<1>4. CASE OutGlobals \/ OutStopped
  BY <1>4 DEF OutGlobals, OutStopped, OutPath
<1>5. CASE ExitTest
  <2>1. session_state # "STARTING"
    BY <1>5 DEF ExitTest, StateInv, Final
  <2> QED
    BY <1>5, <2>1 DEF ExitTest
<1>6. CASE \/ ExitSetStopping \/ ExitCancelTick \/ ExitLock
           \/ UnregisterGroup \/ UnregisterWait
  BY <1>6
     DEF ExitSetStopping, ExitCancelTick, ExitLock, UnregisterGroup,
         UnregisterWait
<1>7. CASE ExitError
  BY <1>7 DEF ExitError, EnterBeProbe, Goto
<1>8. CASE ExitUnlock
  BY <1>8 DEF ExitUnlock
<1>9. CASE \/ ExitWait \/ ExitScan \/ ExitStopped \/ ExitGlobals
           \/ ExitContexts
  BY <1>9 DEF ExitWait, ExitScan, ExitStopped, ExitGlobals, ExitContexts
<1>10. CASE BeProbeReturns
  BY <1>10 DEF BeProbeReturns
<1>11. CASE FlushScheduledWork
  BY <1>11 DEF FlushScheduledWork
<1>12. CASE SynchronizeSched
  BY <1>12 DEF SynchronizeSched, OutPath
<1> HIDE DEF FinalRun
<1> QED
  BY <1>1, <1>2, <1>3, <1>4, <1>5, <1>6, <1>7, <1>8, <1>9, <1>10, <1>11,
     <1>12 DEF MainStep, ModuleInit, ModuleExit

(* Every step keeps what the end and error probes rest on.                  *)
LEMMA StepFinal ==
    SessionInv /\ CtxInv /\ CtxInv' /\ HandlersInv /\ FinalRun /\ [Next]_vars
      => HandlersInv' /\ FinalRun'
<1> SUFFICES ASSUME FinalInv, CtxInv', [Next]_vars
             PROVE  HandlersInv' /\ FinalRun'
  BY DEF FinalInv
<1>1. CASE MainStep
  BY <1>1, MainCtx, MainFinal
<1>2. ASSUME NEW a \in Actors, Enter(a) \/ EnterTimer(a)
      PROVE  HandlersInv' /\ FinalRun'
  BY <1>2, EnterFinal
<1>3. ASSUME NEW a \in Actors, Handler(a)
      PROVE  HandlersInv' /\ FinalRun'
  BY <1>3, HandlerCtxKept, BeProbeFinal, OtherFinal
<1>4. CASE RefreshTick \/ Refresh \/ Unloadable \/ UNCHANGED vars
  <2>1. UNCHANGED <<ctxvars, pc, ret, failed, hpc, session_state, ran>>
    BY <1>4
       DEF RefreshTick, Refresh, RefreshStart, RefreshLock, RefreshCheck,
           RefreshGroup, RefreshUnlock, Unloadable, vars, mainvars, histvars
  <2>2. HandlersInv'
    BY <2>1
       DEF FinalInv, HandlersInv, HandlerCtx, TimerPlaces, ContextsThere,
           ctxvars
  <2>3. FinalRun'
    BY <2>1 DEF FinalInv, FinalRun, Decided, Quiet, Flushed
  <2> QED
    BY <2>2, <2>3
<1> QED
  BY <1>1, <1>2, <1>3, <1>4 DEF Next

(* At load there is nothing to decide.                                      *)
LEMMA InitFinal == Init => HandlersInv /\ FinalRun
<1> SUFFICES ASSUME Init PROVE HandlersInv /\ FinalRun
  OBVIOUS
<1>1. HandlersInv
  <2>1. Timers \subseteq Actors /\ INT_MAX # 0
    BY SessionAssumption, IntMaxAssumption, ActorsAssumption,
       FS_CardinalityType
  <2> QED
    BY <2>1
       DEF Init, CtxInit, HandlersInv, HandlerCtx, TimerPlaces, ContextsThere
<1>2. FinalRun
  BY DEF Init, FinalRun, Quiet
<1> QED
  BY <1>1, <1>2

(* A session that came up and was shut down has run its end probes, or after
   an error its error probes: whatever handlers are still under way when
   Main reaches them, they cannot turn the state from under both.           *)
THEOREM FinalProbesAlwaysRun == Spec => []FinalProbesRan
<1>1. SessionInv /\ FinalRun => FinalProbesRan
  BY DEF SessionInv, SideType, FinalRun, FinalProbesRan, Quiet
<1> QED
  BY <1>1, InitFinal, StepFinal, SessionInvariant, SessionImplementsContexts,
     ContextInvariant, PTL DEF Spec
=============================================================================
