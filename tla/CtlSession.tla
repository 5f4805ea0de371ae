----------------------------- MODULE CtlSession -----------------------------
(***************************************************************************)
(* The control channel between a loaded module and stapio: the module's    *)
(* command handlers and its control timer (runtime/transport/control.c and *)
(* transport.c) against stapio's main loop (staprun/mainloop.c) and the    *)
(* unloading staprun -d (staprun/staprun.c).                               *)
(*                                                                         *)
(* Clients are stapio processes, the one started with the module and those *)
(* a user attaches later with staprun -A.  What ProbeSession models in     *)
(* detail, systemtap_module_init and systemtap_module_exit, is one step    *)
(* here.  The message queue holds the four special messages, each of which *)
(* has one buffer set aside for it.                                        *)
(***************************************************************************)
EXTENDS Naturals, Sequences, SequencesExt

CONSTANTS
    Clients,
    MaxSignals          \* bound on the signals, all for one client

ASSUME CtlAssumption == MaxSignals \in Nat

VARIABLES
    module,             \* the module is loaded, or gone
    session,            \* what systemtap_module_init and _exit have done
    transport_state,    \* _stp_transport_state
    probes_started,     \* _stp_probes_started
    exit_flag,          \* _stp_exit_flag
    called,             \* the static of _stp_request_exit
    ready_q,            \* _stp_ctl_ready_q
    dropped,            \* history: a send found its special buffer in use
    attached,           \* _stp_ctl_attached
    timer,              \* _stp_ctl_work_timer
    bug,                \* BUG() was reached
    undercut,           \* history: a detach stopped the timer of the next client
    pc,                 \* each client
    ret,                \* where the write of STP_EXIT returns to
    goal,               \* why the client has the channel open
    pending,            \* pending_interrupts
    load_only           \* detach instead of ending the session

kernelvars == <<module, session, transport_state, probes_started, exit_flag,
                called>>
queuevars == <<ready_q, dropped>>
openvars == <<attached, timer, bug, undercut>>
clientvars == <<pc, ret, goal, pending, load_only>>
vars == <<kernelvars, queuevars, openvars, clientvars>>

Messages == {"TRANSPORT", "START_OK", "START_FAILED", "REQUEST_EXIT", "EXIT"}

(* _stp_transport_init has announced the module before anybody can attach.  *)
Init ==
    /\ module = "loaded" /\ session = "none"
    /\ transport_state = "UNINITIALIZED"
    /\ probes_started = FALSE /\ exit_flag = FALSE /\ called = FALSE
    /\ ready_q = <<"TRANSPORT">> /\ dropped = FALSE
    /\ attached = 0 /\ timer = "off" /\ bug = FALSE /\ undercut = FALSE
    /\ pc = [c \in Clients |-> "away"]
    /\ ret = [c \in Clients |-> "loop"]
    /\ goal = [c \in Clients |-> "serve"]
    /\ pending = [c \in Clients |-> 0]
    /\ load_only \in [Clients -> BOOLEAN]

Goto(c, label) == pc' = [pc EXCEPT ![c] = label]
At(c, label) == pc[c] = label /\ ~ bug

(* _stp_ctl_get_buffer for a special type: there can be only one.           *)
Send(m) ==
    IF m \in ToSet(ready_q)
    THEN dropped' = TRUE /\ UNCHANGED ready_q
    ELSE ready_q' = Append(ready_q, m) /\ UNCHANGED dropped

----------------------------------------------------------------------------
(* Opening and closing the channel.                                         *)

(* Nothing serialises _stp_ctl_open_cmd and _stp_ctl_close_cmd: the change of
   _stp_ctl_attached and its consequence are two steps.                     *)

(* The places inside a command, see below, and the clients that have the
   channel open and expect service from it.                                 *)
InCommand == {"init", "reply", "finish", "exit", "stop", "exit_reply"}
Serving(c) ==
    pc[c] \in {"loop", "interrupted", "read", "write_start", "write_exit"}
              \cup InCommand

(* stapio starts, with the module or to attach to it.                       *)
Come(c) ==
    /\ At(c, "away") /\ module = "loaded"
    /\ Goto(c, "open")
    /\ UNCHANGED <<kernelvars, queuevars, openvars, ret, goal, pending,
                   load_only>>

(* Mutant: a refused open is not counted, though it is uncounted later.     *)
OpenUncounted(c) ==
    /\ At(c, "open") /\ module = "loaded"
    /\ attached' = 1
    /\ Goto(c, IF attached > 0 THEN "busy" ELSE "attach")
    /\ UNCHANGED <<kernelvars, queuevars, timer, bug, undercut, ret, goal,
                   pending, load_only>>

(* init_ctl_channel opens .cmd: atomic_inc_return(&_stp_ctl_attached) ...   *)
stp_ctl_open_cmd(c) ==
    /\ At(c, "open") /\ module = "loaded"
    /\ attached' = attached + 1
    /\ Goto(c, IF attached' > 1 THEN "busy" ELSE "attach")
    /\ UNCHANGED <<kernelvars, queuevars, timer, bug, undercut, ret, goal,
                   pending, load_only>>

NoModule(c) ==
    /\ At(c, "open") /\ module = "gone"
    /\ Goto(c, "gone")
    /\ UNCHANGED <<kernelvars, queuevars, openvars, ret, goal, pending,
                   load_only>>

(* ... refused: atomic_dec, and the process gives up, ...                   *)
OpenBusy(c) ==
    /\ At(c, "busy")
    /\ attached' = attached - 1
    /\ Goto(c, "gone")
    /\ UNCHANGED <<kernelvars, queuevars, timer, bug, undercut, ret, goal,
                   pending, load_only>>

(* ... or accepted: _stp_attach starts the timer.                           *)
stp_attach(c) ==
    /\ At(c, "attach")
    /\ timer' = "armed"
    /\ Goto(c, IF goal[c] = "serve" THEN "loop" ELSE "close")
    /\ UNCHANGED <<kernelvars, queuevars, attached, bug, undercut, ret, goal,
                   pending, load_only>>

(* The release of the file: atomic_dec_return(&_stp_ctl_attached) > 0 ...   *)
stp_ctl_close_cmd(c) ==
    /\ At(c, "close")
    /\ attached' = attached - 1
    /\ bug' = (attached' > 0)
    /\ Goto(c, "detach")
    /\ UNCHANGED <<kernelvars, queuevars, timer, undercut, ret, goal, pending,
                   load_only>>

(* ... then _stp_detach; del_timer_sync waits for a running callback.       *)
Detached(c) ==
    /\ At(c, "detach")
    /\ Goto(c, CASE goal[c] \in {"serve", "killed"} -> "gone"
                 [] goal[c] = "unload" -> "open"
                 [] goal[c] = "remove" -> "delete")
    /\ goal' = [goal EXCEPT ![c] = IF @ = "unload" THEN "remove" ELSE @]
    /\ undercut' = (undercut \/ \E d \in Clients \ {c} : Serving(d))
    /\ UNCHANGED <<kernelvars, queuevars, attached, bug, ret, pending,
                   load_only>>

(* Mutant: del_timer instead of del_timer_sync.                             *)
DetachAsync(c) ==
    timer' = (IF timer = "running" THEN timer ELSE "off") /\ Detached(c)

stp_detach(c) == timer # "running" /\ timer' = "off" /\ Detached(c)

----------------------------------------------------------------------------
(* stapio's main loop.                                                      *)

(* signal_thread: SIGQUIT also asks to leave the module running.            *)
Signal(c, quit) ==
    /\ pc[c] \notin {"away", "gone"} /\ pending[c] < MaxSignals
    /\ \A d \in Clients \ {c} : pending[d] = 0
    /\ pending' = [pending EXCEPT ![c] = @ + 1]
    /\ load_only' = [load_only EXCEPT ![c] = @ \/ quit]
    /\ UNCHANGED <<kernelvars, queuevars, openvars, pc, ret, goal>>

(* cleanup_and_exit closes the channel; unless it detaches, it then runs
   staprun -d.                                                              *)
CleanupAndExit(c, detach) ==
    /\ Goto(c, "close")
    /\ goal' = [goal EXCEPT ![c] = IF detach THEN "serve" ELSE "unload"]
    /\ UNCHANGED ret

(* The top of the loop.                                                     *)
Loop(c) ==
    /\ At(c, "loop")
    /\ CASE pending[c] = 0 -> Goto(c, "read") /\ UNCHANGED <<ret, goal>>
         [] pending[c] > 0 /\ load_only[c] -> CleanupAndExit(c, TRUE)
         [] OTHER -> /\ Goto(c, "write_exit")
                     /\ ret' = [ret EXCEPT ![c] = "interrupted"]
                     /\ UNCHANGED goal
    /\ UNCHANGED <<kernelvars, queuevars, openvars, pending, load_only>>

Interrupted(c) ==
    /\ At(c, "interrupted")
    /\ IF pending[c] > 2
       THEN CleanupAndExit(c, load_only[c])
       ELSE Goto(c, "read") /\ UNCHANGED <<ret, goal>>
    /\ UNCHANGED <<kernelvars, queuevars, openvars, pending, load_only>>

(* Nothing to read: pselect, then round again.                              *)
ReadNothing(c) ==
    /\ At(c, "read") /\ ready_q = <<>>
    /\ Goto(c, "loop")
    /\ UNCHANGED <<kernelvars, queuevars, openvars, ret, goal, pending,
                   load_only>>

(* _stp_ctl_read_cmd, and the switch on the message type.  After START_OK a
   target command is let run, which may fail.                               *)
ReadMessage(c) ==
    /\ At(c, "read") /\ ready_q # <<>>
    /\ ready_q' = Tail(ready_q)
    /\ LET m == Head(ready_q) IN
       CASE m = "TRANSPORT" ->
              Goto(c, "write_start") /\ UNCHANGED <<ret, goal>>
         [] m = "REQUEST_EXIT" ->
              /\ Goto(c, "write_exit")
              /\ ret' = [ret EXCEPT ![c] = "loop"]
              /\ UNCHANGED goal
         [] m = "START_OK" ->
              \/ Goto(c, "loop") /\ UNCHANGED <<ret, goal>>
              \/ CleanupAndExit(c, FALSE)
         [] OTHER          -> CleanupAndExit(c, FALSE)
    /\ UNCHANGED <<kernelvars, dropped, openvars, pending, load_only>>

(* init_relayfs fails, or the write of STP_START does; or the one of
   STP_NAMESPACES_PID, and then stapio detaches.                            *)
RelayFails(c) ==
    /\ At(c, "write_start")
    /\ \E detach \in BOOLEAN : CleanupAndExit(c, detach)
    /\ UNCHANGED <<kernelvars, queuevars, openvars, pending, load_only>>

(* The process dies between two system calls; the kernel closes its files.  *)
Kill(c) ==
    /\ ~ bug
    /\ pc[c] \in {"loop", "interrupted", "read", "write_start", "write_exit"}
    /\ Goto(c, "close")
    /\ goal' = [goal EXCEPT ![c] = "killed"]
    /\ UNCHANGED <<kernelvars, queuevars, openvars, ret, pending, load_only>>

----------------------------------------------------------------------------
(* The module's command handlers, run inside the client's write(2) under
   cmd_mutex.                                                               *)
CommandFree(c) == \A d \in Clients \ {c} : pc[d] \notin InCommand

(* What stapio does once its STP_START has been absorbed.                   *)
StartWritten(c) ==
    IF load_only[c] THEN CleanupAndExit(c, TRUE)
    ELSE Goto(c, "loop") /\ UNCHANGED <<ret, goal>>

(* _stp_handle_start: only the first one counts.                            *)
stp_handle_start(c) ==
    /\ At(c, "write_start") /\ CommandFree(c)
    /\ IF transport_state = "UNINITIALIZED"
       THEN /\ transport_state' = "START_CALLED"
            /\ session' = "starting"
            /\ Goto(c, "init") /\ UNCHANGED <<ret, goal>>
       ELSE StartWritten(c) /\ UNCHANGED <<transport_state, session>>
    /\ UNCHANGED <<module, probes_started, exit_flag, called, queuevars,
                   openvars, pending, load_only>>

(* systemtap_module_init returns.                                           *)
ModuleInitReturns(c, ok) ==
    /\ At(c, "init")
    /\ session' = IF ok THEN "up" ELSE "failed"
    /\ probes_started' = ok
    /\ Goto(c, "reply")
    /\ UNCHANGED <<module, transport_state, exit_flag, called, queuevars,
                   openvars, ret, goal, pending, load_only>>

StartReply(c) ==
    /\ At(c, "reply")
    /\ Send(IF probes_started THEN "START_OK" ELSE "START_FAILED")
    /\ Goto(c, "finish")
    /\ UNCHANGED <<kernelvars, openvars, ret, goal, pending, load_only>>

StartFinished(c) ==
    /\ At(c, "finish")
    /\ transport_state' = "START_FINISHED"
    /\ StartWritten(c)
    /\ UNCHANGED <<module, session, probes_started, exit_flag, called,
                   queuevars, openvars, pending, load_only>>

(* Mutant: the reply goes out and systemtap_module_exit is left out.        *)
ExitWithoutStop(c) ==
    /\ At(c, "write_exit") /\ CommandFree(c)
    /\ IF transport_state = "START_FINISHED"
       THEN transport_state' = "EXIT_CALLED" /\ Goto(c, "exit_reply")
       ELSE UNCHANGED transport_state /\ Goto(c, ret[c])
    /\ UNCHANGED <<module, session, probes_started, exit_flag, called,
                   queuevars, openvars, ret, goal, pending, load_only>>

(* _stp_cleanup_and_exit(1): nothing happens before the start is finished,
   and nothing happens twice.                                               *)
stp_cleanup_and_exit(c) ==
    /\ At(c, "write_exit") /\ CommandFree(c)
    /\ IF transport_state = "START_FINISHED"
       THEN transport_state' = "EXIT_CALLED" /\ Goto(c, "exit")
       ELSE UNCHANGED transport_state /\ Goto(c, ret[c])
    /\ UNCHANGED <<module, session, probes_started, exit_flag, called,
                   queuevars, openvars, ret, goal, pending, load_only>>

SetExitFlag(c) ==
    /\ At(c, "exit")
    /\ exit_flag' = TRUE
    /\ Goto(c, "stop")
    /\ UNCHANGED <<module, session, transport_state, probes_started, called,
                   queuevars, openvars, ret, goal, pending, load_only>>

(* systemtap_module_exit, if the probes were ever started.                  *)
ModuleExitReturns(c) ==
    /\ At(c, "stop")
    /\ session' = IF probes_started THEN "down" ELSE session
    /\ Goto(c, "exit_reply")
    /\ UNCHANGED <<module, transport_state, probes_started, exit_flag, called,
                   queuevars, openvars, ret, goal, pending, load_only>>

(* Mutant: send_exit is ignored.                                            *)
ExitSilent(c) ==
    /\ At(c, "exit_reply")
    /\ Goto(c, ret[c])
    /\ UNCHANGED <<kernelvars, queuevars, openvars, ret, goal, pending,
                   load_only>>

ExitReply(c) ==
    /\ At(c, "exit_reply")
    /\ Send("EXIT")
    /\ Goto(c, ret[c])
    /\ UNCHANGED <<kernelvars, openvars, ret, goal, pending, load_only>>

(* staprun -d: delete_module fails while a client holds the module, else
   cleanup_module runs _stp_transport_close, and with it
   _stp_cleanup_and_exit(0).                                                *)
InUse == \E d \in Clients : pc[d] \notin {"away", "gone", "open", "delete"}

DeleteModule(c) ==
    /\ At(c, "delete")
    /\ Goto(c, "gone")
    /\ IF InUse \/ module = "gone"
       THEN UNCHANGED <<kernelvars, queuevars>>
       ELSE /\ module' = "gone"
            /\ ready_q' = <<>>
            /\ IF transport_state = "START_FINISHED"
               THEN /\ transport_state' = "EXIT_CALLED"
                    /\ exit_flag' = TRUE
                    /\ session' = IF probes_started THEN "down" ELSE session
               ELSE UNCHANGED <<transport_state, exit_flag, session>>
            /\ UNCHANGED <<probes_started, called, dropped>>
    /\ UNCHANGED <<openvars, ret, goal, pending, load_only>>

----------------------------------------------------------------------------
(* Mutants: the callback asks again and again, or uses up its only request
   before systemtap_module_init is done.                                    *)
CallbackNags ==
    /\ timer = "armed" /\ ~ bug
    /\ timer' = "running"
    /\ IF exit_flag /\ probes_started THEN Send("REQUEST_EXIT")
       ELSE UNCHANGED queuevars
    /\ UNCHANGED <<kernelvars, attached, bug, undercut, clientvars>>

CallbackTooEarly ==
    /\ timer = "armed" /\ ~ bug
    /\ timer' = "running"
    /\ called' = (called \/ exit_flag)
    /\ IF exit_flag /\ probes_started /\ ~ called THEN Send("REQUEST_EXIT")
       ELSE UNCHANGED queuevars
    /\ UNCHANGED <<module, session, transport_state, probes_started, exit_flag,
                   attached, bug, undercut, clientvars>>

(* _stp_ctl_work_callback: ask stapio for an exit, once ...                 *)
stp_ctl_work_callback ==
    /\ timer = "armed" /\ ~ bug
    /\ timer' = "running"
    /\ IF exit_flag /\ probes_started /\ ~ called
       THEN called' = TRUE /\ Send("REQUEST_EXIT")
       ELSE UNCHANGED <<called, queuevars>>
    /\ UNCHANGED <<module, session, transport_state, probes_started, exit_flag,
                   attached, bug, undercut, clientvars>>

(* Mutant: the timer fires only once.                                       *)
TimerOnce ==
    /\ timer = "running"
    /\ timer' = "off"
    /\ UNCHANGED <<kernelvars, queuevars, attached, bug, undercut, clientvars>>

(* ... and come back as long as somebody is attached.                       *)
TimerRearm ==
    /\ timer = "running"
    /\ timer' = IF attached > 0 THEN "armed" ELSE "off"
    /\ UNCHANGED <<kernelvars, queuevars, attached, bug, undercut, clientvars>>

(* A probe calls exit().                                                    *)
ProbeExit ==
    /\ session \in {"starting", "up"} /\ ~ exit_flag
    /\ exit_flag' = TRUE
    /\ UNCHANGED <<module, session, transport_state, probes_started, called,
                   queuevars, openvars, clientvars>>

----------------------------------------------------------------------------
(* What a client does by itself once it is there.                           *)
ClientStep(c) ==
    \/ stp_ctl_open_cmd(c) \/ NoModule(c) \/ OpenBusy(c) \/ stp_attach(c)
    \/ stp_ctl_close_cmd(c) \/ stp_detach(c)
    \/ Loop(c) \/ Interrupted(c) \/ ReadNothing(c) \/ ReadMessage(c)
    \/ RelayFails(c)
    \/ stp_handle_start(c) \/ \E ok \in BOOLEAN : ModuleInitReturns(c, ok)
    \/ StartReply(c) \/ StartFinished(c)
    \/ stp_cleanup_and_exit(c) \/ SetExitFlag(c) \/ ModuleExitReturns(c)
    \/ ExitReply(c)
    \/ DeleteModule(c)

TimerStep == stp_ctl_work_callback \/ TimerRearm

(* Everybody has left, or the kernel has stopped at BUG().                  *)
Finished ==
    /\ bug \/ \A c \in Clients : pc[c] \in {"away", "gone"}
    /\ UNCHANGED vars

Next ==
    \/ \E c \in Clients : Come(c) \/ ClientStep(c) \/ Kill(c)
    \/ \E c \in Clients, quit \in BOOLEAN : Signal(c, quit)
    \/ TimerStep
    \/ ProbeExit
    \/ Finished

Spec == Init /\ [][Next]_vars

(* Processes that run are scheduled, and the kernel's timers expire.  The
   callback rests between two expiries, so that del_timer_sync, which tries
   again and again, finds it at rest although the next client rearms it.    *)
Fairness ==
    /\ \A c \in Clients : WF_vars(ClientStep(c)) /\ SF_vars(stp_detach(c))
    /\ WF_vars(TimerStep)

FairSpec == Spec /\ Fairness

----------------------------------------------------------------------------
ClientStates ==
    {"away", "open", "busy", "attach", "loop", "interrupted", "read",
     "write_start", "write_exit", "close", "detach", "delete", "gone"}
    \cup InCommand

TypeOK ==
    /\ module \in {"loaded", "gone"}
    /\ session \in {"none", "starting", "up", "failed", "down"}
    /\ transport_state \in {"UNINITIALIZED", "START_CALLED", "START_FINISHED",
                            "EXIT_CALLED"}
    /\ probes_started \in BOOLEAN /\ exit_flag \in BOOLEAN
    /\ called \in BOOLEAN /\ dropped \in BOOLEAN
    /\ bug \in BOOLEAN /\ undercut \in BOOLEAN
    /\ ready_q \in Seq(Messages)
    /\ attached \in Nat
    /\ timer \in {"off", "armed", "running"}
    /\ pc \in [Clients -> ClientStates]
    /\ ret \in [Clients -> {"loop", "interrupted"}]
    /\ goal \in [Clients -> {"serve", "unload", "remove", "killed"}]
    /\ pending \in [Clients -> 0 .. MaxSignals]
    /\ load_only \in [Clients -> BOOLEAN]

(* "cmd messages allocated ahead of time.  There can be only one": start,
   exit, transport and request-exit messages never find their only buffer
   taken, so none of them is ever lost on the module's side.                *)
SpecialNeverDropped == ~ dropped

(* Unloading is clean: no probe is up, nobody has the channel, and the
   control timer will not call into the text that is gone.                  *)
UnloadClean ==
    module = "gone" =>
        /\ session \in {"none", "failed", "down"}
        /\ timer = "off" /\ attached = 0

Attended == \E c \in Clients : Serving(c)

(* The control timer "Reschedules itself if someone is still attached to the
   cmd channel": without it nobody is told of an exit() or a warning.  (Not
   so where a release overlaps the next open.)                              *)
TimerWhileAttached == Attended => timer # "off"

(* It is lost in no other way: neither a callback that saw the channel closed
   just before it was opened again, nor a refused open, a kill or an unload
   attempt leaves a client without timer, only the _stp_detach of a release
   that comes after the next client's _stp_attach.                          *)
TimerKept == undercut \/ TimerWhileAttached

(* _stp_ctl_close_cmd asserts that the last close finds the channel free:
   its BUG() is never reached.                                              *)
CloseIsLast == ~ bug

(* Once STP_EXIT is on its way to stapio, which will unload the module at
   its receipt, the probes are down.                                        *)
ExitAfterStop == "EXIT" \in ToSet(ready_q) => session # "up"

(* exit() in a probe, "enqueues a request to start shutting down the
   script": as long as some stapio stays attached, the session ends, unless
   an open and a release have met and the kernel stopped at BUG() or the
   timer was lost, or a stapio was killed: _stp_request_exit asks once, and
   the request may die with its reader.                                     *)
ExitHonoured ==
    <>[]Attended =>
        ((exit_flag /\ probes_started)
            ~> \/ session = "down" \/ bug \/ undercut
               \/ \E c \in Clients : goal[c] = "killed")

(* "await STP_EXIT reply message to kill staprun": a stapio interrupted while
   the session starts or runs gets that reply, or detaches, and leaves, with
   the timer or without it.                                                 *)
InterruptEnds ==
    \A c \in Clients :
        (/\ pending[c] > 0
         /\ Serving(c)
         /\ transport_state \in {"START_CALLED", "START_FINISHED"})
            ~> (pc[c] = "gone" \/ bug)
=============================================================================
