# SystemTap session protocols in TLA+

SystemTap turns a script into a kernel module, loads it, runs probe handlers
in it from interrupts and tasks, carries their output to a user process, and
takes it all down again. The compiler is sequential; what is hard to test is
the life of the module: handlers on every cpu against start-up and shutdown,
and the module against the processes that attach to it. That is what these
modules model, check with TLC and, where TLAPS reaches, prove.

## 1. Inventory

| part | state | operations | talks to |
|---|---|---|---|
| per-cpu contexts (`runtime/linux/runtime_context.h`) | context pointer and `busy` flag per cpu, `_stp_contexts_busy_ctr` | alloc, trylock/unlock, get/put, wait, free | every handler, the control timer, module exit |
| session lifecycle (generated by `translate.cxx`) | `session_state`, globals, which groups are armed, refresh timer, worker and mutex | `systemtap_module_init`, `_refresh`, `_exit` | contexts, probe groups, control commands |
| handler prologue/epilogue (`tapsets.cxx`, `tapset-been.cxx`) | position of each handler, skipped/error counts | check state, get context, run, schedule refresh, set ERROR, put context | contexts, session |
| control channel (`runtime/transport/control.c`, `transport.c`) | `_stp_transport_state`, `_stp_exit_flag`, `_stp_probes_started`, `_stp_ctl_attached`, control timer | open, close, STP_START, STP_EXIT, timer callback | session, stapio |
| control message buffers (`control.c`, `mempool.c`) | pool, special buffers, ready list | send, read, free, unregister | probes, stapio |
| stapio (`staprun/mainloop.c`), staprun -d (`staprun.c`) | `pending_interrupts`, `load_only`, channel | message loop, signals, clean-up, unload | control channel |
| script locks (`probe_lock.h`) | one lock per global | bounded trylock, unlock | handlers |
| task finder (`task_finder2.c`), utrace (`stp_utrace.c`), task work (`stp_task_work.c`) | `__stp_task_finder_state`, `__stp_inuse_count`; struct utrace and engines with their references; `stp_task_work_callbacks` | walk and attach, poke, exec/quiesce/clone/death reports, stop | session, every user task |
| print buffers and relay (`print_flush.c`, `relay_v2.c`) | sub-buffers per cpu, `wakeup`, sequence numbers, failure count | reserve, flush, timer, read, stop | handlers, reader |
| relay reader (`staprun/relay.c`) | one thread per cpu, `last_sequence_number`, output files | read, wait for one's turn, write, switch file, end | relay, user |
| maps and statistics (`map*.c`, `stat*.c`) | hash tables, histograms | get, set, aggregate | handlers |
| dyninst and bpf back ends, regex compiler, front end, cache, servers | | | |

`PROJECT.json` lists every component with its sources and status, and under
"hazards" the places where a test would hardly reach. The hard behaviours:
interrupts nest on a cpu and hold its context; a refresh worker arms probes
while shutdown disarms them; `session_state` is written by everybody; failure
of the n-th registration rolls back under running handlers; senders may
neither block nor allocate; two processes may want the control file at once;
stapio may be interrupted or killed anywhere; the task finder is stopped while
the tasks it watches exec, exit and run its callbacks, some of them queued in the
kernel; text of many cpus, torn by full buffers, must come out in one order.

What makes the parts correct:

* contexts: one user per cpu, none freed in use;
* session: handlers see live globals only, begin/end/error probes run alone,
  nothing can enter the module after exit, `exit()` is final, final probes
  run, init and exit return;
* control channel: commands are never dropped, the timer runs while somebody
  is attached, a release finds the channel free, unloading is clean, `exit()` and
  ^C end the session;
* buffers: each is in one place, loss is announced, order is kept, the reader
  is woken, all are returned; together they are a lossy mailbox;
* task finder: no struct or engine is freed in use, the module goes when no
  callback is left, `process.begin` and `process.end` reach the targets, the stop
  returns;
* relay: output keeps the order of the sequence numbers, what is lost is
  counted, everything is delivered, a switch of files loses nothing, a closing
  stapio ends.

Where the code does not keep one of these, a run shows it (section 3,
*Disagreements*) or section 5 says so (*Known limits*).

## 2. Modules

```
RuntimeContext  <-- EXTENDS -- ProbeSession <-- MCProbeSession
      ^                             ^
RuntimeContext_proofs  <------- ProbeSession_proofs
CtlSession <-- CtlSession_proofs
CtlQueue <-- MCCtlQueue,  CtlQueue <-- CtlQueue_proofs
   |
   +-- INSTANCE --> Mailbox
Utrace <-- Utrace_proofs <-- Utrace_memory <-- Utrace_structs
TraceRelay <-- TraceRelay_proofs
```

**RuntimeContext** is the protocol of `runtime_context.h`: one action is one
atomic operation. `CtxSpec` is its most general client, and the abstract
specification of what a session may do with contexts. An actor's cpu is a
constant, as it cannot be preempted between trylock and unlock. `contexts`
keeps the code's three cases: null, live, and dangling after the free.

**ProbeSession** is the generated module code. `pc` walks Main through
`systemtap_module_init` (`load` to `up`, failing by `rollback` or `out`) and
`systemtap_module_exit` (`up` to `done`); `stp_synchronize_sched` and the begin,
end and error probes are subroutines that return to `ret`. `hpc` is the place
of each handler in the common prologue and epilogue; a run of the script is one
action, chosen among what a session can notice of it (nothing, `exit()`, an
error or overload, a lock given up, the condition of another probe changed).
Test and set of `session_state` in `systemtap_module_exit`, and read and write
of `pseudo_atomic_cmpxchg`, are two steps each, as in the code. Interrupt levels
restrict who may run (`CanRun`). Groups differ by constants: whether their
deregistration waits for handlers, whether they run in STARTING, whether they
are armed on the fly, and whether their handlers may queue the refresh
themselves. The steps on contexts are those of RuntimeContext, so that
`CtxSpec` is a property of the session and no refinement mapping is needed.

**CtlSession** is the control channel with the stapio processes attached to it.
A client is a process: it opens the channel, loops over signals and messages,
writes commands whose handlers run inside its write under `cmd_mutex`, closes,
and perhaps unloads. Module init and exit, detailed in ProbeSession, are one
step each. Nothing serialises open and release: the change of `_stp_ctl_attached`
and what follows from it (refusal, `_stp_attach`, `_stp_detach`) are steps of their
own, and those of two clients interleave. The history variable `undercut` marks a
`_stp_detach` that comes when another client already has the channel. stapio's
own failures are there: of `init_relayfs`, of the STP_NAMESPACES_PID and STP_START
requests, and of `resume_cmd` after a good start. A process may be killed
between two system calls; its `goal` then says so. A message leaves the list, is copied and frees its
buffer in one step, so that `Send` tests the list where the code tests the
buffer; the difference cannot show, as each special type is sent once
(CtlQueue has the steps).

**CtlQueue** is the life of control message buffers: a sender takes one from
the pool, or the special one of its type with the overflow text, or loses the
message; fills and queues it; the reader dequeues, copies and frees. One action
is one critical section. A failed `copy_to_user` leaves the buffer nowhere: the
history variable `leaked` records it.

**Mailbox** is what CtlQueue promises, without buffers: a message is accepted
unaltered, replaced by an overflow notice or dropped, while it is being sent;
the ones accepted are delivered in order, each at most once, or lost at the
reading end. `Mail` is the instance with the mapping: `Pipe`, the list preceded
by the buffer the reader is copying, and `Deciding`, the senders that have not
yet queued or given up.

**Utrace** follows one user task and the thread that starts, pokes and stops the
task finder. `pc` is the place of the two processes, `at` the locals of
`__stp_utrace_attach` and the calls in it (shared code: `AttachStep`), `rep` those
of a reporting pass. The structs of the task are in `table`, each with its
reference count, the lists attached and attaching, flags and due interrupt;
freed memory stays recognisable (`mem`). `works` are queued task works, `taken`
those `task_work_run` has taken and that nobody can cancel any more. A critical
section is one step, except that `utrace_control` holds the lock while it adds
and then counts its work. The `wait_event` of `stp_task_work_exit` is a test and a
sleep (`st_sleep`) that only the `wake_up` of the last callback ends (`Wake`), and
that callback counts itself down one step before (`w_wake` is the place between). `Oops` is a use of freed memory: what follows is
undefined, and the behaviour stops. Three history variables mark what the
properties have to know: `raced` (two attachers met while the struct was made),
`early` (a work was cancelled between being added and being counted) and `fails`.

**TraceRelay** takes a handler's text from `__stp_print_flush` to the output
file. Data are counted in units of one header; a unit is a header, the i-th piece
of the text of a message, or junk left by an abandoned reservation. `rb` is the
relay buffer of a cpu as a sequence of completed sub-buffers and a current one;
`thr` the reader thread of a cpu, whose `pc` walks the body of `reader_thread`.
Flush and read of one buffer do not overlap: the flush has interrupts off and
the reader is pinned to the same cpu. A reader that has lost the framing reads
text or junk, or the end of it with the beginning of the next header, as a header
(`read_header`): the length may be impossible, and it drains, or possible, and then
the sequence number is any of 0 .. `FalseSeq`, zero and the real ones included, as
the bytes are what the sub-buffer held before (zeros on its first lap). This allows
more than the bytes of one run would. `hnd` is the place of each thread in
`switchfile_handler`, whose loops go reader by reader: SIGUSR2 is pending for the
process until the main thread or a reader in `ppoll` takes it, and the handler's
`pthread_kill` makes other readers run the handler, too, before their `ppoll` returns
EINTR. History: `late` marks a reader that gave up waiting, `resync` a draining read
that found data, `misread` a false header.

Not under `src/`: the kernel's interrupt nesting (`CanRun`), the read-side
sections that `synchronize_sched` waits for (`Leave`), the firing of a probe
(`Enter`), SIGKILL, and SIGUSR2 from the user; the kernel's
task works (`TakeWorks`, `WorksDone`) and the end of a task (`Die`), the kernel's
part of reading a relay file (`Avail`, `DropStep`, `Consume`).

## 3. Runs

| run | states | checks |
|---|---|---|
| session_async | 43 000 | an interrupt group whose deregistration does not wait, a task group that runs from STARTING on, nested in one another and in the control timer: TypeOK, BusyCtrCounts, ContextsFreedUnused, OneHolderPerCpu, GlobalsSafe, BeProbesRunAlone, NothingLeftBehind, ExitSticks, FinalProbesRan, CtxSpec |
| session_otf | 16 000 | a group armed on the fly, whose handler may queue the refresh itself: NothingLeftBehind, InitReturns, ExitReturns |
| ctl_session | 319 000 | two clients, three signals to one of them, kills, overlapping opens and releases: TypeOK, SpecialNeverDropped, UnloadClean, TimerKept, ExitAfterStop, ExitHonoured, InterruptEnds |
| ctl_queue | 119 000 | two senders of two messages each over one pool buffer: TypeOK, BuffersAccounted, LossAnnounced, AllReturned, InOrder, QueueMoves, ImplementsMailbox |
| utrace | 708 000 | one task, three structs, five engines, one of fork, exec and failed allocation: TypeOK, StructHeld, UnloadQuiet, EndDelivered, BeginDelivered, StopReturns |
| relay | 198 000 | two cpus, two sub-buffers of two units, two flushes, signals or failing writes: TypeOK, OrderKept, FramingKept, NoSilentLoss, Delivered, ReadersEnd |
| session_error | violated | ErrorSkipsEnd |
| ctl_close_race | violated | CloseIsLast |
| ctl_timer_race | violated | TimerWhileAttached |
| utrace_unload | violated | CallbacksFinished |
| utrace_wake | violated | CallbacksGone |
| relay_switch | violated | SwitchKeepsOutput |

Each property of a passing run has a mutant in `PROJECT.json`: a small change
of the modelled code that TLC shows to break it.

*Bounds.* Two cpus and two groups are the least with a handler beside Main and
one inside it, and with a group registered before one that fails. Groups
interact only through the session state, the contexts and the worker, which two
groups already contend for. `INT_MAX = 9` is above the number of actors, all
that the code needs of it. Three signals reach stapio's third-interrupt branch;
they all go to one client, the other one being attached, killed or not there.
One pool buffer and two messages per sender reach the empty pool, the overflow
text, and the loss behind it. Utrace: a task gets a second struct only when two
attachers race or after its first was freed, and at most two engines (finder and
target) per attempt to attach: three and five are never exhausted with one
trouble, so that the bounds cut nothing off. One trouble is any one of the task
being forked into the walk, an exec and a failed allocation, on top of an
arbitrary start, stop and exit. TraceRelay: two sub-buffers of two units and
texts of one or two units reach a full sub-buffer, a full buffer, a torn message
and a reservation too small for a header; two inputs are two messages, the
second perhaps lost or torn, or a message and a switch, at every place of a reader. What an abandoned reservation left is then read by itself. A real header
behind it, which a false one may straddle, takes a third input: the same safety
properties were checked with three (5.5 million states, without liveness), and the
theorems about them hold for any number. Of sequence numbers beyond all real ones
one is enough, as a reader only compares them. `CHECK_DEADLOCK
FALSE` there: a stapio that has closed does stop.

*Fairness.* session_otf: Main, each handler that has begun, and the worker go
on (handlers are bounded by MAXACTION; the kernel schedules the others). No
probe is forced to fire and no timer to tick. ctl_session: processes that run are
scheduled and the control timer expires; signals, arrivals, `exit()` and kills
are not forced. `stp_detach` has strong fairness: `del_timer_sync` tries until it
finds the callback at rest, which it is between any two expiries, also when the
next client's attach has armed the timer again. ctl_queue: the attached reader goes on reading and the timer
fires; senders may stop anywhere. utrace: the thread that starts and stops the
task finder goes on, and so does the task once it is in the kernel (an
interrupted task comes to `task_work_run`); nobody is made to stop, exec or
exit. relay: reader threads are scheduled, which includes that a timed wait
ends, signal handlers go on and the main thread takes a pending signal, and the
wakeup timer expires; nothing makes a script print, a user send a signal or
stapio close.

*Disagreements.* Six runs contradict a statement of the repository.

* session_error: `systemtap_module_exit` tests `session_state` for RUNNING and
  sets STOPPING in a second step. An error in between is overwritten; `end`
  probes run and `error` probes do not, against stapprobes(3stap): 'In the case
  of an error-triggered shutdown, "end" probes are not run'.
* ctl_close_race: an open counts itself before it is refused. If the owner
  closes in that window the count is still positive and BUG() is reached,
  although control.c says that the open "enforces only a single open() at a time".
* ctl_timer_race: release lowers the attach count before `_stp_detach`; an open in
  between is accepted and starts the timer, which the old owner then deletes. The
  timer, which "Reschedules itself if someone is still attached", is gone with
  somebody attached. TimerKept, which holds, says that this is the only way.
* utrace_unload: `stp_task_work_add` adds a work before it counts it. Every caller
  but one is protected by a lock, by `__stp_inuse_count` or by being a tracepoint
  probe that `utrace_shutdown` waits for. The one is `finish_resume_report`, when
  an interrupt is due and no engine wants QUIESCE any more: the task was poked by
  `post_init` during its first pass, and its target engine has been detached
  because the task finder is stopping. If `utrace_cancel_all_task_work` cancels
  the work before it is counted, the running callback's own count is taken away,
  and `utrace_exit` frees the struct under it, against the comments at
  `stp_task_work.c:51` and `stp_utrace.c:473`. In every other behaviour the wait is
  for all callbacks up to where they count themselves down (UnloadQuiet), but not
  beyond:
* utrace_wake: `stp_task_work_put` counts down and then wakes. If the stopping
  thread tests the count between the two it does not sleep, and the module may be
  gone when the callback comes to the `wake_up` on the module's wait queue and
  returns into the module's text. The comment at `stp_task_work.c:51` promises "that
  all the callbacks are finished".
* relay_switch: SIGUSR2 makes every reader thread open the next file, which in
  stream mode is the same for all, with O_TRUNC. What the first one has written
  there is erased by the second.

## 4. Proofs

`tlapm` checks every obligation of the eight proof modules. The theorems hold
for every finite set of actors, any cpus, groups, interrupt levels, pools,
senders, clients, structs, engines, sub-buffers, messages and bounds on what
the environment does; from the named ASSUMEs of the modules only. Every inductive
invariant was first checked by TLC on the configurations of the runs or smaller
ones.

* **RuntimeContext_proofs.** `CtxInv` joins the types, `BusyCtrCounts`,
  `OneHolderPerCpu` and `FreedClosed` (freed contexts imply a closed counter).
  `ContextsFreedUnused` is not inductive alone: that no thread is
  inside when the counter is closed follows from the counter being the
  *cardinality* of the threads inside, and that no thread enters later from
  the counter never leaving INT_MAX, which needs `INT_MAX > Cardinality(Actors)`.
  Lemmas on adding and removing one thread carry the cardinality.
  Theorems: ContextInvariant, ContextsSafe, ContextExclusive.
* **ProbeSession_proofs.** Each action of the session is a step of the context
  protocol or leaves it alone (one lemma per part), hence
  SessionImplementsContexts (`Spec => CtxSpec`) and, with the theorems about
  contexts, SessionFreesSafely, SessionCounts and SessionExclusive. ExitIsFinal
  proves ExitSticks from a strengthening, `ExitFinal`: after `exit()` the state is
  one of ERROR, STOPPING, STOPPED; the `atomic_cmpxchg` that declares RUNNING is
  what keeps it. The safety of the session itself: `SessionInv` ties Main's place to the rest: the return
  label to the subroutine (`FlowInv`), the session state to the phase
  (`StateInv`), the globals (`GlobalsInv`), the refresh worker and its mutex
  (`WorkerInv`), the armed groups to the group counter, as they are armed in
  order and disarmed in reverse (`ArmedInv`), and the handlers that can still be
  running to all of it (`SlotInv`). The hard part is a group whose deregistration
  does not wait. Its handler may run on after it (`Running`), but one that has read
  the state as running does not reach the deregistration: the grace period of
  `systemtap_module_exit` lies between (`Outlasts`). Hence SessionTypes,
  GlobalsAlwaysThere, BeProbesAlone (no other script code runs during a begin, end
  or error probe, not even that of a group that does not wait) and LeavesNothing.
  FinalProbesAlwaysRun adds where a handler and its context are together
  (`HandlersInv`) and, for each place on the exit path, whether the decision
  between end and error probes has been taken (`FinalRun`). `AsyncAssumption`
  says which groups may fail to wait: those whose handlers run in an interrupt or with preemption off,
  for `stp_synchronize_sched` covers no others.
* **CtlSession_proofs.** `CtlInv` is TypeOK with three parts: the attach count is
  the cardinality of the clients between open and close, of which one is accepted
  (`ChannelInv`); the transport state and the session follow the command handler
  that is moving them (`CommandInv`); a special message is on the list only after
  its one sender has passed (`MessageInv`). Theorems: CtlInvariant, CtlTypes,
  SpecialsNeverDropped, ExitComesLast, UnloadsClean. TimerOnlyUndercut
  (`Spec => []TimerKept`) adds `AttachInv`: a client that has the channel has a timer
  that is armed, or whose callback will find the channel attached, until a detach
  undercuts it.
* **CtlQueue_proofs.** `QueueInv` adds to BuffersAccounted where a thread holds a
  buffer, that a pool buffer in use has a sender's message, and that nobody uses
  the channel after unregistration. Theorems: QueueInvariant, QueueTypes,
  BuffersNeverShared, UnregisterReturnsAll. LossesAnnounced needs `NoticeInv`: the
  buffer set aside for a type always holds the overflow text, and when it is given
  back that text has been read. QueueImplementsMailbox: `Spec => Mail!Spec`. Besides
  QueueInv it needs `HandInv`: until it is queued, the buffer in a sender's hand
  holds that sender's own last message or the overflow text. That no one else
  writes to it is where BuffersAccounted is used. Each action is a Mailbox step
  or leaves the mapped variables alone: `stp_ctl_send` is Begin, `Enqueue` is
  Accept, `SpecialTaken` is Drop, `CopyToUser` is Deliver, `CopyFails` is Lose,
  unregistration is Shut. QueueInOrder follows on the abstract side: every Mailbox
  step keeps the messages of one sender in the pipe in the order of their
  numbers, and above what has been delivered (`MailOrder`).
* **Utrace_proofs.** UnloadsQuietly: `Spec => []UnloadQuiet`. `PlaceInv` says where
  the two processes can be together: what a call will return to, when the task is
  inside a tracepoint probe (`ProbeSide`), that no probe is left when cancelling
  begins (`StopOrder`), and that `__stp_inuse_count` is exactly the number of
  handlers inside (theorem HandlersCounted). `CountInv` says that
  `stp_task_work_callbacks` is at least the works queued, taken and running, less
  those added and not yet counted (`WorksCounted`; an inequality is what holds,
  and is enough: at zero all of them are zero), and that such an uncounted work
  is still queued, because whoever could cancel it waits for its adder first
  (`WorkAdded`; the one adder nobody waits for sets `early`). A callback in its final
  `wake_up` is no longer counted, and UnloadQuiet does not claim that it is over. `Without`, how entries
  leave a list, has its lemmas here too: what is kept, in which order, without
  duplicates. They are proved by an induction the prover can do, on the *set* of
  the lengths for which the claim holds.
* **Utrace_memory.** EnginesCounted and UtraceTypes. `EnginesInv` has four parts:
  the types (`TypeInv`); what each process points to (`UseInv`: a struct that was
  made, and in a pass an entry of its attached list); that the table and
  the structs in memory are the same, with disjoint lists (`ListInv`); and that an
  engine has a reference for its list and one for each call that holds it
  (`EngineInv`, an inequality, for `utrace_cleanup` frees the engines of a dead task
  without asking). A lemma for each action says what it does to the records
  (`...Effect`, `...Types`), so that the proofs of the invariants see named fields
  and no record updates.
* **Utrace_structs.** StructsHeld: `Spec => []StructHeld`. `HeldInv` counts the
  references on a struct (`RefsCounted`): the table's, one for each call that looked
  it up, one or two for a pass, one or two for each queued or taken work. The
  table's reference is the difficult one, because it has no owner: the death
  report drops it together with its own (`PassRefs`, `WorkRefs`), a failed attach
  drops it, and then a tracepoint probe may still be looking at the struct
  (`Orphan`). Around it: there is at most one struct that can be looked up
  (`OneCurrent`), a struct being made is nobody else's (`MakingInv`), one without
  references has no engines until the task exits (`EmptyInv`), an attacher leaves a
  struct behind (`AttachedInv`), the last one out cleans up once (`CleanInv`), and
  the engine of a call is in memory until the task exits (`EngineHeld`). `ControlInv`
  and `DeathInv` give the facts about the life of the task: a death is reported
  only by a task that is exiting, which attaches nothing any more. All of it holds
  until `raced` or `early`, which never become false again (`HistoryKept`).
* **TraceRelay_proofs.** OutputInOrder: `Spec => []OrderKept`. A reader writes after
  it has released the mutex of `last_sequence_number`, so the order rests on two
  facts about the whole path. `PlaceInv`: a header is in one buffer or with one
  reader, never twice, although a flush may spread a message over sub-buffers,
  abandon it halfway, and a read may take something else for a header or throw
  data away. `TurnInv`: until a reader gives up waiting (`late`) or has taken
  something else for a header (`misread`), no header that is still to be
  written has a number up to `last`, a reader on turn has the number `last + 1`,
  and the log is increasing. With `ShapeInv` and `TextInv` (a reader that goes on
  to wait has, without a misread, a header's number) these are `OrderInv`
  (TurnsTaken). OneWriter follows: two readers on turn would have the same header.
  `HandlerInv` places the signal handler: a reader is in it only while its `ppoll`
  has not returned. The loops of the flush and of the read are recursive
  functions; the set induction gives their existence (`StepsExist`) and then
  what they keep: the headers and how often each occurs (`Heads`, `Once`).
  NothingLost: `Spec => []NoSilentLoss`. `LossInv` follows the text as OrderInv
  follows the header. As long as no failure was counted: no reader has misread a
  header, a reader has a header's number exactly where it has a message (`Busy`),
  every header in a buffer is followed by its whole text and then by the next
  header or nothing (`Framed`), and what a reader still has to collect is the first
  thing in its buffer (`Handed`). A draining read does not disturb this, as it takes
  all that is there. As long as no draining read threw data away either: the log has
  whole texts, each once and nowhere else (`LoggedInv`), and every message is in a
  buffer, with a reader or in the log (`PresentInv`). The conditions are needed: a
  truncated text breaks the framing, and a draining read loses messages (section 5). The first half is HeadersFound
  (`Spec => []FramingKept`), and with OutputInOrder it gives OrderedOutput: the output
  is in order until a reader gives up waiting or a failure is counted. Frames
  that span sub-buffers are whole because a read takes units across their
  boundaries (`ReadRest`) and the copying loop adds the next unit each round
  (`CopyStepGrows`). RelayTypes: `Spec => []TypeOK`, from `BoundInv` (BoundsKept):
  a reservation stays within its sub-buffer, and a buffer that is not full has a
  sub-buffer left (`Bounded`), whatever a reader takes for a header.

Only model-checked: all liveness (fairness is out of the prover's reach);
EndDelivered of Utrace (it needs, besides the references, which events the
engines on a list ask for at each place of an attach and of a pass). The
violation runs are about what does not hold.

## 5. Assumptions and what is left out

* A cpu has a context, or init has failed; hotplug and migration between the
  null test and `preempt_disable` are left out.
* Main runs in a system call with enough stack; handlers may find too little.
* Whether a missing context counts as a skipped probe depends on the build
  (INTERRUPTIBLE); the model allows both.
* A group whose deregistration does not wait has handlers in interrupts or with
  preemption off only, and is not among those that run in STARTING
  (`AsyncAssumption`): `stp_synchronize_sched` waits for no others.
* Registration errors: a group that fails has taken its own probes back
  (each group's emit_module_init does).
* InterruptEnds starts from a session that is starting or up. A stapio that
  attaches after the STP_EXIT reply has been read waits for three interrupts.
* stapio's -c child, monitor mode, STP_SYSTEM, relocation and time zone messages
  do not change the protocol and are left out; so is registration of the
  channel (its failure path is listed as a hazard).
* Utrace: the variant for kernels with PREEMPT_RT that defers exec, clone and
  syscall reports to task work, UTRACE_STOP, UTRACE_REPORT and `utrace_barrier`
  (no caller needs them, as nobody detaches an engine of another task), syscall
  and map callbacks, clones made *by* the task, `stap_utrace_detach` and the
  build-id test are left out. StructHeld and EndDelivered say nothing once two
  attachers have raced to make the struct (`raced`): the code adds both, against
  the comment above `utrace_task_alloc`. StructHeld excepts the caller's
  reference on an engine of a task that exits, which `utrace_cleanup` frees
  whatever its count (FIXME at `stp_utrace.c:563`).
* TraceRelay: bulk mode, -S size limits, monitor mode, `kill_relayfs`, overwrite
  mode, cpu hotplug and the last flush of `print_cleanup` are left out.
  `close_relayfs` signals all readers in one step, and signals sent to a reader that
  has already been joined (undefined by POSIX) have no effect. A failing open of the
  next file is left out. A read(2)
  and a write(2) are atomic and a draining read takes everything that is there.
  Delivered excepts a closing stapio (readers leave the loop with data unread), a
  reader that ended on an error, and a transport stopped after an overflow,
  where the last `relay_flush` may find no free sub-buffer.
* Not modelled at all: the components marked not_modelled, with the reasons in
  `PROJECT.json`.

*Known limits.* What the model does, as the code does, and the properties exempt:

* `_stp_request_exit` asks for an exit once, by its static `called`. A stapio killed
  between reading the request and answering it takes it along, and a later stapio
  is not asked. ExitHonoured exempts sessions in which a client was killed, and
  those in which open and release have met (ctl_close_race, ctl_timer_race).
* A reader trusts the sequence number of what it takes for a header. Four to seven
  bytes of an abandoned reservation, zeros on the first lap, together with the
  beginning of the next header are a header with number 0 and a possible length;
  the loop that waits for its turn ends at once for a number that is not above the
  last one, and text goes out of order without a timeout. OrderKept exempts it
  (`misread`); FramingKept says that it takes a counted failure to come there. The
  XXX at `relay.c:212` knows that the number is not validated.
* The handler's `pthread_kill` makes readers run the handler. One that switched on
  its data path takes the signal later; if all flags are clear by then its handler
  asks all readers to switch again: one SIGUSR2, two files. No property forbids it.
* A reader that SIGUSR2 interrupts reads a header although there is nothing, takes
  ENODATA for corruption and drains. A message flushed between the two reads is
  thrown away and no transport failure is counted. NoSilentLoss exempts it
  (`resync`).

## 6. Plan

1. Proofs about Utrace: EndDelivered, by following the target's engine from the
   attach to the death report.
2. Extensions: the -c child's signal handler in CtlSession, registration
   failures in CtlQueue, cpu hotplug in RuntimeContext.
3. An abstract start-run-stop session implemented by CtlSession.

Not planned: script locks, maps and statistics, regular expressions, the front
end, the bpf and dyninst back ends, the cache, the servers. They are sequential,
or pure I/O, or protect themselves by an order fixed at compile time;
`PROJECT.json` has the reason for each.
