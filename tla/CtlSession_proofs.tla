------------------------- MODULE CtlSession_proofs -------------------------
(***************************************************************************)
(* What the control channel promises, for any set of clients: no special   *)
(* message is ever dropped, STP_EXIT comes after the probes are down, the  *)
(* module is unloaded clean, and the control timer of an attached client   *)
(* is lost in one way only, however opens and closes interleave.           *)
(***************************************************************************)
EXTENDS CtlSession, FiniteSetTheorems, TLAPS

(* The clients between open and the decrement of their close, and those
   among them whose open has been accepted.                                 *)
HoldStates ==
    {"attach", "loop", "interrupted", "read", "write_start", "write_exit",
     "close"} \cup InCommand
Holds(c) == pc[c] \in HoldStates
Counted == {c \in Clients : Holds(c) \/ pc[c] = "busy"}

(* _stp_ctl_attached counts the opens, one client at a time has the channel,
   the timer runs only for somebody who will stop it, and a module that is
   gone has no clients.                                                     *)
ChannelInv ==
    /\ IsFiniteSet(Counted) /\ attached = Cardinality(Counted)
    /\ \A c, d \in Clients : Holds(c) /\ Holds(d) => c = d
    /\ timer # "off" =>
         \E c \in Clients : pc[c] \in (HoldStates \ {"attach"}) \cup {"detach"}
    /\ module = "gone" =>
         \A c \in Clients : pc[c] \in {"away", "open", "delete", "gone"}

(* Where a session is in its life, told by the handler that moves it.       *)
StartStates == {"init", "reply", "finish"}
ExitStates == {"exit", "stop", "exit_reply"}

CommandInv ==
    /\ \A c \in Clients :
         /\ pc[c] \in StartStates => transport_state = "START_CALLED"
         /\ pc[c] \in ExitStates => transport_state = "EXIT_CALLED"
         /\ pc[c] = "exit_reply" => session # "up"
    /\ transport_state = "UNINITIALIZED" => session = "none"
    /\ transport_state = "START_CALLED" =>
         \E c \in Clients : pc[c] \in StartStates
    /\ session = "starting" => \E c \in Clients : pc[c] = "init"
    /\ session = "up" =>
         /\ probes_started
         /\ transport_state = "EXIT_CALLED" =>
              \E c \in Clients : pc[c] \in {"exit", "stop"}
    /\ module = "gone" => session \notin {"starting", "up"}

(* A special message is on the list only when its one sender has passed.    *)
Queued(m) == m \in ToSet(ready_q)

MessageInv ==
    /\ ~ dropped
    /\ Queued("START_OK") \/ Queued("START_FAILED") =>
         /\ transport_state # "UNINITIALIZED"
         /\ \A c \in Clients : pc[c] \notin {"init", "reply"}
    /\ Queued("EXIT") =>
         /\ transport_state = "EXIT_CALLED" /\ session # "up"
         /\ \A c \in Clients : pc[c] \notin ExitStates
    /\ Queued("REQUEST_EXIT") => called

CtlInv == TypeOK /\ ChannelInv /\ CommandInv /\ MessageInv

(* A client that is served has the timer, until a release undercuts it.     *)
AttachInv == undercut \/ \A c \in Clients : Serving(c) => timer # "off"

----------------------------------------------------------------------------
(* Which messages are on a list after list_add_tail and list_del.           *)
LEMMA ToSetSeq ==
    ASSUME NEW S, NEW q \in Seq(S), NEW m \in S
    PROVE  /\ ToSet(Append(q, m)) = ToSet(q) \cup {m}
           /\ q # <<>> => ToSet(Tail(q)) \subseteq ToSet(q) /\ Head(q) \in S
<1>1. ToSet(Append(q, m)) = ToSet(q) \cup {m}
  <2> DEFINE r == Append(q, m)
  <2>1. /\ DOMAIN r = 1 .. Len(q) + 1 /\ DOMAIN q = 1 .. Len(q) /\ Len(q) \in Nat
        /\ \A i \in 1 .. Len(q) : r[i] = q[i]
        /\ r[Len(q) + 1] = m
    OBVIOUS
  <2> HIDE DEF r
  <2>2. \A i \in DOMAIN r : r[i] \in ToSet(q) \cup {m}
    <3> TAKE i \in DOMAIN r
    <3>1. i \in DOMAIN q \/ i = Len(q) + 1
      BY <2>1
    <3> QED
      BY <2>1, <3>1 DEF ToSet
  <2>3. \A x \in ToSet(q) : x \in ToSet(r)
    BY <2>1 DEF ToSet
  <2>4. m \in ToSet(r)
    BY <2>1 DEF ToSet
  <2> QED
    BY <2>2, <2>3, <2>4 DEF ToSet, r
<1>2. ASSUME q # <<>> PROVE ToSet(Tail(q)) \subseteq ToSet(q) /\ Head(q) \in S
  <2>1. /\ Len(q) \in Nat /\ Len(q) > 0 /\ DOMAIN q = 1 .. Len(q)
        /\ DOMAIN Tail(q) = 1 .. Len(q) - 1
        /\ \A i \in 1 .. Len(q) - 1 : Tail(q)[i] = q[i + 1]
        /\ Head(q) \in S
    BY <1>2
  <2>2. \A i \in 1 .. Len(q) - 1 : i + 1 \in 1 .. Len(q)
    BY <2>1
  <2> QED
    BY <2>1, <2>2 DEF ToSet
<1> QED
  BY <1>1, <1>2

(* A send puts at most its own message on the list.                         *)
LEMMA SendQueue ==
    ASSUME ready_q \in Seq(Messages), dropped \in BOOLEAN,
           NEW m \in Messages, Send(m)
    PROVE  /\ ready_q' \in Seq(Messages) /\ dropped' \in BOOLEAN
           /\ \A x : x \in ToSet(ready_q') => x \in ToSet(ready_q) \/ x = m
           /\ ~ Queued(m) /\ ~ dropped => ~ dropped'
<1>1. CASE m \in ToSet(ready_q)
  BY <1>1 DEF Send, Queued
<1>2. CASE m \notin ToSet(ready_q)
  <2>1. ready_q' = Append(ready_q, m) /\ dropped' = dropped
    BY <1>2 DEF Send
  <2>2. ToSet(ready_q') = ToSet(ready_q) \cup {m}
    BY <2>1, ToSetSeq
  <2> QED
    BY <2>1, <2>2
<1> QED
  BY <1>1, <1>2

(* The counter is never at zero under somebody who has been counted.        *)
LEMMA CountedPositive ==
    ASSUME ChannelInv, NEW c \in Counted
    PROVE  attached \in Nat \ {0}
BY FS_CardinalityType, FS_EmptySet DEF ChannelInv

----------------------------------------------------------------------------
(* The steps of a client that neither open nor close: what is common to     *)
(* them is that the client stays among those that hold the channel.         *)
Stays(c) ==
    /\ Holds(c) /\ pc[c] # "attach" /\ Serving(c)
    /\ \E l \in HoldStates \ {"attach"} : pc' = [pc EXCEPT ![c] = l]
    /\ UNCHANGED <<module, openvars>>

Serve(c) ==
    \/ Loop(c) \/ Interrupted(c) \/ ReadNothing(c) \/ ReadMessage(c)
    \/ RelayFails(c) \/ Kill(c)

Command(c) ==
    \/ stp_handle_start(c) \/ (\E ok \in BOOLEAN : ModuleInitReturns(c, ok))
    \/ StartReply(c) \/ StartFinished(c)
    \/ stp_cleanup_and_exit(c) \/ SetExitFlag(c) \/ ModuleExitReturns(c)
    \/ ExitReply(c)

(* stapio's main loop and its death keep the channel open ...               *)
LEMMA ServeStays ==
    ASSUME TypeOK, NEW c \in Clients, Serve(c)
    PROVE  Stays(c)
<1> USE DEF TypeOK, Goto, At, Stays, Holds, HoldStates, Serving, openvars, kernelvars
<1>1. CASE Loop(c)
  BY <1>1 DEF Loop, CleanupAndExit
<1>2. CASE Interrupted(c) \/ ReadNothing(c) \/ RelayFails(c) \/ Kill(c)
  BY <1>2 DEF Interrupted, ReadNothing, RelayFails, Kill, CleanupAndExit
<1>3. CASE ReadMessage(c)
  BY <1>3 DEF ReadMessage, CleanupAndExit
<1> QED
  BY <1>1, <1>2, <1>3 DEF Serve

(* ... and so do the command handlers its writes run.                       *)
LEMMA CommandStays ==
    ASSUME TypeOK, NEW c \in Clients, Command(c)
    PROVE  Stays(c)
<1> USE DEF TypeOK, Goto, At, Stays, Holds, HoldStates, Serving, InCommand,
            openvars, kernelvars
<1>1. CASE stp_handle_start(c) \/ StartFinished(c)
  BY <1>1 DEF stp_handle_start, StartFinished, StartWritten, CleanupAndExit
<1>2. CASE \E ok \in BOOLEAN : ModuleInitReturns(c, ok)
  BY <1>2 DEF ModuleInitReturns
<1>3. CASE StartReply(c) \/ SetExitFlag(c) \/ ModuleExitReturns(c)
  BY <1>3 DEF StartReply, SetExitFlag, ModuleExitReturns
<1>4. CASE stp_cleanup_and_exit(c) \/ ExitReply(c)
  BY <1>4 DEF stp_cleanup_and_exit, ExitReply
<1> QED
  BY <1>1, <1>2, <1>3, <1>4 DEF Command

(* Such a step changes neither the count nor who holds the channel.         *)
LEMMA StaysChannel ==
    ASSUME TypeOK, ChannelInv, NEW c \in Clients, Stays(c)
    PROVE  ChannelInv'
<1> PICK l \in HoldStates \ {"attach"} : pc' = [pc EXCEPT ![c] = l]
  BY DEF Stays
<1>1. \A d \in Clients : pc'[d] = IF d = c THEN l ELSE pc[d]
  BY DEF TypeOK
<1>2. \A d \in Clients : Holds(d)' <=> Holds(d)
  BY <1>1 DEF Stays, Holds
<1>3. Counted' = Counted
  BY <1>1, <1>2 DEF Counted, Stays, Holds, HoldStates, InCommand
<1>4. module' = module /\ timer' = timer /\ attached' = attached
  BY DEF Stays, openvars
<1>5. module # "gone"
  BY DEF ChannelInv, Stays, Holds, HoldStates, InCommand
<1> QED
  BY <1>1, <1>2, <1>3, <1>4, <1>5 DEF ChannelInv

(* The steps that open or close the channel.                                *)
LEMMA OpenChannel ==
    ASSUME TypeOK, ChannelInv, NEW c \in Clients, stp_ctl_open_cmd(c)
    PROVE  ChannelInv'
<1> DEFINE l == IF attached' > 1 THEN "busy" ELSE "attach"
<1>1. /\ pc[c] = "open" /\ module = "loaded" /\ module' = module
      /\ attached' = attached + 1 /\ timer' = timer
      /\ pc' = [pc EXCEPT ![c] = l]
  BY DEF stp_ctl_open_cmd, At, Goto, kernelvars
<1>2. /\ c \notin Counted /\ Counted' = Counted \cup {c}
      /\ \A d \in Clients : pc'[d] = IF d = c THEN l ELSE pc[d]
  BY <1>1 DEF Counted, Holds, HoldStates, InCommand, TypeOK
<1>3. IsFiniteSet(Counted') /\ attached' = Cardinality(Counted')
  BY <1>1, <1>2, FS_AddElement DEF ChannelInv
<1>4. l = "attach" => Counted = {}
  BY <1>1, FS_EmptySet DEF ChannelInv, TypeOK
<1>5. \A d, e \in Clients : Holds(d)' /\ Holds(e)' => d = e
  <2>1. CASE l = "attach"
    BY <2>1, <1>2, <1>4 DEF Counted, Holds
  <2>2. CASE l = "busy"
    BY <2>2, <1>2 DEF ChannelInv, Holds, HoldStates, InCommand
  <2> QED BY <2>1, <2>2
<1>6. timer' # "off" =>
        \E d \in Clients : pc'[d] \in (HoldStates \ {"attach"}) \cup {"detach"}
  <2> SUFFICES ASSUME timer' # "off"
               PROVE \E d \in Clients :
                       pc'[d] \in (HoldStates \ {"attach"}) \cup {"detach"}
    OBVIOUS
  <2>1. PICK d \in Clients : pc[d] \in (HoldStates \ {"attach"}) \cup {"detach"}
    BY <1>1 DEF ChannelInv
  <2>2. d # c
    BY <1>1, <2>1 DEF HoldStates, InCommand
  <2> QED BY <1>2, <2>1, <2>2
<1> QED
  BY <1>1, <1>3, <1>5, <1>6 DEF ChannelInv

(* Giving the count back, by a refused open or by a close.                  *)
LEMMA UncountChannel ==
    ASSUME TypeOK, ChannelInv, NEW c \in Clients,
           OpenBusy(c) \/ stp_ctl_close_cmd(c)
    PROVE  ChannelInv' /\ attached' \in Nat
<1> DEFINE l == IF pc[c] = "busy" THEN "gone" ELSE "detach"
<1>1. /\ pc[c] \in {"busy", "close"} /\ module' = module
      /\ attached' = attached - 1 /\ timer' = timer
      /\ pc' = [pc EXCEPT ![c] = l]
  BY DEF OpenBusy, stp_ctl_close_cmd, At, Goto, kernelvars
<1>2. \A d \in Clients : pc'[d] = IF d = c THEN l ELSE pc[d]
  BY <1>1 DEF TypeOK
<1>3. c \in Counted /\ Counted' = Counted \ {c}
  BY <1>1, <1>2 DEF Counted, Holds, HoldStates, InCommand
<1>4. IsFiniteSet(Counted') /\ attached' = Cardinality(Counted')
  BY <1>1, <1>3, FS_RemoveElement DEF ChannelInv
<1>5. \A d, e \in Clients : Holds(d)' /\ Holds(e)' => d = e
  BY <1>2 DEF ChannelInv, Holds, HoldStates, InCommand
<1>6. timer' # "off" =>
        \E d \in Clients : pc'[d] \in (HoldStates \ {"attach"}) \cup {"detach"}
  <2> SUFFICES ASSUME timer' # "off"
               PROVE \E d \in Clients :
                       pc'[d] \in (HoldStates \ {"attach"}) \cup {"detach"}
    OBVIOUS
  <2>1. PICK d \in Clients : pc[d] \in (HoldStates \ {"attach"}) \cup {"detach"}
    BY <1>1 DEF ChannelInv
  <2>2. d = c => pc[c] = "close"
    BY <1>1, <2>1 DEF HoldStates, InCommand
  <2> QED BY <1>2, <2>1, <2>2
<1>7. module # "gone"
  BY <1>1 DEF ChannelInv
<1>8. attached' \in Nat
  BY <1>4, FS_CardinalityType
<1> QED
  BY <1>1, <1>4, <1>5, <1>6, <1>7, <1>8 DEF ChannelInv

(* Starting and stopping the timer.                                         *)
LEMMA AttachChannel ==
    ASSUME TypeOK, ChannelInv, NEW c \in Clients, stp_attach(c)
    PROVE  ChannelInv'
<1>1. PICK l \in {"loop", "close"} :
        /\ pc[c] = "attach" /\ module' = module
        /\ attached' = attached /\ pc' = [pc EXCEPT ![c] = l]
  BY DEF stp_attach, At, Goto, kernelvars
<1>2. \A d \in Clients : pc'[d] = IF d = c THEN l ELSE pc[d]
  BY <1>1 DEF TypeOK
<1>3. /\ \A d \in Clients : Holds(d)' <=> Holds(d)
      /\ Counted' = Counted
  BY <1>1, <1>2 DEF Counted, Holds, HoldStates, InCommand
<1>4. pc'[c] \in HoldStates \ {"attach"} /\ module # "gone"
  BY <1>1, <1>2 DEF ChannelInv, HoldStates
<1> QED
  BY <1>1, <1>2, <1>3, <1>4 DEF ChannelInv

(* The client has left.                                                     *)
LEMMA DetachChannel ==
    ASSUME TypeOK, ChannelInv, NEW c \in Clients, stp_detach(c)
    PROVE  ChannelInv'
<1>1. /\ pc[c] = "detach" /\ module' = module /\ timer' = "off"
      /\ attached' = attached
      /\ \E l \in {"gone", "open", "delete"} : pc' = [pc EXCEPT ![c] = l]
  BY DEF stp_detach, Detached, At, Goto, kernelvars, TypeOK
<1>2. PICK l \in {"gone", "open", "delete"} : pc' = [pc EXCEPT ![c] = l]
  BY <1>1
<1>3. \A d \in Clients : pc'[d] = IF d = c THEN l ELSE pc[d]
  BY <1>2 DEF TypeOK
<1>4. /\ \A d \in Clients : Holds(d)' <=> Holds(d)
      /\ Counted' = Counted
  BY <1>1, <1>3 DEF Counted, Holds, HoldStates, InCommand
<1> QED
  BY <1>1, <1>3, <1>4 DEF ChannelInv

(* Arriving, and unloading the module.                                      *)
LEMMA OutsideChannel ==
    ASSUME TypeOK, ChannelInv, NEW c \in Clients,
           Come(c) \/ NoModule(c) \/ DeleteModule(c)
    PROVE  ChannelInv'
<1>1. PICK l \in {"open", "gone"} : pc' = [pc EXCEPT ![c] = l]
  BY DEF Come, NoModule, DeleteModule, Goto
<1>2. /\ pc[c] \in {"away", "open", "delete"}
      /\ attached' = attached /\ timer' = timer
      /\ \/ module' = module
         \/ \A d \in Clients : pc[d] \in {"away", "gone", "open", "delete"}
  BY DEF Come, NoModule, DeleteModule, InUse, At, kernelvars, openvars
<1>3. \A d \in Clients : pc'[d] = IF d = c THEN l ELSE pc[d]
  BY <1>1 DEF TypeOK
<1>4. /\ \A d \in Clients : Holds(d)' <=> Holds(d)
      /\ Counted' = Counted
  BY <1>1, <1>2, <1>3 DEF Counted, Holds, HoldStates, InCommand
<1>5. timer' # "off" =>
        \E d \in Clients : pc'[d] \in (HoldStates \ {"attach"}) \cup {"detach"}
  <2> SUFFICES ASSUME timer' # "off"
               PROVE \E d \in Clients :
                       pc'[d] \in (HoldStates \ {"attach"}) \cup {"detach"}
    OBVIOUS
  <2>1. PICK d \in Clients : pc[d] \in (HoldStates \ {"attach"}) \cup {"detach"}
    BY <1>2 DEF ChannelInv
  <2>2. d # c
    BY <1>2, <2>1 DEF HoldStates, InCommand
  <2> QED BY <1>3, <2>1, <2>2
<1>6. module' = "gone" =>
        \A d \in Clients : pc'[d] \in {"away", "open", "delete", "gone"}
  BY <1>1, <1>2, <1>3 DEF ChannelInv
<1> QED
  BY <1>2, <1>4, <1>5, <1>6 DEF ChannelInv

(* The timer, probes and signals leave the clients where they are.          *)
Elsewhere ==
    \/ \E c \in Clients, quit \in BOOLEAN : Signal(c, quit)
    \/ TimerStep \/ ProbeExit \/ UNCHANGED vars

(* Their steps keep the channel's account.                                  *)
LEMMA ElsewhereChannel ==
    ASSUME TypeOK, ChannelInv, Elsewhere
    PROVE  ChannelInv'
<1>1. /\ pc' = pc /\ module' = module /\ attached' = attached
      /\ timer' # "off" => timer # "off"
  BY DEF Elsewhere, Signal, TimerStep, stp_ctl_work_callback, TimerRearm,
         ProbeExit, vars, kernelvars, queuevars, openvars, clientvars
<1>2. Counted' = Counted /\ \A c \in Clients : Holds(c)' <=> Holds(c)
  BY <1>1 DEF Counted, Holds
<1> QED
  BY <1>1, <1>2 DEF ChannelInv

(* What a step is, for the proofs below.                                    *)
LEMMA Steps ==
    ASSUME [Next]_vars
    PROVE  \/ Elsewhere
           \/ \E c \in Clients :
                \/ Come(c) \/ NoModule(c) \/ DeleteModule(c)
                \/ stp_ctl_open_cmd(c) \/ OpenBusy(c) \/ stp_ctl_close_cmd(c)
                \/ stp_attach(c) \/ stp_detach(c)
                \/ Serve(c) \/ Command(c)
BY DEF Next, ClientStep, Finished, Elsewhere, Serve, Command

(* The counter, the holder, the timer and the module agree after any step.  *)
LEMMA ChannelStep ==
    ASSUME TypeOK, ChannelInv, [Next]_vars
    PROVE  ChannelInv'
BY Steps, ElsewhereChannel, OutsideChannel, OpenChannel, UncountChannel,
   AttachChannel, DetachChannel, ServeStays, CommandStays, StaysChannel

----------------------------------------------------------------------------
(* The types of the variables that opening and closing leave alone.         *)
LEMMA ServeType ==
    ASSUME TypeOK, NEW c \in Clients, Serve(c)
    PROVE  TypeOK'
<1> USE DEF TypeOK, Goto, At, kernelvars, queuevars, openvars, clientvars
<1>1. pc' \in [Clients -> ClientStates]
  BY ServeStays DEF Stays, HoldStates, ClientStates, InCommand
<1>2. CASE Loop(c)
  <2>1. /\ ret' \in [Clients -> {"loop", "interrupted"}]
        /\ goal' \in [Clients -> {"serve", "unload", "remove", "killed"}]
    BY <1>2 DEF Loop, CleanupAndExit
  <2> QED
    BY <1>1, <1>2, <2>1 DEF Loop
<1>3. CASE Interrupted(c) \/ ReadNothing(c) \/ RelayFails(c) \/ Kill(c)
  <2>1. CASE Interrupted(c)
    <3>1. goal' \in [Clients -> {"serve", "unload", "remove", "killed"}]
      BY <2>1 DEF Interrupted, CleanupAndExit
    <3>2. ret' = ret
      BY <2>1 DEF Interrupted, CleanupAndExit
    <3> QED
      BY <1>1, <2>1, <3>1, <3>2 DEF Interrupted
  <2>2. CASE ReadNothing(c)
    BY <1>1, <2>2 DEF ReadNothing
  <2>3. CASE RelayFails(c)
    BY <1>1, <2>3 DEF RelayFails, CleanupAndExit
  <2>4. CASE Kill(c)
    BY <1>1, <2>4 DEF Kill
  <2> QED
    BY <1>3, <2>1, <2>2, <2>3, <2>4
<1>4. CASE ReadMessage(c)
  <2>1. /\ ret' \in [Clients -> {"loop", "interrupted"}]
        /\ goal' \in [Clients -> {"serve", "unload", "remove", "killed"}]
    BY <1>4 DEF ReadMessage, CleanupAndExit
  <2>2. ready_q' \in Seq(Messages)
    BY <1>4 DEF ReadMessage
  <2> QED
    BY <1>1, <1>4, <2>1, <2>2 DEF ReadMessage
<1> QED
  BY <1>2, <1>3, <1>4 DEF Serve

(* The same for the command handlers.                                       *)
LEMMA CommandType ==
    ASSUME TypeOK, NEW c \in Clients, Command(c)
    PROVE  TypeOK'
<1> USE DEF TypeOK, Goto, At, kernelvars, queuevars, openvars, clientvars
<1>1. pc' \in [Clients -> ClientStates]
  BY CommandStays DEF Stays, HoldStates, ClientStates, InCommand
<1>2. CASE stp_handle_start(c) \/ StartFinished(c)
  <2>1. /\ ret' \in [Clients -> {"loop", "interrupted"}]
        /\ goal' \in [Clients -> {"serve", "unload", "remove", "killed"}]
    BY <1>2 DEF stp_handle_start, StartFinished, StartWritten, CleanupAndExit
  <2>2. CASE stp_handle_start(c)
    BY <1>1, <2>1, <2>2 DEF stp_handle_start
  <2>3. CASE StartFinished(c)
    BY <1>1, <2>1, <2>3 DEF StartFinished
  <2> QED
    BY <1>2, <2>2, <2>3
<1>3. CASE \E ok \in BOOLEAN : ModuleInitReturns(c, ok)
  BY <1>1, <1>3 DEF ModuleInitReturns
<1>4. CASE StartReply(c)
  <2>1. (IF probes_started THEN "START_OK" ELSE "START_FAILED") \in Messages
    BY DEF Messages
  <2>2. ready_q' \in Seq(Messages) /\ dropped' \in BOOLEAN
    BY <1>4, <2>1, SendQueue DEF StartReply
  <2> QED
    BY <1>1, <1>4, <2>2 DEF StartReply
<1>5. CASE SetExitFlag(c) \/ ModuleExitReturns(c)
  <2>1. CASE SetExitFlag(c)
    BY <1>1, <2>1 DEF SetExitFlag
  <2>2. CASE ModuleExitReturns(c)
    BY <1>1, <2>2 DEF ModuleExitReturns
  <2> QED
    BY <1>5, <2>1, <2>2
<1>6. CASE stp_cleanup_and_exit(c)
  BY <1>1, <1>6 DEF stp_cleanup_and_exit
<1>7. CASE ExitReply(c)
  <2>1. ready_q' \in Seq(Messages) /\ dropped' \in BOOLEAN
    BY <1>7, SendQueue DEF ExitReply, Messages
  <2> QED
    BY <1>1, <1>7, <2>1 DEF ExitReply
<1> QED
  BY <1>2, <1>3, <1>4, <1>5, <1>6, <1>7 DEF Command

(* Every variable keeps its type.                                           *)
LEMMA TypeStep ==
    ASSUME TypeOK, ChannelInv, [Next]_vars
    PROVE  TypeOK'
<1> USE DEF TypeOK, Goto, At, kernelvars, queuevars, openvars, clientvars
<1>1. CASE Elsewhere
  <2>1. CASE \E c \in Clients, quit \in BOOLEAN : Signal(c, quit)
    BY <2>1, CtlAssumption DEF Signal
  <2>2. CASE stp_ctl_work_callback
    <3>1. ready_q' \in Seq(Messages) /\ dropped' \in BOOLEAN
      BY <2>2, SendQueue DEF stp_ctl_work_callback, Messages
    <3> QED
      BY <2>2, <3>1 DEF stp_ctl_work_callback
  <2>3. CASE TimerRearm
    BY <2>3 DEF TimerRearm
  <2>4. CASE ProbeExit
    BY <2>4 DEF ProbeExit
  <2>5. CASE UNCHANGED vars
    BY <2>5 DEF vars
  <2> QED
    BY <1>1, <2>1, <2>2, <2>3, <2>4, <2>5 DEF Elsewhere, TimerStep
<1>2. ASSUME NEW c \in Clients,
             Come(c) \/ NoModule(c) \/ stp_ctl_open_cmd(c) \/ stp_attach(c)
      PROVE  TypeOK'
  <2> USE DEF ClientStates
  <2>1. CASE Come(c)
    BY <2>1 DEF Come
  <2>2. CASE NoModule(c)
    BY <2>2 DEF NoModule
  <2>3. CASE stp_ctl_open_cmd(c)
    BY <2>3 DEF stp_ctl_open_cmd
  <2>4. CASE stp_attach(c)
    BY <2>4 DEF stp_attach
  <2> QED
    BY <1>2, <2>1, <2>2, <2>3, <2>4
<1>3. ASSUME NEW c \in Clients, OpenBusy(c) \/ stp_ctl_close_cmd(c)
      PROVE  TypeOK'
  <2>1. attached' \in Nat
    BY <1>3, UncountChannel
  <2>2. CASE OpenBusy(c)
    BY <2>1, <2>2 DEF OpenBusy, ClientStates
  <2>3. CASE stp_ctl_close_cmd(c)
    <3>1. bug' \in BOOLEAN
      BY <2>3 DEF stp_ctl_close_cmd
    <3> QED
      BY <2>1, <2>3, <3>1 DEF stp_ctl_close_cmd, ClientStates
  <2> QED
    BY <1>3, <2>2, <2>3
<1>4. ASSUME NEW c \in Clients, stp_detach(c)
      PROVE  TypeOK'
  <2>1. pc' \in [Clients -> ClientStates]
    BY <1>4 DEF stp_detach, Detached, ClientStates
  <2>2. goal' \in [Clients -> {"serve", "unload", "remove", "killed"}]
    BY <1>4 DEF stp_detach, Detached
  <2> QED
    BY <1>4, <2>1, <2>2 DEF stp_detach, Detached
<1>5. ASSUME NEW c \in Clients, DeleteModule(c)
      PROVE  TypeOK'
  <2>1. CASE InUse \/ module = "gone"
    BY <1>5, <2>1 DEF DeleteModule, ClientStates
  <2>2. CASE ~ (InUse \/ module = "gone")
    <3>1. ready_q' \in Seq(Messages)
      BY <1>5, <2>2 DEF DeleteModule
    <3> QED
      BY <1>5, <2>2, <3>1 DEF DeleteModule, ClientStates
  <2> QED
    BY <2>1, <2>2
<1> QED
  BY <1>1, <1>2, <1>3, <1>4, <1>5, Steps, ServeType, CommandType

----------------------------------------------------------------------------
(* A session starts once, ends once, and is up only with its probes
   started and somebody still to take it down.                              *)

(* Steps of a client outside the command handlers.                          *)
LEMMA CommandKept ==
    ASSUME TypeOK, CommandInv, NEW c \in Clients, NEW l \in ClientStates,
           pc[c] \notin InCommand, l \notin InCommand,
           pc' = [pc EXCEPT ![c] = l],
           UNCHANGED <<module, session, transport_state, probes_started>>
    PROVE  CommandInv'
<1>1. \A d \in Clients : pc'[d] = IF d = c THEN l ELSE pc[d]
  BY DEF TypeOK
<1>2. \A d \in Clients : pc[d] \in InCommand => d # c
  OBVIOUS
<1> QED
  BY <1>1, <1>2 DEF CommandInv, StartStates, ExitStates, InCommand

(* stapio's main loop moves no session.                                     *)
LEMMA CommandServe ==
    ASSUME TypeOK, CommandInv, NEW c \in Clients, Serve(c)
    PROVE  CommandInv'
<1>1. \E l \in {"read", "close", "write_exit", "write_start", "loop"} :
        /\ pc[c] \in {"loop", "interrupted", "read", "write_start", "write_exit"}
        /\ pc' = [pc EXCEPT ![c] = l]
        /\ UNCHANGED <<module, session, transport_state, probes_started>>
  <2> USE DEF Goto, At, CleanupAndExit, kernelvars
  <2>1. CASE Loop(c)
    BY <2>1 DEF Loop
  <2>2. CASE Interrupted(c) \/ ReadNothing(c) \/ RelayFails(c) \/ Kill(c)
    BY <2>2 DEF Interrupted, ReadNothing, RelayFails, Kill
  <2>3. CASE ReadMessage(c)
    BY <2>3 DEF ReadMessage
  <2> QED
    BY <2>1, <2>2, <2>3 DEF Serve
<1> QED
  BY <1>1, CommandKept DEF InCommand, ClientStates

(* The command handlers themselves, one client at a time.                   *)
LEMMA CommandCommand ==
    ASSUME TypeOK, ChannelInv, CommandInv, NEW c \in Clients, Command(c)
    PROVE  CommandInv'
<1>1. PICK l \in HoldStates : pc' = [pc EXCEPT ![c] = l]
  BY CommandStays DEF Stays
<1>2. \A d \in Clients : pc'[d] = IF d = c THEN l ELSE pc[d]
  BY <1>1 DEF TypeOK
<1>3. /\ \A d \in Clients : d # c => pc[d] \notin InCommand
      /\ module' = module /\ module # "gone"
  BY CommandStays DEF ChannelInv, Stays, Holds, HoldStates, InCommand
<1> USE DEF TypeOK, CommandInv, StartStates, ExitStates, InCommand, Goto, At,
            kernelvars, HoldStates
<1>4. CASE stp_handle_start(c)
  BY <1>2, <1>3, <1>4 DEF stp_handle_start, StartWritten, CleanupAndExit
<1>5. CASE \E ok \in BOOLEAN : ModuleInitReturns(c, ok)
  BY <1>2, <1>3, <1>5 DEF ModuleInitReturns
<1>6. CASE StartReply(c) \/ StartFinished(c)
  BY <1>2, <1>3, <1>6 DEF StartReply, StartFinished, StartWritten, CleanupAndExit
<1>7. CASE stp_cleanup_and_exit(c)
  BY <1>2, <1>3, <1>7 DEF stp_cleanup_and_exit
<1>8. CASE SetExitFlag(c) \/ ModuleExitReturns(c)
  BY <1>2, <1>3, <1>8 DEF SetExitFlag, ModuleExitReturns
<1>9. CASE ExitReply(c)
  BY <1>2, <1>3, <1>9 DEF ExitReply
<1> QED
  BY <1>4, <1>5, <1>6, <1>7, <1>8, <1>9 DEF Command

(* Opening, closing, arriving and leaving.                                  *)
Passage(c) ==
    \/ Come(c) \/ NoModule(c) \/ stp_ctl_open_cmd(c) \/ OpenBusy(c)
    \/ stp_attach(c) \/ stp_ctl_close_cmd(c) \/ stp_detach(c)

(* They start, end and send nothing.                                        *)
LEMMA PassageMoves ==
    ASSUME TypeOK, NEW c \in Clients, Passage(c)
    PROVE  /\ \E l \in ClientStates \ InCommand : pc' = [pc EXCEPT ![c] = l]
           /\ pc[c] \notin InCommand
           /\ UNCHANGED <<kernelvars, queuevars>>
<1> USE DEF Goto, At, InCommand, ClientStates
<1>1. CASE Come(c) \/ NoModule(c) \/ stp_ctl_open_cmd(c) \/ OpenBusy(c)
  BY <1>1 DEF Come, NoModule, stp_ctl_open_cmd, OpenBusy
<1>2. CASE stp_attach(c) \/ stp_ctl_close_cmd(c)
  BY <1>2 DEF stp_attach, stp_ctl_close_cmd
<1>3. CASE stp_detach(c)
  BY <1>3 DEF stp_detach, Detached, TypeOK
<1> QED
  BY <1>1, <1>2, <1>3 DEF Passage

(* cleanup_module runs with no handler on its way.                          *)
LEMMA CommandDelete ==
    ASSUME TypeOK, CommandInv, NEW c \in Clients, DeleteModule(c)
    PROVE  CommandInv'
<1>1. pc[c] = "delete" /\ pc' = [pc EXCEPT ![c] = "gone"]
  BY DEF DeleteModule, At, Goto
<1>2. CASE InUse \/ module = "gone"
  <2>1. UNCHANGED <<module, session, transport_state, probes_started>>
    BY <1>2 DEF DeleteModule, kernelvars
  <2> QED
    BY <1>1, <2>1, CommandKept DEF InCommand, ClientStates
<1>3. CASE ~ (InUse \/ module = "gone")
  <2>1. /\ \A d \in Clients : pc[d] \notin InCommand
        /\ \A d \in Clients : pc'[d] = IF d = c THEN "gone" ELSE pc[d]
    BY <1>1, <1>3 DEF InUse, InCommand, TypeOK
  <2>2. /\ probes_started' = probes_started
        /\ IF transport_state = "START_FINISHED"
           THEN /\ transport_state' = "EXIT_CALLED"
                /\ session' = IF probes_started THEN "down" ELSE session
           ELSE UNCHANGED <<transport_state, session>>
    BY <1>3 DEF DeleteModule
  <2> QED
    BY <2>1, <2>2 DEF TypeOK, CommandInv, StartStates, ExitStates, InCommand
<1> QED
  BY <1>2, <1>3

(* The session's history is kept by every step.                             *)
LEMMA CommandStep ==
    ASSUME TypeOK, ChannelInv, CommandInv, [Next]_vars
    PROVE  CommandInv'
<1>1. CASE Elsewhere
  <2>1. UNCHANGED <<pc, module, session, transport_state, probes_started>>
    BY <1>1 DEF Elsewhere, Signal, TimerStep, stp_ctl_work_callback, TimerRearm,
                ProbeExit, vars, kernelvars, clientvars
  <2> QED
    BY <2>1 DEF CommandInv
<1>2. ASSUME NEW c \in Clients, Passage(c) PROVE CommandInv'
  BY <1>2, PassageMoves, CommandKept DEF kernelvars
<1> QED
  BY <1>1, <1>2, Steps, CommandServe, CommandCommand, CommandDelete DEF Passage

----------------------------------------------------------------------------
(* No special message is sent while its buffer is in use: steps that put
   nothing on the list, and move no handler to where it has yet to send.    *)
LEMMA MessageKept ==
    ASSUME MessageInv, NEW c \in Clients,
           \A x : x \in ToSet(ready_q') => x \in ToSet(ready_q),
           dropped' = dropped,
           called => called',
           transport_state # "UNINITIALIZED" => transport_state' # "UNINITIALIZED",
           transport_state = "EXIT_CALLED" => transport_state' = "EXIT_CALLED",
           session # "up" => session' # "up",
           \A d \in Clients : d # c => pc'[d] = pc[d],
           pc'[c] \in {"init", "reply"} => pc[c] \in {"init", "reply"},
           pc'[c] \in ExitStates => pc[c] \in ExitStates
    PROVE  MessageInv'
<1>1. \A x : Queued(x)' => Queued(x)
  BY DEF Queued
<1>2. \A d \in Clients :
        /\ pc'[d] \in {"init", "reply"} => pc[d] \in {"init", "reply"}
        /\ pc'[d] \in ExitStates => pc[d] \in ExitStates
  OBVIOUS
<1> QED
  BY <1>1, <1>2 DEF MessageInv

(* stapio only takes messages off the list.                                 *)
LEMMA MessageServe ==
    ASSUME TypeOK, MessageInv, NEW c \in Clients, Serve(c)
    PROVE  MessageInv'
<1>1. PICK l \in {"read", "close", "write_exit", "write_start", "loop"} :
        /\ pc' = [pc EXCEPT ![c] = l]
        /\ UNCHANGED <<kernelvars, dropped>>
  <2> USE DEF Goto, At, CleanupAndExit, queuevars
  <2>1. CASE Loop(c)
    BY <2>1 DEF Loop
  <2>2. CASE Interrupted(c) \/ ReadNothing(c) \/ RelayFails(c) \/ Kill(c)
    BY <2>2 DEF Interrupted, ReadNothing, RelayFails, Kill
  <2>3. CASE ReadMessage(c)
    BY <2>3 DEF ReadMessage
  <2> QED
    BY <2>1, <2>2, <2>3 DEF Serve
<1>2. ready_q' = ready_q \/ (ready_q # <<>> /\ ready_q' = Tail(ready_q))
  BY DEF Serve, Loop, Interrupted, ReadNothing, RelayFails, Kill, ReadMessage,
         queuevars
<1>3. \A x : x \in ToSet(ready_q') => x \in ToSet(ready_q)
  <2>1. ready_q \in Seq(Messages) /\ "EXIT" \in Messages
    BY DEF TypeOK, Messages
  <2>2. ready_q # <<>> => ToSet(Tail(ready_q)) \subseteq ToSet(ready_q)
    BY <2>1, ToSetSeq
  <2> QED
    BY <1>2, <2>2
<1>4. \A d \in Clients : pc'[d] = IF d = c THEN l ELSE pc[d]
  BY <1>1 DEF TypeOK
<1> QED
  BY <1>1, <1>3, <1>4, MessageKept DEF kernelvars, ExitStates

(* The command handlers, among them the two that send.                      *)
LEMMA MessageCommand ==
    ASSUME TypeOK, ChannelInv, CommandInv, MessageInv, NEW c \in Clients,
           Command(c)
    PROVE  MessageInv'
<1>1. PICK l \in HoldStates : pc' = [pc EXCEPT ![c] = l]
  BY CommandStays DEF Stays
<1>2. \A d \in Clients : pc'[d] = IF d = c THEN l ELSE pc[d]
  BY <1>1 DEF TypeOK
<1>3. \A d \in Clients : d # c => pc[d] \notin InCommand
  BY CommandStays DEF ChannelInv, Stays, Holds, HoldStates
<1> USE DEF Goto, At
<1>4. CASE stp_handle_start(c)
  <2>1. ready_q' = ready_q /\ dropped' = dropped /\ called' = called
    BY <1>4 DEF stp_handle_start, queuevars
  <2>2. CASE transport_state = "UNINITIALIZED"
    <3>1. ~ Queued("START_OK") /\ ~ Queued("START_FAILED") /\ ~ Queued("EXIT")
      BY <2>2 DEF MessageInv
    <3> QED
      BY <2>1, <3>1 DEF MessageInv, Queued
  <2>3. CASE transport_state # "UNINITIALIZED"
    <3>1. UNCHANGED <<transport_state, session>> /\ pc'[c] \in {"close", "loop"}
      BY <1>2, <1>4, <2>3 DEF stp_handle_start, StartWritten, CleanupAndExit, TypeOK
    <3> QED
      BY <1>2, <2>1, <3>1, MessageKept DEF ExitStates
  <2> QED
    BY <2>2, <2>3
<1>5. CASE \E ok \in BOOLEAN : ModuleInitReturns(c, ok)
  <2>1. /\ ready_q' = ready_q /\ dropped' = dropped /\ called' = called
        /\ transport_state' = transport_state /\ pc[c] = "init" /\ l = "reply"
    BY <1>1, <1>5 DEF ModuleInitReturns, queuevars, TypeOK
  <2>2. ~ Queued("START_OK") /\ ~ Queued("START_FAILED") /\ ~ Queued("EXIT")
    BY <2>1 DEF MessageInv, CommandInv, StartStates
  <2> QED
    BY <2>1, <2>2 DEF MessageInv, Queued
<1>6. CASE StartReply(c)
  <2> DEFINE m == IF probes_started THEN "START_OK" ELSE "START_FAILED"
  <2>1. /\ pc[c] = "reply" /\ l = "finish" /\ Send(m)
        /\ UNCHANGED kernelvars
    BY <1>1, <1>6 DEF StartReply, TypeOK
  <2>2. m \in Messages /\ m \in {"START_OK", "START_FAILED"}
    BY DEF Messages
  <2>3. ~ Queued(m)
    BY <2>1, <2>2 DEF MessageInv
  <2> HIDE DEF m
  <2>4. /\ \A x : x \in ToSet(ready_q') => x \in ToSet(ready_q) \/ x = m
        /\ ~ dropped'
    BY <2>1, <2>2, <2>3, SendQueue DEF TypeOK, MessageInv
  <2>5. transport_state = "START_CALLED"
    BY <2>1 DEF CommandInv, StartStates
  <2>6. /\ Queued("EXIT")' => Queued("EXIT")
        /\ Queued("REQUEST_EXIT")' => Queued("REQUEST_EXIT")
    BY <2>2, <2>4 DEF Queued
  <2>7. \A d \in Clients : pc'[d] \notin {"init", "reply"}
    BY <1>2, <1>3, <2>1 DEF InCommand
  <2> QED
    BY <2>1, <2>4, <2>5, <2>6, <2>7 DEF MessageInv, kernelvars
<1>7. CASE StartFinished(c)
  <2>1. /\ pc[c] = "finish" /\ l \in {"close", "loop"}
        /\ transport_state' = "START_FINISHED"
        /\ UNCHANGED <<ready_q, dropped, called, session>>
    BY <1>2, <1>7 DEF StartFinished, StartWritten, CleanupAndExit, queuevars, TypeOK
  <2>2. ~ Queued("EXIT")
    BY <2>1 DEF MessageInv, CommandInv, StartStates
  <2>3. \A d \in Clients : pc'[d] \in {"init", "reply"} => pc[d] \in {"init", "reply"}
    BY <1>2, <2>1
  <2> QED
    BY <2>1, <2>2, <2>3 DEF MessageInv, Queued
<1>8. CASE stp_cleanup_and_exit(c)
  <2>1. UNCHANGED <<ready_q, dropped, called, session>> /\ pc[c] = "write_exit"
    BY <1>8 DEF stp_cleanup_and_exit, queuevars
  <2>2. CASE transport_state = "START_FINISHED"
    <3>1. transport_state' = "EXIT_CALLED" /\ l = "exit" /\ ~ Queued("EXIT")
      BY <1>2, <1>8, <2>2 DEF stp_cleanup_and_exit, MessageInv, TypeOK
    <3>2. \A d \in Clients : pc'[d] \in {"init", "reply"} => pc[d] \in {"init", "reply"}
      BY <1>2, <3>1
    <3> QED
      BY <2>1, <3>1, <3>2 DEF MessageInv, Queued
  <2>3. CASE transport_state # "START_FINISHED"
    <3>1. transport_state' = transport_state /\ l \in {"loop", "interrupted"}
      BY <1>2, <1>8, <2>3 DEF stp_cleanup_and_exit, TypeOK
    <3> QED
      BY <1>2, <2>1, <3>1, MessageKept DEF ExitStates
  <2> QED
    BY <2>2, <2>3
<1>9. CASE SetExitFlag(c) \/ ModuleExitReturns(c)
  <2>1. /\ pc[c] \in ExitStates /\ l \in ExitStates
        /\ UNCHANGED <<ready_q, dropped, called, transport_state>>
        /\ session # "up" => session' # "up"
    BY <1>2, <1>9 DEF SetExitFlag, ModuleExitReturns, queuevars, ExitStates, TypeOK
  <2> QED
    BY <1>2, <2>1, MessageKept DEF ExitStates
<1>10. CASE ExitReply(c)
  <2>1. /\ pc[c] = "exit_reply" /\ l \in {"loop", "interrupted"} /\ Send("EXIT")
        /\ UNCHANGED kernelvars
    BY <1>2, <1>10 DEF ExitReply, TypeOK
  <2>2. ~ Queued("EXIT")
    BY <2>1 DEF MessageInv, ExitStates
  <2>3. /\ \A x : x \in ToSet(ready_q') => x \in ToSet(ready_q) \/ x = "EXIT"
        /\ ~ dropped'
    BY <2>1, <2>2, SendQueue DEF TypeOK, MessageInv, Messages
  <2>4. transport_state = "EXIT_CALLED" /\ session # "up"
    BY <2>1 DEF CommandInv, ExitStates
  <2>5. /\ Queued("START_OK")' => Queued("START_OK")
        /\ Queued("START_FAILED")' => Queued("START_FAILED")
        /\ Queued("REQUEST_EXIT")' => Queued("REQUEST_EXIT")
    BY <2>3 DEF Queued
  <2>6. \A d \in Clients :
          /\ pc'[d] \notin ExitStates
          /\ pc'[d] \in {"init", "reply"} => pc[d] \in {"init", "reply"}
    BY <1>2, <1>3, <2>1 DEF InCommand, ExitStates
  <2> QED
    BY <2>1, <2>3, <2>4, <2>5, <2>6 DEF MessageInv, kernelvars
<1> QED
  BY <1>4, <1>5, <1>6, <1>7, <1>8, <1>9, <1>10 DEF Command

(* The timer asks for an exit once.                                         *)
LEMMA MessageTimer ==
    ASSUME TypeOK, MessageInv, stp_ctl_work_callback
    PROVE  MessageInv'
<1>1. UNCHANGED <<pc, session, transport_state>>
  BY DEF stp_ctl_work_callback, clientvars
<1>2. CASE exit_flag /\ probes_started /\ ~ called
  <2>1. called' = TRUE /\ Send("REQUEST_EXIT")
    BY <1>2 DEF stp_ctl_work_callback
  <2>2. ~ Queued("REQUEST_EXIT")
    BY <1>2 DEF MessageInv
  <2>3. /\ \A x : x \in ToSet(ready_q') => x \in ToSet(ready_q) \/ x = "REQUEST_EXIT"
        /\ ~ dropped'
    BY <2>1, <2>2, SendQueue DEF TypeOK, MessageInv, Messages
  <2>4. /\ Queued("START_OK")' => Queued("START_OK")
        /\ Queued("START_FAILED")' => Queued("START_FAILED")
        /\ Queued("EXIT")' => Queued("EXIT")
    BY <2>3 DEF Queued
  <2> QED
    BY <1>1, <2>1, <2>3, <2>4 DEF MessageInv
<1>3. CASE ~ (exit_flag /\ probes_started /\ ~ called)
  BY <1>1, <1>3 DEF stp_ctl_work_callback, queuevars, MessageInv, Queued
<1> QED
  BY <1>2, <1>3

(* Every step keeps the special messages apart.                             *)
LEMMA MessageStep ==
    ASSUME TypeOK, ChannelInv, CommandInv, MessageInv, [Next]_vars
    PROVE  MessageInv'
<1>1. CASE Elsewhere
  <2>1. CASE stp_ctl_work_callback
    BY <2>1, MessageTimer
  <2>2. CASE ~ stp_ctl_work_callback
    <3>1. UNCHANGED <<pc, session, transport_state, called, queuevars>>
      BY <1>1, <2>2 DEF Elsewhere, Signal, TimerStep, TimerRearm, ProbeExit,
                        vars, kernelvars, clientvars
    <3> QED
      BY <3>1 DEF MessageInv, Queued, queuevars
  <2> QED
    BY <2>1, <2>2
<1>2. ASSUME NEW c \in Clients, Passage(c) PROVE MessageInv'
  <2>1. PICK l \in ClientStates \ InCommand :
          pc' = [pc EXCEPT ![c] = l] /\ UNCHANGED <<kernelvars, queuevars>>
    BY <1>2, PassageMoves
  <2>2. \A d \in Clients : pc'[d] = IF d = c THEN l ELSE pc[d]
    BY <2>1 DEF TypeOK
  <2> QED
    BY <2>1, <2>2, MessageKept DEF kernelvars, queuevars, ExitStates, InCommand
<1>3. ASSUME NEW c \in Clients, DeleteModule(c) PROVE MessageInv'
  <2>1. pc' = [pc EXCEPT ![c] = "gone"] /\ dropped' = dropped /\ called' = called
    BY <1>3 DEF DeleteModule, Goto, kernelvars, queuevars
  <2>2. ready_q' = ready_q \/ ToSet(ready_q') = {}
    BY <1>3 DEF DeleteModule, queuevars, ToSet
  <2>3. /\ transport_state' = transport_state \/ transport_state' = "EXIT_CALLED"
        /\ session # "up" => session' # "up"
    BY <1>3 DEF DeleteModule, kernelvars
  <2>4. \A d \in Clients : pc'[d] = IF d = c THEN "gone" ELSE pc[d]
    BY <2>1 DEF TypeOK
  <2> QED
    BY <2>1, <2>2, <2>3, <2>4, MessageKept DEF ExitStates
<1> QED
  BY <1>1, <1>2, <1>3, Steps, MessageServe, MessageCommand DEF Passage

----------------------------------------------------------------------------
(* A module just loaded has announced itself and nobody is attached.        *)
LEMMA CtlInit == Init => CtlInv /\ AttachInv
<1> SUFFICES ASSUME Init PROVE CtlInv /\ AttachInv
  OBVIOUS
<1> USE DEF Init
<1>1. ready_q \in Seq(Messages) /\ ToSet(ready_q) = {"TRANSPORT"}
  BY DEF Messages, ToSet
<1>2. TypeOK
  <2>1. /\ probes_started \in BOOLEAN /\ exit_flag \in BOOLEAN
        /\ called \in BOOLEAN /\ dropped \in BOOLEAN
        /\ bug \in BOOLEAN /\ undercut \in BOOLEAN
    BY Zenon
  <2>2. pending \in [Clients -> 0 .. MaxSignals]
    BY CtlAssumption
  <2> QED
    BY <1>1, <2>1, <2>2 DEF TypeOK, ClientStates
<1>3. Counted = {}
  BY DEF Counted, Holds, HoldStates, InCommand
<1>4. ChannelInv
  BY <1>3, FS_EmptySet DEF ChannelInv, Holds, HoldStates, InCommand
<1>5. CommandInv
  BY DEF CommandInv, StartStates, ExitStates
<1>6. MessageInv
  BY <1>1 DEF MessageInv, Queued
<1>7. AttachInv
  BY DEF AttachInv, Serving, InCommand
<1> QED
  BY <1>2, <1>4, <1>5, <1>6, <1>7 DEF CtlInv

(* The invariant that makes the properties inductive: _stp_ctl_attached
   counts the opens, the channel has one holder, and each special message
   has one sender that passes once.                                         *)
THEOREM CtlInvariant == Spec => []CtlInv
<1>1. Init => CtlInv
  BY CtlInit
<1>2. CtlInv /\ [Next]_vars => CtlInv'
  BY TypeStep, ChannelStep, CommandStep, MessageStep DEF CtlInv
<1> QED
  BY <1>1, <1>2, PTL DEF Spec

(* Every variable of the channel keeps its type; the counter never goes
   below zero.                                                              *)
THEOREM CtlTypes == Spec => []TypeOK
BY CtlInvariant, PTL DEF CtlInv

(* The one preallocated buffer of a start, exit, transport or request-exit
   message is free whenever the module sends one, however many clients come,
   die and interleave: none of these messages is lost.                      *)
THEOREM SpecialsNeverDropped == Spec => []SpecialNeverDropped
<1>1. CtlInv => SpecialNeverDropped
  BY DEF CtlInv, MessageInv, SpecialNeverDropped
<1> QED
  BY <1>1, CtlInvariant, PTL

(* A stapio that receives STP_EXIT and goes on to unload the module finds
   the probes down.                                                         *)
THEOREM ExitComesLast == Spec => []ExitAfterStop
<1>1. CtlInv => ExitAfterStop
  BY DEF CtlInv, MessageInv, Queued, ExitAfterStop
<1> QED
  BY <1>1, CtlInvariant, PTL

(* delete_module succeeds only on a module whose probes are down, whose
   channel is closed and whose control timer will not fire again.           *)
THEOREM UnloadsClean == Spec => []UnloadClean
<1>1. CtlInv => UnloadClean
  <2> SUFFICES ASSUME CtlInv, module = "gone" PROVE UnloadClean
    BY DEF UnloadClean
  <2>1. \A c \in Clients : pc[c] \in {"away", "open", "delete", "gone"}
    BY DEF CtlInv, ChannelInv
  <2>2. Counted = {}
    BY <2>1 DEF Counted, Holds, HoldStates, InCommand
  <2>3. attached = 0
    BY <2>2, FS_EmptySet DEF CtlInv, ChannelInv
  <2>4. timer = "off"
    BY <2>1 DEF CtlInv, ChannelInv, HoldStates, InCommand
  <2>5. session \in {"none", "failed", "down"}
    BY DEF CtlInv, TypeOK, CommandInv
  <2> QED
    BY <2>3, <2>4, <2>5 DEF UnloadClean
<1> QED
  BY <1>1, CtlInvariant, PTL

----------------------------------------------------------------------------
(* The step of a client that changes the timer, or that opens or closes.    *)
LEMMA TimerPassage ==
    ASSUME CtlInv, AttachInv, NEW c \in Clients,
           stp_ctl_open_cmd(c) \/ stp_ctl_close_cmd(c) \/ OpenBusy(c)
           \/ stp_attach(c) \/ stp_detach(c)
    PROVE  AttachInv'
<1>1. CASE stp_ctl_open_cmd(c) \/ stp_ctl_close_cmd(c) \/ OpenBusy(c)
  <2>1. PICK l \in {"busy", "attach", "detach", "gone"} :
          pc' = [pc EXCEPT ![c] = l] /\ UNCHANGED <<timer, undercut>>
    BY <1>1 DEF stp_ctl_open_cmd, stp_ctl_close_cmd, OpenBusy, Goto
  <2>2. \A d \in Clients : pc'[d] = IF d = c THEN l ELSE pc[d]
    BY <2>1 DEF CtlInv, TypeOK
  <2>3. \A d \in Clients : Serving(d)' => Serving(d)
    BY <2>2 DEF Serving, InCommand
  <2> QED
    BY <2>1, <2>3 DEF AttachInv
<1>2. CASE stp_attach(c)
  <2>1. timer' = "armed" /\ undercut' = undercut
    BY <1>2 DEF stp_attach
  <2> QED
    BY <2>1 DEF AttachInv
<1>3. CASE stp_detach(c)
  <2>1. PICK l \in {"gone", "open", "delete"} : pc' = [pc EXCEPT ![c] = l]
    BY <1>3 DEF stp_detach, Detached, Goto, CtlInv, TypeOK
  <2>2. undercut' = (undercut \/ \E d \in Clients \ {c} : Serving(d))
    BY <1>3 DEF stp_detach, Detached
  <2>3. \A d \in Clients : pc'[d] = IF d = c THEN l ELSE pc[d]
    BY <2>1 DEF CtlInv, TypeOK
  <2>4. \A d \in Clients : Serving(d)' => d # c /\ Serving(d)
    BY <2>3 DEF Serving, InCommand
  <2> QED
    BY <2>2, <2>4, Zenon DEF AttachInv
<1> QED
  BY <1>1, <1>2, <1>3

(* Every other step.                                                        *)
LEMMA AttachStep ==
    ASSUME CtlInv, AttachInv, [Next]_vars
    PROVE  AttachInv'
<1>1. CASE Elsewhere
  <2>1. UNCHANGED <<pc, undercut>>
    BY <1>1 DEF Elsewhere, Signal, TimerStep, stp_ctl_work_callback, TimerRearm,
                ProbeExit, vars, openvars, clientvars
  <2>2. \A c \in Clients : Serving(c) => attached > 0
    BY CountedPositive DEF CtlInv, Counted, Holds, HoldStates, Serving
  <2>3. timer' = timer \/ timer' = "running" \/ (attached > 0 => timer' = "armed")
    BY <1>1 DEF Elsewhere, Signal, TimerStep, stp_ctl_work_callback, TimerRearm,
                ProbeExit, vars, openvars
  <2>4. \A c \in Clients : Serving(c)' <=> Serving(c)
    BY <2>1 DEF Serving
  <2> QED
    BY <2>1, <2>2, <2>3, <2>4 DEF AttachInv
<1>2. ASSUME NEW c \in Clients, Come(c) \/ NoModule(c) \/ DeleteModule(c)
      PROVE  AttachInv'
  <2>1. PICK l \in {"open", "gone"} :
          pc' = [pc EXCEPT ![c] = l] /\ UNCHANGED <<timer, undercut>>
    BY <1>2 DEF Come, NoModule, DeleteModule, Goto, openvars
  <2>2. \A d \in Clients : pc'[d] = IF d = c THEN l ELSE pc[d]
    BY <2>1 DEF CtlInv, TypeOK
  <2>3. \A d \in Clients : Serving(d)' => Serving(d)
    BY <2>2 DEF Serving, InCommand
  <2> QED
    BY <2>1, <2>3 DEF AttachInv
<1>3. ASSUME NEW c \in Clients, Stays(c) PROVE AttachInv'
  <2>1. PICK l \in HoldStates \ {"attach"} : pc' = [pc EXCEPT ![c] = l]
    BY <1>3 DEF Stays
  <2>2. \A d \in Clients : pc'[d] = IF d = c THEN l ELSE pc[d]
    BY <2>1 DEF CtlInv, TypeOK
  <2>3. Serving(c) /\ UNCHANGED <<timer, undercut>>
    BY <1>3 DEF Stays, openvars
  <2>4. \A d \in Clients : Serving(d)' => Serving(d)
    BY <2>2, <2>3 DEF Serving
  <2> QED
    BY <2>3, <2>4 DEF AttachInv
<1> QED
  BY <1>1, <1>2, <1>3, Steps, TimerPassage, ServeStays, CommandStays DEF CtlInv

(* The control timer runs whenever a stapio is attached, so that an exit() is
   passed on, with one exception: a release whose _stp_detach comes after the
   _stp_attach of the next client (ctl_timer_race shows that it may).  No
   callback, kill, refused open or unload attempt loses it.                 *)
THEOREM TimerOnlyUndercut == Spec => []TimerKept
<1>1. Init => AttachInv
  BY CtlInit
<1>2. CtlInv /\ AttachInv /\ [Next]_vars => AttachInv'
  BY AttachStep
<1>3. AttachInv => TimerKept
  BY DEF AttachInv, TimerKept, TimerWhileAttached, Attended
<1> QED
  BY <1>1, <1>2, <1>3, CtlInvariant, PTL DEF Spec
=============================================================================
