------------------------------ MODULE CtlQueue ------------------------------
(***************************************************************************)
(* The message buffers of the control channel (runtime/transport/control.c *)
(* and runtime/mempool.c).                                                 *)
(*                                                                         *)
(* Senders, among them probe handlers in interrupt context, may neither    *)
(* block nor allocate.  A message takes a buffer from a preallocated pool; *)
(* when the pool is empty a buffer set aside for the message's type is     *)
(* sent with a fixed overflow text instead; when that one is under way too *)
(* the message is lost.  The one-shot commands have a buffer of their own. *)
(* One action is one critical section of the C code.                       *)
(***************************************************************************)
EXTENDS Naturals, Sequences

CONSTANTS
    Pool,           \* the dynamic buffers of _stp_pool_q
    Senders,
    Types,          \* the message types sent
    MaxMsgs,        \* bound on the messages of a sender
    NoBuffer

(* The types with dynamic buffers, and the one-shot commands.               *)
Dynamic == {"OOB_WARNING", "OOB_ERROR", "SYSTEM", "REALTIME_DATA"}
OneShot == {"START", "EXIT", "TRANSPORT", "REQUEST_EXIT"}

(* The buffer set aside for a type: _stp_ctl_oob_warn, ..., named for it.   *)
Special == Dynamic \cup OneShot
Buffers == Pool \cup Special

ASSUME QueueAssumption ==
    /\ Types \subseteq Special
    /\ Pool \cap Special = {}
    /\ NoBuffer \notin Buffers
    /\ "overflow" \notin Senders
    /\ MaxMsgs \in Nat

VARIABLES
    free_list,  \* of the pool
    used,       \* special buffers whose type is not _STP_CTL_MSG_UNUSED
    content,    \* what a buffer says
    ready_q,    \* _stp_ctl_ready_q
    spc,        \* each sender
    type,       \* the type it sends
    sbuf,       \* its bptr
    sent,       \* the number of its last message
    rpc,        \* the reader
    rbuf,       \* its bptr
    closed,     \* _stp_unregister_ctl_channel has run
    leaked,     \* history: buffers a failed copy_to_user left nowhere
    lost,       \* history: types of which a message got no buffer at all
    told,       \* history: types whose overflow text has been read
    got         \* history: last message of each sender that has been read

sendvars == <<spc, type, sbuf, sent>>
readvars == <<rpc, rbuf>>
histvars == <<leaked, lost, told, got>>
vars == <<free_list, used, content, ready_q, sendvars, readvars, closed,
          histvars>>

Overflow == [from |-> "overflow", number |-> 0]
Message(s) == [from |-> s, number |-> sent[s]]

Init ==
    /\ free_list = Pool /\ used = {}
    /\ content = [b \in Buffers |-> Overflow]
    /\ ready_q = <<>>
    /\ spc = [s \in Senders |-> "idle"]
    /\ type = [s \in Senders |-> "START"]
    /\ sbuf = [s \in Senders |-> NoBuffer]
    /\ sent = [s \in Senders |-> 0]
    /\ rpc = "read" /\ rbuf = NoBuffer
    /\ closed = FALSE
    /\ leaked = {} /\ lost = {} /\ told = {}
    /\ got = [s \in Senders |-> 0]

----------------------------------------------------------------------------
(* _stp_ctl_send and _stp_ctl_log_werr.                                     *)
stp_ctl_send(s, t) ==
    /\ spc[s] = "idle" /\ ~ closed /\ sent[s] < MaxMsgs
    /\ sent' = [sent EXCEPT ![s] = @ + 1]
    /\ type' = [type EXCEPT ![s] = t]
    /\ spc' = [spc EXCEPT ![s] = IF t \in Dynamic THEN "alloc" ELSE "special"]
    /\ UNCHANGED <<free_list, used, content, ready_q, sbuf, readvars, closed,
                   histvars>>

(* A sender has got a buffer, and fills it.                                 *)
Fill(s, b, msg) ==
    /\ sbuf' = [sbuf EXCEPT ![s] = b]
    /\ content' = [content EXCEPT ![b] = msg]
    /\ spc' = [spc EXCEPT ![s] = "queue"]

(* _stp_mempool_alloc.                                                      *)
stp_mempool_alloc(s, b) ==
    /\ spc[s] = "alloc"
    /\ b \in free_list
    /\ free_list' = free_list \ {b}
    /\ Fill(s, b, Message(s))
    /\ UNCHANGED <<used, ready_q, type, sent, readvars, closed, histvars>>

(* Mutant: an empty pool loses the message at once.                         *)
EmptyPoolLoses(s) ==
    /\ spc[s] = "alloc"
    /\ free_list = {}
    /\ lost' = lost \cup {type[s]}
    /\ spc' = [spc EXCEPT ![s] = "idle"]
    /\ UNCHANGED <<free_list, used, content, ready_q, type, sbuf, sent,
                   readvars, closed, leaked, told, got>>

PoolEmpty(s) ==
    /\ spc[s] = "alloc"
    /\ free_list = {}
    /\ spc' = [spc EXCEPT ![s] = "special"]
    /\ UNCHANGED <<free_list, used, content, ready_q, type, sbuf, sent,
                   readvars, closed, histvars>>

(* Mutant: no test for whether the special buffer is free.                  *)
TakeUsedSpecial(s) ==
    /\ spc[s] = "special"
    /\ used' = used \cup {type[s]}
    /\ Fill(s, type[s], IF type[s] \in Dynamic THEN Overflow ELSE Message(s))
    /\ UNCHANGED <<free_list, ready_q, type, sent, readvars, closed, histvars>>

(* The rest of _stp_ctl_get_buffer, under _stp_ctl_special_msg_lock: "it is
   a special one, but is it free?"  Overflow texts are sent as they are.    *)
TakeSpecial(s) ==
    /\ spc[s] = "special"
    /\ type[s] \notin used
    /\ used' = used \cup {type[s]}
    /\ Fill(s, type[s], IF type[s] \in Dynamic THEN Overflow ELSE Message(s))
    /\ UNCHANGED <<free_list, ready_q, type, sent, readvars, closed, histvars>>

(* -ENOMEM.                                                                 *)
SpecialTaken(s) ==
    /\ spc[s] = "special"
    /\ type[s] \in used
    /\ lost' = lost \cup {type[s]}
    /\ spc' = [spc EXCEPT ![s] = "idle"]
    /\ UNCHANGED <<free_list, used, content, ready_q, type, sbuf, sent,
                   readvars, closed, leaked, told, got>>

(* Mutant: list_add instead of list_add_tail.                               *)
EnqueueFirst(s) ==
    /\ spc[s] = "queue"
    /\ ready_q' = <<sbuf[s]>> \o ready_q
    /\ sbuf' = [sbuf EXCEPT ![s] = NoBuffer]
    /\ spc' = [spc EXCEPT ![s] =
                 IF type[s] \in OneShot THEN "notify" ELSE "idle"]
    /\ UNCHANGED <<free_list, used, content, type, sent, readvars, closed,
                   histvars>>

(* list_add_tail.  The commands go through _stp_ctl_send_notify, which then
   wakes the reader; messages from probes leave that to the timer.          *)
Enqueue(s) ==
    /\ spc[s] = "queue"
    /\ ready_q' = Append(ready_q, sbuf[s])
    /\ sbuf' = [sbuf EXCEPT ![s] = NoBuffer]
    /\ spc' = [spc EXCEPT ![s] =
                 IF type[s] \in OneShot THEN "notify" ELSE "idle"]
    /\ UNCHANGED <<free_list, used, content, type, sent, readvars, closed,
                   histvars>>

stp_ctl_send_notify(s) ==
    /\ spc[s] = "notify"
    /\ spc' = [spc EXCEPT ![s] = "idle"]
    /\ rpc' = IF rpc = "asleep" THEN "read" ELSE rpc
    /\ UNCHANGED <<free_list, used, content, ready_q, type, sbuf, sent, rbuf,
                   closed, histvars>>

----------------------------------------------------------------------------
(* _stp_ctl_read_cmd: wait, ...                                             *)
ReadEmpty ==
    /\ rpc = "read" /\ ready_q = <<>> /\ ~ closed
    /\ rpc' = "asleep"
    /\ UNCHANGED <<free_list, used, content, ready_q, sendvars, rbuf, closed,
                   histvars>>

(* ... take the next buffer off the list, ...                               *)
Dequeue ==
    /\ rpc = "read" /\ ready_q # <<>> /\ ~ closed
    /\ rbuf' = Head(ready_q)
    /\ ready_q' = Tail(ready_q)
    /\ rpc' = "copy"
    /\ UNCHANGED <<free_list, used, content, sendvars, closed, histvars>>

(* ... copy it to user space, ...                                           *)
CopyToUser ==
    /\ rpc = "copy"
    /\ rpc' = "free"
    /\ IF content[rbuf] = Overflow
       THEN told' = told \cup {rbuf} /\ UNCHANGED got
       ELSE /\ got' = [got EXCEPT ![content[rbuf].from] = content[rbuf].number]
            /\ UNCHANGED told
    /\ UNCHANGED <<free_list, used, content, ready_q, sendvars, rbuf, closed,
                   leaked, lost>>

(* ... which may fail: "Now what?  We took it off the queue", ...           *)
CopyFails ==
    /\ rpc = "copy"
    /\ rpc' = "read"
    /\ rbuf' = NoBuffer
    /\ leaked' = leaked \cup {rbuf}
    /\ UNCHANGED <<free_list, used, content, ready_q, sendvars, closed, lost,
                   told, got>>

(* Mutant: every buffer is returned to the pool, the special ones too.      *)
FreeToPool ==
    /\ rpc = "free"
    /\ rpc' = "read"
    /\ rbuf' = NoBuffer
    /\ free_list' = free_list \cup {rbuf}
    /\ UNCHANGED <<used, content, ready_q, sendvars, closed, histvars>>

(* ... and give the buffer back.                                            *)
stp_ctl_free_buffer ==
    /\ rpc = "free"
    /\ rpc' = "read"
    /\ rbuf' = NoBuffer
    /\ IF rbuf \in Special
       THEN used' = used \ {rbuf} /\ UNCHANGED free_list
       ELSE free_list' = free_list \cup {rbuf} /\ UNCHANGED used
    /\ UNCHANGED <<content, ready_q, sendvars, closed, histvars>>

(* Mutant: the timer wakes only for a second message.                       *)
TimerWakeLate ==
    /\ rpc = "asleep" /\ Len(ready_q) > 1
    /\ rpc' = "read"
    /\ UNCHANGED <<free_list, used, content, ready_q, sendvars, rbuf, closed,
                   histvars>>

(* _stp_ctl_work_callback wakes a reader that has something to read.        *)
TimerWake ==
    /\ rpc = "asleep" /\ ready_q # <<>>
    /\ rpc' = "read"
    /\ UNCHANGED <<free_list, used, content, ready_q, sendvars, rbuf, closed,
                   histvars>>

(* _stp_unregister_ctl_channel, when neither probes nor stapio are left.    *)
Queued == {ready_q[i] : i \in 1 .. Len(ready_q)}

(* Mutant: the pool is destroyed with the unread messages still queued.     *)
UnregisterUnread ==
    /\ ~ closed
    /\ \A s \in Senders : spc[s] = "idle"
    /\ rpc \in {"read", "asleep"}
    /\ closed' = TRUE
    /\ UNCHANGED <<free_list, used, content, ready_q, sendvars, readvars,
                   histvars>>

stp_unregister_ctl_channel ==
    /\ ~ closed
    /\ \A s \in Senders : spc[s] = "idle"
    /\ rpc \in {"read", "asleep"}
    /\ closed' = TRUE
    /\ ready_q' = <<>>
    /\ free_list' = free_list \cup (Queued \cap Pool)
    /\ used' = used \ Queued
    /\ UNCHANGED <<content, sendvars, readvars, histvars>>

----------------------------------------------------------------------------
Send(s) ==
    \/ \E b \in Pool : stp_mempool_alloc(s, b)
    \/ PoolEmpty(s) \/ TakeSpecial(s) \/ SpecialTaken(s)
    \/ Enqueue(s) \/ stp_ctl_send_notify(s)

Read == ReadEmpty \/ Dequeue \/ CopyToUser \/ CopyFails \/ stp_ctl_free_buffer

Next ==
    \/ \E s \in Senders, t \in Types : stp_ctl_send(s, t)
    \/ \E s \in Senders : Send(s)
    \/ Read
    \/ TimerWake
    \/ stp_unregister_ctl_channel
    \/ closed /\ UNCHANGED vars

Spec == Init /\ [][Next]_vars

(* The attached reader reads on, and the control timer fires.               *)
FairSpec == Spec /\ WF_vars(Read) /\ WF_vars(TimerWake)

----------------------------------------------------------------------------
TypeOK ==
    /\ free_list \subseteq Pool
    /\ used \subseteq Special
    /\ content \in [Buffers -> [from : Senders \cup {"overflow"}, number : Nat]]
    /\ ready_q \in Seq(Buffers)
    /\ spc \in [Senders -> {"idle", "alloc", "special", "queue", "notify"}]
    /\ type \in [Senders -> Special]
    /\ sbuf \in [Senders -> Buffers \cup {NoBuffer}]
    /\ sent \in [Senders -> Nat]
    /\ rpc \in {"read", "asleep", "copy", "free"}
    /\ rbuf \in Buffers \cup {NoBuffer}
    /\ closed \in BOOLEAN
    /\ leaked \subseteq Buffers
    /\ lost \subseteq Special /\ told \subseteq Special
    /\ got \in [Senders -> Nat]

(* Buffers nobody holds.                                                    *)
Available == free_list \cup (Special \ used)

(* A buffer is in one place: it is available, or in the hands of one sender,
   or on the list once, or in the hands of the reader, or leaked.           *)
OnePlace ==
    /\ \A i, j \in 1 .. Len(ready_q) : ready_q[i] = ready_q[j] => i = j
    /\ Queued \cap (Available \cup leaked) = {}
    /\ leaked \cap Available = {}
    /\ rbuf \notin Available \cup leaked \cup Queued
    /\ \A s \in Senders : sbuf[s] \notin Available \cup leaked \cup Queued
    /\ \A s \in Senders : sbuf[s] = rbuf => rbuf = NoBuffer
    /\ \A s1, s2 \in Senders :
         sbuf[s1] = sbuf[s2] => s1 = s2 \/ sbuf[s1] = NoBuffer

(* And it is somewhere: none is lost, except by a failed copy_to_user.      *)
NoneMissing ==
    \A b \in Buffers :
        \/ b \in Available \cup Queued \cup leaked
        \/ b = rbuf
        \/ \E s \in Senders : b = sbuf[s]

BuffersAccounted == OnePlace /\ NoneMissing

(* What makes BuffersAccounted inductive: a thread has a buffer exactly where
   the code says so, a buffer out of the pool holds a sender's message, and
   nobody uses the channel any more once it is unregistered.                *)
QueueInv ==
    /\ TypeOK
    /\ BuffersAccounted
    /\ \A s \in Senders : spc[s] = "queue" <=> sbuf[s] # NoBuffer
    /\ rpc \in {"copy", "free"} <=> rbuf # NoBuffer
    /\ \A b \in Pool \ free_list : content[b].from \in Senders
    /\ closed => /\ ready_q = <<>>
                 /\ rpc \in {"read", "asleep"}
                 /\ \A s \in Senders : spc[s] = "idle"

(* A message is never lost in silence: when one of a dynamic type has found
   no buffer, an overflow text for that type has been read or is under way,
   unless it was the victim of a failed copy_to_user, or the channel went
   before it was read.                                                      *)
LossAnnounced ==
    \A t \in lost \cap Dynamic :
        \/ t \in told \cup leaked \cup Queued
        \/ closed
        \/ t = rbuf
        \/ \E s \in Senders : sbuf[s] = t

(* The list is FIFO: the messages of one sender are read in the order in
   which it has sent them.                                                  *)
InOrder == [][\A s \in Senders : got'[s] >= got[s]]_got

(* The messages under way: the one the reader is about to copy, and those on
   the list.                                                                *)
Pipe == (IF rpc = "copy" THEN <<content[rbuf]>> ELSE <<>>)
        \o [i \in 1 .. Len(ready_q) |-> content[ready_q[i]]]

(* Senders between _stp_ctl_send and list_add_tail or -ENOMEM.              *)
Deciding == {s \in Senders : spc[s] \in {"alloc", "special", "queue"}}

Mail == INSTANCE Mailbox WITH pipe <- Pipe, open <- Deciding, shut <- closed

(* The channel with its pool, special buffers and sleeping reader implements
   the mailbox: no buffer is reused, overwritten or read again while its
   message is under way.                                                    *)
ImplementsMailbox == Mail!Spec

(* Unregistering the channel returns every buffer to the pool before the
   pool is destroyed, but for the leaked ones.                              *)
AllReturned == closed => free_list = Pool \ leaked

(* A queued message is taken off the list, though no probe wakes the reader.*)
QueueMoves == \A b \in Buffers : (b \in Queued) ~> (b \notin Queued)
=============================================================================
