----------------------------- MODULE TraceRelay -----------------------------
(***************************************************************************)
(* The way a line of script output takes from a probe handler to the       *)
(* output file: __stp_print_flush frames the text of one handler with a    *)
(* header (sequence number, length) and copies it into the relay buffer of *)
(* its cpu; one reader thread of stapio per cpu reads the frames, waits    *)
(* until the sequence number says it is its turn, and writes the text to   *)
(* the one output file of stream mode.                                     *)
(*                                                                         *)
(* Data are counted in units of one header.  A unit is a header (at = 0)   *)
(* or a piece of the text (at > 0) of the message m; Junk is what a        *)
(* reservation that was abandoned leaves in the buffer.  A flush runs with *)
(* interrupts off and the reader of a buffer is pinned to the cpu that     *)
(* fills it, so a flush and a read(2) of one buffer do not overlap.        *)
(***************************************************************************)
EXTENDS Integers, Sequences, FiniteSets

CONSTANTS NCpus,        \* cpus with a relay buffer and a reader thread
          SubbufSize,   \* units in a relay sub-buffer
          NSubbufs,     \* sub-buffers of a relay buffer
          MaxBody,      \* bound: units of text in one message
          MaxInputs     \* bound: flushes, SIGUSR2 and failing writes together

ASSUME RelayAssumption ==
  /\ NCpus \in Nat \ {0}
  /\ SubbufSize \in Nat \ {0, 1}
  /\ NSubbufs \in Nat \ {0}
  /\ MaxBody \in Nat \ {0}
  /\ MaxInputs \in Nat

Cpus == 0 .. NCpus - 1
First == 0                      \* avail_cpus[0], the owner of the output fd
Closed == -1                    \* an out_fd between close and open
Main == NCpus                   \* the main thread of stapio
Threads == Cpus \cup {Main}     \* the threads a signal handler runs in

Header(m) == [m |-> m, at |-> 0]
Text(m, i) == [m |-> m, at |-> i]
Junk == [m |-> 0, at |-> 1]
Unit == [m : 0 .. MaxInputs, at : 0 .. MaxBody]

\* Eight bytes that are no header and are read as one can hold any sequence
\* number: zero or a real one (what the sub-buffer held on its last lap, zeros
\* on the first) or one beyond all real ones, of which one is enough here.
FalseSeq == MaxInputs + 1
NoHdr == [seq |-> 0, len |-> 0]

VARIABLES
  rb,          \* [cpu -> relay buffer]: subs (completed, the first partly read),
               \* cur (the one being filled), full (offset = subbuf_size + 1)
  pdu,         \* pdu[s]: length of the message with sequence number s
  inputs,      \* what the environment did so far, see MaxInputs
  failures,    \* _stp_transport_failures
  wakeup,      \* _stp_relay_data.wakeup
  running,     \* transport_state = STP_TRANSPORT_RUNNING
  thr,         \* [cpu -> reader thread]
  last,        \* last_sequence_number
  stop_threads,
  switch_file, \* [cpu -> BOOLEAN]
  hnd,         \* [thread -> where it is in switchfile_handler]
  usr2,        \* SIGUSR2 is pending for the process
  out_fd,      \* the file out_fd[avail_cpus[0]] is open on: 0 is foo, n is foo.n
  files,       \* what is in the files: message seq in file
  log,         \* history: the writes in order, with the text written of message seq
  late,        \* history: a reader gave up waiting for its turn
  resync,      \* history: a draining read threw data away
  misread      \* history: a reader took something else for a header

kernel == <<rb, pdu, failures, wakeup, running>>
output == <<out_fd, files, log>>
signalling == <<hnd, usr2>>
history == <<late, resync, misread>>
vars == <<kernel, output, inputs, thr, last, stop_threads, switch_file,
          signalling, history>>

-----------------------------------------------------------------------------
(* The relay buffer of a cpu *)

EmptyBuf == [subs |-> <<>>, cur |-> <<>>, full |-> FALSE]

\* Mutant: the next sub-buffer is started although all are unread.
switch_subbuf_never_full(b) ==
  [subs |-> IF b.full THEN b.subs ELSE Append(b.subs, b.cur),
   cur |-> <<>>, full |-> FALSE]

\* __stp_relay_switch_subbuf with __stp_relay_subbuf_start_callback: complete
\* the current sub-buffer and start the next one, unless all are unread.
switch_subbuf(b) ==
  LET done == IF b.full THEN b.subs ELSE Append(b.subs, b.cur)
  IN  [subs |-> done, cur |-> <<>>, full |-> Len(done) >= NSubbufs]

\* __stp_relay_buf_empty
buf_empty(b) == ~ b.full /\ b.cur = <<>> /\ b.subs = <<>>

\* _stp_data_write_reserve: the buffer after the reservation of (part of) n
\* units, and how many were reserved.
write_reserve(b, n) ==
  LET sw == switch_subbuf(b)
  IN  IF b.full \/ Len(b.cur) >= SubbufSize
        THEN [buf |-> sw, k |-> IF sw.full THEN 0
                                ELSE IF n > SubbufSize THEN SubbufSize ELSE n]
        ELSE [buf |-> b, k |-> IF Len(b.cur) + n > SubbufSize
                                 THEN SubbufSize - Len(b.cur) ELSE n]

Fill(b, units) == [b EXCEPT !.cur = @ \o units]

\* Units from .. to of message m, the header being unit 0.
Units(m, from, to) ==
  [j \in 1 .. to - from + 1 |->
     IF from + j - 1 = 0 THEN Header(m) ELSE Text(m, from + j - 1)]

\* One round of the loop of __stp_print_flush: copy the text from unit s.next
\* on into the room there is; a reservation of nothing ends it.
CopyStep(s, m, len) ==
  LET r == write_reserve(s.buf, len - s.next + 1)
  IN  IF s.failed \/ s.next > len THEN s
      ELSE IF r.k = 0 THEN [buf |-> r.buf, next |-> s.next, failed |-> TRUE]
      ELSE [buf |-> Fill(r.buf, Units(m, s.next, s.next + r.k - 1)),
            next |-> s.next + r.k, failed |-> FALSE]

\* The loop: every round but the last copies something.
CopyRest(st, m, len) ==
  LET f[i \in 0 .. len] == IF i = 0 THEN st ELSE CopyStep(f[i - 1], m, len)
  IN  f[len]

\* The relay read of the kernel, entered from __stp_relay_file_read: hand out
\* what the completed sub-buffers hold, up to n units, across their boundaries.
SwitchOut(b) == IF b.full \/ b.cur # <<>> THEN switch_subbuf(b) ELSE b
Avail(subs) ==
  LET f[i \in 0 .. Len(subs)] == IF i = 0 THEN <<>> ELSE f[i - 1] \o subs[i]
  IN  f[Len(subs)]
DropStep(s, sub) ==
  IF s.left >= Len(sub) THEN [left |-> s.left - Len(sub), subs |-> s.subs]
  ELSE [left |-> 0, subs |-> Append(s.subs, SubSeq(sub, s.left + 1, Len(sub)))]
Consume(b, n) ==
  LET f[i \in 0 .. Len(b.subs)] ==
        IF i = 0 THEN [left |-> n, subs |-> <<>>] ELSE DropStep(f[i - 1], b.subs[i])
  IN  [b EXCEPT !.subs = f[Len(b.subs)].subs]

-----------------------------------------------------------------------------
(* The reader threads *)

NoHandler == [at |-> "idle", i |-> 0]
NewReader == [pc |-> "poll", hdr |-> NoHdr, got |-> <<>>, rc |-> 0,
              sig |-> FALSE, fnum |-> 0, to |-> "hdr"]

Init ==
  /\ rb = [c \in Cpus |-> EmptyBuf]
  /\ pdu = <<>> /\ failures = 0 /\ inputs = 0
  /\ wakeup = FALSE /\ running = TRUE
  /\ thr = [c \in Cpus |-> NewReader]
  /\ last = 0
  /\ stop_threads = FALSE
  /\ switch_file = [c \in Cpus |-> FALSE]
  /\ hnd = [t \in Threads |-> NoHandler] /\ usr2 = FALSE
  /\ out_fd = 0 /\ files = {} /\ log = <<>>
  /\ late = FALSE /\ resync = FALSE /\ misread = FALSE

At(c, pc) == thr[c].pc = pc
Goto(c, pc) == thr' = [thr EXCEPT ![c].pc = pc]

\* The condition of the reader's do-while loop.
LoopPc == IF stop_threads THEN "done" ELSE "poll"

\* One more step of the environment within the bound.
Input == inputs < MaxInputs /\ inputs' = inputs + 1

-----------------------------------------------------------------------------
(* Probe handlers and the relay transport *)

\* Mutant: the readers are not told that there is something to read.
write_commit_quiet == UNCHANGED wakeup

\* _stp_data_write_commit
write_commit == wakeup' = TRUE

\* Mutant: the rest of a text that does not fit is dropped uncounted.
count_rest_never(failed) == UNCHANGED failures

\* The rest of a text that finds no room counts as one transport failure.
count_rest(failed) == failures' = failures + (IF failed THEN 1 ELSE 0)

\* __stp_print_flush on cpu c of a print buffer with len units of text.  The
\* header must fit with some text; a reservation too small for that is left as
\* it is.  A text that does not fit to its end is left truncated.
__stp_print_flush(c, len) ==
  LET r  == write_reserve(rb[c], 1 + len)
      m  == Len(pdu) + 1
      st == CopyRest([buf |-> Fill(r.buf, Units(m, 0, r.k - 1)),
                      next |-> r.k, failed |-> FALSE], m, len)
  IN  /\ running /\ Input
      /\ \/ /\ r.k > 1
            /\ rb' = [rb EXCEPT ![c] = st.buf]
            /\ pdu' = Append(pdu, len)
            /\ write_commit
            /\ count_rest(st.failed)
         \/ /\ r.k <= 1
            /\ rb' = [rb EXCEPT ![c] = Fill(r.buf, [j \in 1 .. r.k |-> Junk])]
            /\ failures' = failures + 1
            /\ UNCHANGED <<pdu, wakeup>>
      /\ UNCHANGED <<output, running, thr, last, stop_threads, switch_file,
                     signalling, history>>

\* The readers asleep in ppoll among those of the cpus in S go on polling.
Wake(S) ==
  thr' = [c \in Cpus |-> IF At(c, "asleep") /\ c \in S
                           THEN [thr[c] EXCEPT !.pc = "poll"] ELSE thr[c]]

\* __stp_relay_wakeup_timer: if anything was committed since the last expiry,
\* wake the readers whose buffer is not empty.
wakeup_timer ==
  /\ running /\ wakeup
  /\ wakeup' = FALSE
  /\ Wake({c \in Cpus : ~ buf_empty(rb[c])})
  /\ UNCHANGED <<inputs, output, rb, pdu, failures, running, last, stop_threads,
                 switch_file, signalling, history>>

\* _stp_transport_data_fs_stop: no timer any more; the kernel's relay_flush
\* completes every current sub-buffer and wakes its reader.
data_fs_stop ==
  /\ running
  /\ running' = FALSE
  /\ rb' = [c \in Cpus |-> switch_subbuf(rb[c])]
  /\ Wake({c \in Cpus : ~ rb[c].full})
  /\ UNCHANGED <<inputs, output, pdu, failures, wakeup, last, stop_threads,
                 switch_file, signalling, history>>

-----------------------------------------------------------------------------
(* SIGUSR2: the handler runs in the main thread, and in a reader that is in ppoll *)

\* Mutant: SIGUSR2 is not blocked while a reader is outside ppoll, so a signal
\* that comes then is handled and forgotten.
pthread_kill_unblocked(t) ==
  IF t.pc = "asleep" THEN [t EXCEPT !.sig = TRUE, !.pc = "poll"] ELSE t

\* pthread_kill(reader, SIGUSR2): pending until the reader is in ppoll
pthread_kill(t) ==
  [t EXCEPT !.sig = t.pc \notin {"done", "dead"},
            !.pc = IF @ = "asleep" THEN "poll" ELSE @]

\* Where switchfile_handler begins: it returns at once when stapio is closing.
Entered == [at |-> IF stop_threads THEN "return" ELSE "check", i |-> 0]

\* mutex[c] is held from the test of switch_file to the end of the switch.
MutexFree(c) == ~ At(c, "close") /\ ~ At(c, "open")

\* SIGUSR2 from the user, to the process.
sigusr2 ==
  /\ Input
  /\ usr2' = TRUE
  /\ UNCHANGED <<kernel, output, thr, last, stop_threads, switch_file, hnd, history>>

\* The main thread takes it, unless it is still in the handler.
main_signalled ==
  /\ usr2 /\ hnd[Main].at = "idle"
  /\ usr2' = FALSE
  /\ hnd' = [hnd EXCEPT ![Main] = Entered]
  /\ UNCHANGED <<inputs, kernel, output, thr, last, stop_threads, switch_file, history>>

\* The first loop: a reader that has not switched yet makes it return.
handler_check(t) ==
  LET i == hnd[t].i
  IN  /\ hnd[t].at = "check" /\ MutexFree(i)
      /\ hnd' = [hnd EXCEPT ![t] =
                   IF switch_file[i] THEN [at |-> "return", i |-> 0]
                   ELSE IF i + 1 < NCpus THEN [at |-> "check", i |-> i + 1]
                   ELSE [at |-> "set", i |-> 0]]
      /\ UNCHANGED <<inputs, kernel, output, thr, last, stop_threads, switch_file, usr2,
                     history>>

\* The second loop: ask reader i to switch.  The loop ends at the thread itself;
handler_set(t) ==
  LET i == hnd[t].i
  IN  /\ hnd[t].at = "set" /\ MutexFree(i)
      /\ switch_file' = [switch_file EXCEPT ![i] = TRUE]
      /\ hnd' = [hnd EXCEPT ![t].at = IF i = t THEN "return" ELSE "kill"]
      /\ UNCHANGED <<inputs, kernel, output, thr, last, stop_threads, usr2, history>>

\* any other reader is sent the signal, too.
handler_kill(t) ==
  LET i == hnd[t].i
  IN  /\ hnd[t].at = "kill"
      /\ thr' = [thr EXCEPT ![i] = pthread_kill(thr[i])]
      /\ hnd' = [hnd EXCEPT ![t] = IF i + 1 < NCpus THEN [at |-> "set", i |-> i + 1]
                                   ELSE [at |-> "return", i |-> 0]]
      /\ UNCHANGED <<inputs, kernel, output, last, stop_threads, switch_file, usr2,
                     history>>

\* The handler returns: ppoll of a reader then fails with EINTR.
handler_return(t) ==
  /\ hnd[t].at = "return"
  /\ hnd' = [hnd EXCEPT ![t] = NoHandler]
  /\ thr' = [c \in Cpus |-> IF c = t THEN [thr[c] EXCEPT !.pc = "eintr"] ELSE thr[c]]
  /\ UNCHANGED <<inputs, kernel, output, last, stop_threads, switch_file, usr2, history>>

\* One step of switchfile_handler in thread t.
switchfile_handler(t) ==
  handler_check(t) \/ handler_set(t) \/ handler_kill(t) \/ handler_return(t)

-----------------------------------------------------------------------------
(* A reader thread, step by step *)

\* ppoll without data and without a signal: sleep.  SIGUSR2 is blocked outside
\* ppoll, and in it data win over a pending signal, see read_header.
ppoll(c) ==
  /\ At(c, "poll") /\ buf_empty(rb[c])
  /\ ~ thr[c].sig /\ ~ usr2
  /\ Goto(c, "asleep")
  /\ UNCHANGED <<inputs, kernel, output, last, stop_threads, switch_file,
                 signalling, history>>

\* ppoll without data takes SIGUSR2, the reader's own or the one pending for the
\* process: the reader runs switchfile_handler before ppoll returns EINTR.
ppoll_signalled(c) ==
  /\ buf_empty(rb[c])
  /\ \/ At(c, "poll") /\ thr[c].sig /\ UNCHANGED usr2
     \/ /\ At(c, "poll") \/ At(c, "asleep")
        /\ ~ thr[c].sig /\ usr2 /\ usr2' = FALSE
  /\ thr' = [thr EXCEPT ![c].sig = FALSE, ![c].pc = "handler"]
  /\ hnd' = [hnd EXCEPT ![c] = Entered]
  /\ UNCHANGED <<inputs, kernel, output, last, stop_threads, switch_file, history>>

\* ppoll returned EINTR.
interrupted(c) ==
  /\ At(c, "eintr")
  /\ Goto(c, IF stop_threads THEN "done" ELSE IF switch_file[c] THEN "close" ELSE "hdr")
  /\ UNCHANGED <<inputs, kernel, output, last, stop_threads, switch_file,
                 signalling, history>>

\* read(2) of the header, at once when ppoll finds data.  Nothing to read is an error
\* to the reader (ENODATA), and like a length that cannot be one it leads to the
\* draining read.  What is no header (text, junk, or the end of one of them with
\* the beginning of the header behind it) may have a length that can be one, and
\* then passes for a header with any sequence number.
read_header(c) ==
  LET b == SwitchOut(rb[c])
      u == Avail(b.subs)
  IN  /\ At(c, "hdr") \/ (At(c, "poll") /\ ~ buf_empty(rb[c]))
      /\ \/ /\ u = <<>>
            /\ rb' = [rb EXCEPT ![c] = Consume(b, 0)]
            /\ Goto(c, IF b.subs = <<>> THEN "drain" ELSE LoopPc)
            /\ UNCHANGED misread
         \/ /\ u # <<>> /\ Head(u).at = 0
            /\ rb' = [rb EXCEPT ![c] = Consume(b, 1)]
            /\ thr' = [thr EXCEPT ![c].pc = "body", ![c].got = <<>>,
                         ![c].hdr = [seq |-> Head(u).m, len |-> pdu[Head(u).m]]]
            /\ UNCHANGED misread
         \/ /\ u # <<>> /\ Head(u).at > 0
            /\ rb' = [rb EXCEPT ![c] = Consume(b, 1)]
            /\ Goto(c, "drain")
            /\ UNCHANGED misread
         \/ /\ u # <<>> /\ Head(u).at > 0
            /\ \E n \in 1 .. Len(u) :
                 /\ n = 1 \/ (n = 2 /\ u[2].at = 0)
                 /\ rb' = [rb EXCEPT ![c] = Consume(b, n)]
            /\ \E seq \in 0 .. FalseSeq, len \in 1 .. MaxBody :
                 thr' = [thr EXCEPT ![c].pc = "body", ![c].got = <<>>,
                                    ![c].hdr = [seq |-> seq, len |-> len]]
            /\ misread' = TRUE
      /\ UNCHANGED <<inputs, output, pdu, failures, wakeup, running, last,
                     stop_threads, switch_file, signalling, late, resync>>

\* Mutant: the draining read asks for no more than a header's worth.
drain_header(c) ==
  LET b == SwitchOut(rb[c])
      u == Avail(b.subs)
  IN  /\ At(c, "drain")
      /\ rb' = [rb EXCEPT ![c] = Consume(b, IF u = <<>> THEN 0 ELSE 1)]
      /\ resync' = (resync \/ u # <<>>)
      /\ Goto(c, LoopPc)
      /\ UNCHANGED <<inputs, output, pdu, failures, wakeup, running, last,
                     stop_threads, switch_file, signalling, late, misread>>

\* The read(2) that throws everything away to find the framing again.
drain(c) ==
  LET b == SwitchOut(rb[c])
      u == Avail(b.subs)
  IN  /\ At(c, "drain")
      /\ rb' = [rb EXCEPT ![c] = Consume(b, Len(u))]
      /\ resync' = (resync \/ u # <<>>)
      /\ Goto(c, LoopPc)
      /\ UNCHANGED <<inputs, output, pdu, failures, wakeup, running, last,
                     stop_threads, switch_file, signalling, late, misread>>

\* One read(2) of the loop that collects the text; the loop ends when it is
\* complete or when nothing comes.
read_body(c) ==
  LET b == SwitchOut(rb[c])
      u == Avail(b.subs)
      want == thr[c].hdr.len - Len(thr[c].got)
      n == IF Len(u) < want THEN Len(u) ELSE want
  IN  /\ At(c, "body")
      /\ rb' = [rb EXCEPT ![c] = Consume(b, n)]
      /\ thr' = [thr EXCEPT ![c].got = @ \o SubSeq(u, 1, n), ![c].rc = n,
                            ![c].pc = IF n > 0 /\ n < want THEN "body" ELSE "wait"]
      /\ UNCHANGED <<inputs, output, pdu, failures, wakeup, running, last,
                     stop_threads, switch_file, signalling, history>>

\* Mutant: a later message may go ahead, not only the next one.
OurTurnLater(c) == last < thr[c].hdr.seq

\* The condition on which a reader stops waiting: its message is the next one,
\* or others have leapfrogged it.
OurTurn(c) == last + 1 = thr[c].hdr.seq \/ last >= thr[c].hdr.seq

\* Under mutex[cpu]: switch the output file first if SIGUSR2 asked for it.
ToWrite(c) ==
  thr' = [thr EXCEPT ![c].to = IF switch_file[c] THEN "write" ELSE "hdr",
                     ![c].pc = IF switch_file[c] THEN "close" ELSE "write"]

wait_turn(c) ==
  /\ At(c, "wait") /\ OurTurn(c)
  /\ ToWrite(c)
  /\ UNCHANGED <<inputs, kernel, output, last, stop_threads, switch_file,
                 signalling, history>>

\* pthread_cond_timedwait returned ETIMEDOUT
wait_timeout(c) ==
  /\ At(c, "wait") /\ ~ OurTurn(c)
  /\ ToWrite(c)
  /\ late' = TRUE
  /\ UNCHANGED <<inputs, kernel, output, last, stop_threads, switch_file, signalling,
                 resync, misread>>

\* switch_outfile, first half.  Only out_fd[avail_cpus[0]] is ever written to.
switch_outfile(c) ==
  /\ At(c, "close")
  /\ out_fd' = IF c = First THEN Closed ELSE out_fd
  /\ Goto(c, "open")
  /\ UNCHANGED <<inputs, kernel, files, log, last, stop_threads, switch_file,
                 signalling, history>>

\* switch_outfile, second half with open_outfile: the name of the next file does
\* not depend on the cpu, and O_TRUNC empties a file that exists.
open_outfile(c) ==
  /\ At(c, "open")
  /\ thr' = [thr EXCEPT ![c].fnum = @ + 1, ![c].to = "hdr",
                     ![c].pc = thr[c].to]
  /\ files' = {f \in files : f.file # thr[c].fnum + 1}
  /\ out_fd' = IF c = First THEN thr[c].fnum + 1 ELSE out_fd
  /\ switch_file' = [switch_file EXCEPT ![c] = FALSE]
  /\ UNCHANGED <<inputs, kernel, log, last, stop_threads, signalling, history>>

\* The copy loop: rc, the result of the last read, is what gets written.
write(c) ==
  /\ At(c, "write")
  /\ out_fd # Closed \/ thr[c].rc = 0
  /\ IF thr[c].rc > 0
       THEN /\ files' = files \cup {[file |-> out_fd, seq |-> thr[c].hdr.seq]}
            /\ log' = Append(log, [seq |-> thr[c].hdr.seq,
                                   text |-> SubSeq(thr[c].got, 1, thr[c].rc)])
       ELSE UNCHANGED <<files, log>>
  /\ Goto(c, "update")
  /\ UNCHANGED <<inputs, kernel, out_fd, last, stop_threads, switch_file,
                 signalling, history>>

\* write(2) fails, always so on a closed fd: error_out, SIGTERM to stapio itself.
write_fails(c) ==
  /\ At(c, "write") /\ thr[c].rc > 0
  /\ IF out_fd = Closed THEN UNCHANGED inputs ELSE Input
  /\ Goto(c, "dead")
  /\ UNCHANGED <<kernel, output, last, stop_threads, switch_file,
                 signalling, history>>

\* Let the next message go ahead, unless someone leapfrogged this one.
update_last(c) ==
  /\ At(c, "update")
  /\ last' = IF last < thr[c].hdr.seq THEN thr[c].hdr.seq ELSE last
  /\ thr' = [thr EXCEPT ![c].pc = LoopPc, ![c].hdr = NoHdr, ![c].got = <<>>,
                        ![c].rc = 0]
  /\ UNCHANGED <<inputs, kernel, output, stop_threads, switch_file, signalling, history>>

-----------------------------------------------------------------------------
(* The main thread of stapio *)

Ended(c) == thr[c].pc \in {"done", "dead"}

\* close_relayfs up to its pthread_join, which returns when all have ended.
close_relayfs ==
  /\ ~ stop_threads /\ hnd[Main].at = "idle"
  /\ stop_threads' = TRUE
  /\ thr' = [c \in Cpus |-> pthread_kill(thr[c])]
  /\ UNCHANGED <<inputs, kernel, output, last, switch_file, signalling, history>>

-----------------------------------------------------------------------------
Reader(c) ==
  \/ ppoll(c) \/ ppoll_signalled(c) \/ interrupted(c)
  \/ read_header(c) \/ drain(c) \/ read_body(c)
  \/ wait_turn(c) \/ wait_timeout(c) \/ switch_outfile(c) \/ open_outfile(c)
  \/ write(c) \/ write_fails(c) \/ update_last(c)

Next ==
  \/ \E c \in Cpus : Reader(c) \/ \E len \in 1 .. MaxBody : __stp_print_flush(c, len)
  \/ \E t \in Threads : switchfile_handler(t)
  \/ wakeup_timer \/ data_fs_stop \/ sigusr2 \/ main_signalled \/ close_relayfs

Spec == Init /\ [][Next]_vars

\* The kernel schedules every thread of stapio and delivers its signals, a timed
\* wait ends, and the wakeup timer expires.  Nothing makes a script print or a user send a signal.
FairSpec ==
  /\ Spec
  /\ \A c \in Cpus : WF_vars(Reader(c))
  /\ \A t \in Threads : WF_vars(switchfile_handler(t))
  /\ WF_vars(main_signalled) /\ WF_vars(wakeup_timer)

-----------------------------------------------------------------------------
(* Properties *)

\* The units of cpu c's buffer in the order they will be read.
Held(c) == Avail(rb[c].subs) \o rb[c].cur

Message == 1 .. Len(pdu)

\* Message s lies whole and in one piece in a relay buffer,
InRelay(s) ==
  \E c \in Cpus : \E i \in 1 .. Len(Held(c)) - pdu[s] :
    SubSeq(Held(c), i, i + pdu[s]) = Units(s, 0, pdu[s])

\* or a reader has its header, what it read so far, and the rest before it,
InHand(s) ==
  \E c \in Cpus :
    /\ thr[c].hdr = [seq |-> s, len |-> pdu[s]]
    /\ LET n == Len(thr[c].got)
       IN  /\ thr[c].got = Units(s, 1, n)
           /\ IF At(c, "body")
                THEN SubSeq(Held(c), 1, pdu[s] - n) = Units(s, n + 1, pdu[s])
                ELSE n = pdu[s] /\ thr[c].rc = n

\* or all of it has been written, once.
Written(s) ==
  LET at == {i \in 1 .. Len(log) : log[i].seq = s}
  IN  Cardinality(at) = 1 /\ \A i \in at : log[i].text = Units(s, 1, pdu[s])

\* Every variable has its type, and a relay buffer never has more sub-buffers
\* than it was made with, nor a sub-buffer more than its size.
TypeOK ==
  /\ \A c \in Cpus :
       /\ rb[c].subs \in Seq(Seq(Unit)) /\ rb[c].cur \in Seq(Unit)
       /\ rb[c].full \in BOOLEAN
       /\ Len(rb[c].subs) <= NSubbufs /\ Len(rb[c].cur) <= SubbufSize
       /\ \A i \in 1 .. Len(rb[c].subs) : Len(rb[c].subs[i]) <= SubbufSize
       /\ thr[c].pc \in {"poll", "asleep", "handler", "eintr", "hdr", "drain", "body",
                         "wait", "close", "open", "write", "update", "done", "dead"}
       /\ thr[c].got \in Seq(Unit) /\ thr[c].rc \in 0 .. MaxBody
       /\ thr[c].hdr.seq \in 0 .. FalseSeq /\ thr[c].hdr.len \in 0 .. MaxBody
       /\ thr[c].sig \in BOOLEAN /\ thr[c].fnum \in Nat
       /\ thr[c].to \in {"hdr", "write"}
  /\ pdu \in Seq(1 .. MaxBody) /\ Len(pdu) <= inputs
  /\ inputs \in 0 .. MaxInputs /\ failures \in 0 .. MaxInputs
  /\ {wakeup, running, stop_threads, late, resync, misread, usr2} \subseteq BOOLEAN
  /\ switch_file \in [Cpus -> BOOLEAN]
  /\ last \in 0 .. FalseSeq
  /\ hnd \in [Threads -> [at : {"idle", "check", "set", "kill", "return"}, i : Cpus]]
  /\ out_fd \in Nat \cup {Closed}
  /\ files \subseteq [file : Nat, seq : 0 .. FalseSeq]
  /\ \A i \in 1 .. Len(log) : log[i].seq \in 0 .. FalseSeq /\ log[i].text \in Seq(Unit)

InSequence == \A i, j \in 1 .. Len(log) : i < j => log[i].seq < log[j].seq

\* The output of all cpus is in the order in which the handlers printed it, as
\* the sequence numbers tell it, unless some reader gave up waiting or took
\* something else for a header.  The write is done after the mutex of
\* last_sequence_number was released.
OrderKept == ~ late /\ ~ misread => InSequence

\* A reader takes text or junk for a header only after the kernel has counted a
\* transport failure: as long as all messages fit, every read of a header finds
\* one, also after a draining read.
FramingKept == misread => failures > 0

\* As long as no transport failure was counted and no draining read threw data
\* away, every message that was flushed is whole: in its relay buffer, in the
\* hands of a reader, or in the output, exactly once.
NoSilentLoss ==
  failures = 0 /\ ~ resync =>
    \A s \in Message : InRelay(s) \/ InHand(s) \/ Written(s)

\* A message is in a relay buffer, or a reader has it and is not done with it.
Pending ==
  \/ \E c \in Cpus : \E i \in 1 .. Len(Held(c)) : Held(c)[i].at = 0
  \/ \E c \in Cpus : ~ Ended(c) /\ thr[c].hdr # NoHdr

\* No message stays in a relay buffer or in a reader for ever: the wakeup timer
\* or the flush of _stp_transport_data_fs_stop finds it, and a reader whose
\* predecessor was lost does not wait for it without end.  The exceptions are a
\* stapio that is closing, a reader that ended on an error, and a transport
\* stopped when a buffer had already overflowed.  (The script prints finitely
\* often, so that all messages are delivered some day.)
Delivered ==
  Pending ~> \/ ~ Pending
             \/ stop_threads \/ \E c \in Cpus : Ended(c)
             \/ ~ running /\ failures > 0

\* The pthread_join of close_relayfs returns: every reader sees stop_threads,
\* wherever it was when the signal came.
ReadersEnd == stop_threads ~> \A c \in Cpus : Ended(c)

\* SIGUSR2 makes stapio go on in the next file: what has been written is found
\* in one of the files (staprun.8, "FILE SWITCHING BY SIGNAL").
SwitchKeepsOutput ==
  \A i \in 1 .. Len(log) : \E f \in files : f.seq = log[i].seq
=============================================================================
