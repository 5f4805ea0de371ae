-------------------------- MODULE CtlQueue_proofs ---------------------------
(* The buffers of the control channel are never shared and never mislaid,
   and the channel implements the mailbox, for any number of senders,
   buffers and messages.                                                    *)
EXTENDS CtlQueue, TLAPS, SequenceTheorems

Elems(q) == {q[i] : i \in 1 .. Len(q)}

Distinct(q) == \A i, j \in 1 .. Len(q) : q[i] = q[j] => i = j

(* list_add_tail adds its buffer, and nothing else, to the list.            *)
LEMMA ElemsAppend ==
    ASSUME NEW S, NEW q \in Seq(S), NEW e \in S
    PROVE  /\ Append(q, e) \in Seq(S)
           /\ Elems(Append(q, e)) = Elems(q) \cup {e}
           /\ Distinct(q) /\ e \notin Elems(q) => Distinct(Append(q, e))
<1> DEFINE r == Append(q, e)
<1>1. /\ r \in Seq(S)
      /\ Len(r) = Len(q) + 1
      /\ \A i \in 1 .. Len(q) : r[i] = q[i]
      /\ r[Len(q) + 1] = e
      /\ Len(q) \in Nat
  OBVIOUS
<1> HIDE DEF r
<1>2. Elems(r) = Elems(q) \cup {e}
  <2>1. ASSUME NEW x \in Elems(r) PROVE x \in Elems(q) \cup {e}
    <3>1. PICK i \in 1 .. Len(r) : x = r[i]
      BY <2>1 DEF Elems
    <3>2. i \in 1 .. Len(q) \/ i = Len(q) + 1
      BY <1>1
    <3>3. QED
      BY <1>1, <3>1, <3>2 DEF Elems
  <2>2. ASSUME NEW x \in Elems(q) PROVE x \in Elems(r)
    <3>1. PICK i \in 1 .. Len(q) : x = q[i]
      BY <2>2 DEF Elems
    <3>2. i \in 1 .. Len(r) /\ x = r[i]
      BY <1>1, <3>1
    <3>3. QED
      BY <3>2 DEF Elems
  <2>3. e \in Elems(r)
    <3>1. Len(q) + 1 \in 1 .. Len(r) /\ r[Len(q) + 1] = e
      BY <1>1
    <3>2. QED
      BY <3>1 DEF Elems
  <2>4. QED
    BY <2>1, <2>2, <2>3
<1>3. ASSUME Distinct(q), e \notin Elems(q) PROVE Distinct(r)
  <2>1. \A i \in 1 .. Len(q) : q[i] # e
    BY <1>3 DEF Elems
  <2>2. QED
    BY <1>1, <1>3, <2>1 DEF Distinct
<1>4. QED
  BY <1>1, <1>2, <1>3 DEF r

(* Taking the first buffer off a list without repetitions removes it.       *)
LEMMA ElemsTail ==
    ASSUME NEW S, NEW q \in Seq(S), q # <<>>, Distinct(q)
    PROVE  /\ Tail(q) \in Seq(S)
           /\ Head(q) \in S
           /\ Head(q) \in Elems(q)
           /\ Elems(Tail(q)) = Elems(q) \ {Head(q)}
           /\ Distinct(Tail(q))
<1> DEFINE r == Tail(q)
<1>1. /\ r \in Seq(S)
      /\ Len(q) \in Nat /\ Len(q) >= 1
      /\ Len(r) = Len(q) - 1
      /\ \A i \in 1 .. Len(r) : r[i] = q[i + 1]
      /\ Head(q) = q[1]
      /\ q[1] \in S
  OBVIOUS
<1> HIDE DEF r
<1>2. Head(q) \in Elems(q)
  <2>1. 1 \in 1 .. Len(q)
    BY <1>1
  <2>2. QED
    BY <1>1, <2>1 DEF Elems
<1>3. Elems(r) = Elems(q) \ {Head(q)}
  <2>1. ASSUME NEW x \in Elems(r) PROVE x \in Elems(q) /\ x # Head(q)
    <3>1. PICK i \in 1 .. Len(r) : x = r[i]
      BY <2>1 DEF Elems
    <3>2. /\ i + 1 \in 1 .. Len(q) /\ x = q[i + 1]
          /\ 1 \in 1 .. Len(q) /\ i + 1 # 1
      BY <1>1, <3>1
    <3>3. x # q[1]
      BY <3>2 DEF Distinct
    <3>4. x \in Elems(q)
      BY <3>2 DEF Elems
    <3>5. QED
      BY <1>1, <3>3, <3>4
  <2>2. ASSUME NEW x \in Elems(q), x # Head(q) PROVE x \in Elems(r)
    <3>1. PICK i \in 1 .. Len(q) : x = q[i]
      BY <2>2 DEF Elems
    <3>2. i - 1 \in 1 .. Len(r) /\ x = r[i - 1]
      BY <1>1, <2>2, <3>1
    <3>3. QED
      BY <3>2 DEF Elems
  <2>3. QED
    BY <2>1, <2>2
<1>4. Distinct(r)
  BY <1>1 DEF Distinct
<1>5. QED
  BY <1>1, <1>2, <1>3, <1>4 DEF r

----------------------------------------------------------------------------
(* A freshly registered channel satisfies the invariant.                    *)
LEMMA InitInv == Init => QueueInv
<1> SUFFICES ASSUME Init PROVE QueueInv
  OBVIOUS
<1> USE DEF Init
<1>1. ready_q \in Seq(Buffers) /\ Len(ready_q) = 0
  OBVIOUS
<1>2. Queued = {}
  BY <1>1 DEF Queued
<1>3. TypeOK
  BY <1>1, QueueAssumption
     DEF TypeOK, Buffers, Special, Dynamic, OneShot, Overflow
<1>4. BuffersAccounted
  BY <1>1, <1>2, QueueAssumption
     DEF BuffersAccounted, OnePlace, NoneMissing, Available, Buffers
<1>5. QED
  BY <1>3, <1>4 DEF QueueInv

(* Steps that leave the list alone leave its elements alone.                *)
LEMMA SameQueue ==
    ASSUME UNCHANGED ready_q
    PROVE  Queued' = Queued
BY DEF Queued

(* Starting a send moves no buffer.                                         *)
LEMMA SendInv ==
    ASSUME QueueInv, NEW s \in Senders, NEW t \in Types, stp_ctl_send(s, t)
    PROVE  QueueInv'
<1>1. Queued' = Queued /\ Queued \subseteq Buffers
  BY SameQueue DEF stp_ctl_send, QueueInv, TypeOK, Queued
<1>2. TypeOK'
  BY QueueAssumption
     DEF stp_ctl_send, QueueInv, TypeOK, Buffers, Special, Dynamic, OneShot,
         sendvars, readvars, histvars
<1>3. BuffersAccounted'
  BY <1>1, QueueAssumption
     DEF stp_ctl_send, QueueInv, TypeOK, BuffersAccounted, OnePlace,
         NoneMissing, Available, Buffers, Special, Dynamic, OneShot, sendvars,
         readvars, histvars
<1>4. QED
  BY <1>2, <1>3, QueueAssumption
     DEF stp_ctl_send, QueueInv, TypeOK, BuffersAccounted, OnePlace,
         NoneMissing, Available, Buffers, Special, Dynamic, OneShot, sendvars,
         readvars, histvars

(* A buffer leaves the pool for the hands of one sender.                    *)
LEMMA AllocInv ==
    ASSUME QueueInv, NEW s \in Senders, NEW b \in Pool, stp_mempool_alloc(s, b)
    PROVE  QueueInv'
<1>1. Queued' = Queued /\ Queued \subseteq Buffers
  BY SameQueue DEF stp_mempool_alloc, QueueInv, TypeOK, Queued
<1>2. TypeOK'
  BY QueueAssumption
     DEF stp_mempool_alloc, Fill, Message, QueueInv, TypeOK, Buffers, Special,
         Dynamic, OneShot, sendvars, readvars, histvars
<1>3. BuffersAccounted'
  BY <1>1, QueueAssumption
     DEF stp_mempool_alloc, Fill, Message, QueueInv, TypeOK, BuffersAccounted,
         OnePlace, NoneMissing, Available, Buffers, Special, Dynamic, OneShot,
         sendvars, readvars, histvars
<1>4. QED
  BY <1>2, <1>3, QueueAssumption
     DEF stp_mempool_alloc, Fill, Message, QueueInv, TypeOK, BuffersAccounted,
         OnePlace, NoneMissing, Available, Buffers, Special, Dynamic, OneShot,
         sendvars, readvars, histvars

(* Finding the pool empty moves no buffer.                                  *)
LEMMA PoolEmptyInv ==
    ASSUME QueueInv, NEW s \in Senders, PoolEmpty(s)
    PROVE  QueueInv'
<1>1. Queued' = Queued /\ Queued \subseteq Buffers
  BY SameQueue DEF PoolEmpty, QueueInv, TypeOK, Queued
<1>2. TypeOK'
  BY QueueAssumption
     DEF PoolEmpty, QueueInv, TypeOK, Buffers, Special, Dynamic, OneShot,
         sendvars, readvars, histvars
<1>3. BuffersAccounted'
  BY <1>1, QueueAssumption
     DEF PoolEmpty, QueueInv, TypeOK, BuffersAccounted, OnePlace, NoneMissing,
         Available, Buffers, Special, Dynamic, OneShot, sendvars, readvars,
         histvars
<1>4. QED
  BY <1>2, <1>3, QueueAssumption
     DEF PoolEmpty, QueueInv, TypeOK, BuffersAccounted, OnePlace, NoneMissing,
         Available, Buffers, Special, Dynamic, OneShot, sendvars, readvars,
         histvars

(* A special buffer is taken only when nobody has it.                       *)
LEMMA TakeSpecialInv ==
    ASSUME QueueInv, NEW s \in Senders, TakeSpecial(s)
    PROVE  QueueInv'
<1>1. Queued' = Queued /\ Queued \subseteq Buffers
  BY SameQueue DEF TakeSpecial, QueueInv, TypeOK, Queued
<1>2. TypeOK'
  BY QueueAssumption
     DEF TakeSpecial, Fill, Message, Overflow, QueueInv, TypeOK, Buffers,
         Special, Dynamic, OneShot, sendvars, readvars, histvars
<1>3. BuffersAccounted'
  <2>1. /\ type[s] \in Special /\ type[s] \in Available /\ type[s] \in Buffers
        /\ Available' = Available \ {type[s]}
        /\ sbuf' = [sbuf EXCEPT ![s] = type[s]]
        /\ sbuf[s] = NoBuffer
        /\ UNCHANGED <<leaked, rbuf, ready_q>>
    BY QueueAssumption
       DEF TakeSpecial, Fill, QueueInv, TypeOK, Available, Buffers, readvars,
           histvars
  <2>2. OnePlace'
    BY <1>1, <2>1, QueueAssumption
       DEF QueueInv, TypeOK, BuffersAccounted, OnePlace
  <2>3. NoneMissing'
    BY <1>1, <2>1, QueueAssumption
       DEF QueueInv, TypeOK, BuffersAccounted, NoneMissing
  <2>4. QED
    BY <2>2, <2>3 DEF BuffersAccounted
<1>4. QED
  BY <1>2, <1>3, QueueAssumption
     DEF TakeSpecial, Fill, Message, Overflow, QueueInv, TypeOK,
         BuffersAccounted, OnePlace, NoneMissing, Available, Buffers, Special,
         Dynamic, OneShot, sendvars, readvars, histvars

(* A lost message moves no buffer.                                          *)
LEMMA SpecialTakenInv ==
    ASSUME QueueInv, NEW s \in Senders, SpecialTaken(s)
    PROVE  QueueInv'
<1>1. Queued' = Queued /\ Queued \subseteq Buffers
  BY SameQueue DEF SpecialTaken, QueueInv, TypeOK, Queued
<1>2. TypeOK'
  BY QueueAssumption
     DEF SpecialTaken, QueueInv, TypeOK, Buffers, Special, Dynamic, OneShot,
         sendvars, readvars, histvars
<1>3. BuffersAccounted'
  BY <1>1, QueueAssumption
     DEF SpecialTaken, QueueInv, TypeOK, BuffersAccounted, OnePlace,
         NoneMissing, Available, Buffers, Special, Dynamic, OneShot, sendvars,
         readvars, histvars
<1>4. QED
  BY <1>2, <1>3, QueueAssumption
     DEF SpecialTaken, QueueInv, TypeOK, BuffersAccounted, OnePlace,
         NoneMissing, Available, Buffers, Special, Dynamic, OneShot, sendvars,
         readvars, histvars

(* Waking the reader moves no buffer.                                       *)
LEMMA NotifyInv ==
    ASSUME QueueInv, NEW s \in Senders, stp_ctl_send_notify(s)
    PROVE  QueueInv'
<1>1. Queued' = Queued /\ Queued \subseteq Buffers
  BY SameQueue DEF stp_ctl_send_notify, QueueInv, TypeOK, Queued
<1>2. TypeOK'
  BY QueueAssumption
     DEF stp_ctl_send_notify, QueueInv, TypeOK, Buffers, Special, Dynamic,
         OneShot, sendvars, readvars, histvars
<1>3. BuffersAccounted'
  BY <1>1, QueueAssumption
     DEF stp_ctl_send_notify, QueueInv, TypeOK, BuffersAccounted, OnePlace,
         NoneMissing, Available, Buffers, Special, Dynamic, OneShot, sendvars,
         readvars, histvars
<1>4. QED
  BY <1>2, <1>3, QueueAssumption
     DEF stp_ctl_send_notify, QueueInv, TypeOK, BuffersAccounted, OnePlace,
         NoneMissing, Available, Buffers, Special, Dynamic, OneShot, sendvars,
         readvars, histvars

(* Going to sleep moves no buffer.                                          *)
LEMMA ReadEmptyInv ==
    ASSUME QueueInv, ReadEmpty
    PROVE  QueueInv'
<1>1. Queued' = Queued /\ Queued \subseteq Buffers
  BY SameQueue DEF ReadEmpty, QueueInv, TypeOK, Queued
<1>2. TypeOK'
  BY QueueAssumption
     DEF ReadEmpty, QueueInv, TypeOK, Buffers, Special, Dynamic, OneShot,
         sendvars, readvars, histvars
<1>3. BuffersAccounted'
  BY <1>1, QueueAssumption
     DEF ReadEmpty, QueueInv, TypeOK, BuffersAccounted, OnePlace, NoneMissing,
         Available, Buffers, Special, Dynamic, OneShot, sendvars, readvars,
         histvars
<1>4. QED
  BY <1>2, <1>3, QueueAssumption
     DEF ReadEmpty, QueueInv, TypeOK, BuffersAccounted, OnePlace, NoneMissing,
         Available, Buffers, Special, Dynamic, OneShot, sendvars, readvars,
         histvars

(* Copying leaves the buffer with the reader.                               *)
LEMMA CopyInv ==
    ASSUME QueueInv, CopyToUser
    PROVE  QueueInv'
<1>1. Queued' = Queued /\ Queued \subseteq Buffers
  BY SameQueue DEF CopyToUser, QueueInv, TypeOK, Queued
<1>2. TypeOK'
  <2>1. rbuf \in Buffers /\ content[rbuf].number \in Nat
    BY DEF CopyToUser, QueueInv, TypeOK
  <2>2. content[rbuf] = Overflow => rbuf \in Special
    <3>1. rbuf \in Pool => content[rbuf].from \in Senders
      BY DEF QueueInv, BuffersAccounted, OnePlace, Available
    <3>2. QED
      BY <2>1, <3>1, QueueAssumption DEF Overflow, Buffers
  <2>3. told' \subseteq Special
    BY <2>2 DEF CopyToUser, QueueInv, TypeOK
  <2>4. got' \in [Senders -> Nat]
    BY <2>1 DEF CopyToUser, QueueInv, TypeOK
  <2>5. QED
    BY <2>3, <2>4 DEF CopyToUser, QueueInv, TypeOK, sendvars
<1>3. BuffersAccounted'
  BY <1>1, QueueAssumption
     DEF CopyToUser, Overflow, QueueInv, TypeOK, BuffersAccounted, OnePlace,
         NoneMissing, Available, Buffers, Special, Dynamic, OneShot, sendvars,
         readvars, histvars
<1>4. QED
  BY <1>2, <1>3, QueueAssumption
     DEF CopyToUser, Overflow, QueueInv, TypeOK, BuffersAccounted, OnePlace,
         NoneMissing, Available, Buffers, Special, Dynamic, OneShot, sendvars,
         readvars, histvars

(* A failed copy moves the buffer from the reader to the leaked ones.       *)
LEMMA CopyFailsInv ==
    ASSUME QueueInv, CopyFails
    PROVE  QueueInv'
<1>1. Queued' = Queued /\ Queued \subseteq Buffers
  BY SameQueue DEF CopyFails, QueueInv, TypeOK, Queued
<1>2. TypeOK'
  BY QueueAssumption
     DEF CopyFails, QueueInv, TypeOK, Buffers, Special, Dynamic, OneShot,
         sendvars, readvars, histvars
<1>3. BuffersAccounted'
  BY <1>1, QueueAssumption
     DEF CopyFails, QueueInv, TypeOK, BuffersAccounted, OnePlace, NoneMissing,
         Available, Buffers, Special, Dynamic, OneShot, sendvars, readvars,
         histvars
<1>4. QED
  BY <1>2, <1>3, QueueAssumption
     DEF CopyFails, QueueInv, TypeOK, BuffersAccounted, OnePlace, NoneMissing,
         Available, Buffers, Special, Dynamic, OneShot, sendvars, readvars,
         histvars

(* Freeing moves the buffer from the reader to where it came from.          *)
LEMMA FreeInv ==
    ASSUME QueueInv, stp_ctl_free_buffer
    PROVE  QueueInv'
<1>1. Queued' = Queued /\ Queued \subseteq Buffers
  BY SameQueue DEF stp_ctl_free_buffer, QueueInv, TypeOK, Queued
<1>2. TypeOK'
  BY QueueAssumption
     DEF stp_ctl_free_buffer, QueueInv, TypeOK, Buffers, Special, Dynamic,
         OneShot, sendvars, readvars, histvars
<1>3. BuffersAccounted'
  BY <1>1, QueueAssumption
     DEF stp_ctl_free_buffer, QueueInv, TypeOK, BuffersAccounted, OnePlace,
         NoneMissing, Available, Buffers, Special, Dynamic, OneShot, sendvars,
         readvars, histvars
<1>4. QED
  BY <1>2, <1>3, QueueAssumption
     DEF stp_ctl_free_buffer, QueueInv, TypeOK, BuffersAccounted, OnePlace,
         NoneMissing, Available, Buffers, Special, Dynamic, OneShot, sendvars,
         readvars, histvars

(* The control timer moves no buffer.                                       *)
LEMMA WakeInv ==
    ASSUME QueueInv, TimerWake
    PROVE  QueueInv'
<1>1. Queued' = Queued /\ Queued \subseteq Buffers
  BY SameQueue DEF TimerWake, QueueInv, TypeOK, Queued
<1>2. TypeOK'
  BY QueueAssumption
     DEF TimerWake, QueueInv, TypeOK, Buffers, Special, Dynamic, OneShot,
         sendvars, readvars, histvars
<1>3. BuffersAccounted'
  BY <1>1, QueueAssumption
     DEF TimerWake, QueueInv, TypeOK, BuffersAccounted, OnePlace, NoneMissing,
         Available, Buffers, Special, Dynamic, OneShot, sendvars, readvars,
         histvars
<1>4. QED
  BY <1>2, <1>3, QueueAssumption
     DEF TimerWake, QueueInv, TypeOK, BuffersAccounted, OnePlace, NoneMissing,
         Available, Buffers, Special, Dynamic, OneShot, sendvars, readvars,
         histvars

----------------------------------------------------------------------------
(* The steps that change the list.                                          *)
LEMMA EnqueueInv ==
    ASSUME QueueInv, NEW s \in Senders, Enqueue(s)
    PROVE  QueueInv'
<1>1. ready_q \in Seq(Buffers) /\ Queued = Elems(ready_q)
  BY DEF QueueInv, TypeOK, Queued, Elems
<1>2. /\ sbuf[s] \in Buffers
      /\ sbuf[s] \notin Queued
      /\ Distinct(ready_q)
  BY DEF Enqueue, QueueInv, TypeOK, BuffersAccounted, OnePlace, Distinct
<1>3. /\ ready_q' \in Seq(Buffers)
      /\ Elems(ready_q') = Elems(ready_q) \cup {sbuf[s]}
      /\ Distinct(ready_q')
  BY <1>1, <1>2, ElemsAppend DEF Enqueue
<1>4. Queued' = Queued \cup {sbuf[s]}
  BY <1>1, <1>3 DEF Queued, Elems
<1>5. TypeOK'
  BY <1>3 DEF Enqueue, QueueInv, TypeOK, readvars, histvars
<1>6. BuffersAccounted'
  <2>1. OnePlace'
    <3>1. /\ UNCHANGED <<rbuf, leaked, free_list, used>>
          /\ sbuf' = [sbuf EXCEPT ![s] = NoBuffer]
          /\ sbuf[s] # NoBuffer
      BY DEF Enqueue, QueueInv, readvars, histvars
    <3>2. Available' = Available
      BY <3>1 DEF Available
    <3>3. NoBuffer \notin Available \cup leaked \cup Queued \cup {sbuf[s]}
      BY <1>1, <3>1, QueueAssumption
         DEF QueueInv, TypeOK, Available, Buffers, Queued
    <3>4. QED
      BY <1>2, <1>3, <1>4, <3>1, <3>2, <3>3
         DEF QueueInv, TypeOK, BuffersAccounted, OnePlace, Distinct
  <2>2. NoneMissing'
    <3>1. /\ UNCHANGED <<rbuf, leaked, free_list, used>>
          /\ \A r \in Senders : r # s => sbuf'[r] = sbuf[r]
      BY DEF Enqueue, QueueInv, TypeOK, readvars, histvars
    <3>2. QED
      BY <1>4, <3>1 DEF QueueInv, BuffersAccounted, NoneMissing, Available
  <2>3. QED
    BY <2>1, <2>2 DEF BuffersAccounted
<1>7. QED
  BY <1>5, <1>6 DEF Enqueue, QueueInv, TypeOK, readvars, histvars

(* The head of the list goes to the reader.                                 *)
LEMMA DequeueInv ==
    ASSUME QueueInv, Dequeue
    PROVE  QueueInv'
<1>1. ready_q \in Seq(Buffers) /\ Queued = Elems(ready_q)
  BY DEF QueueInv, TypeOK, Queued, Elems
<1>2. ready_q # <<>> /\ Distinct(ready_q) /\ rbuf = NoBuffer
  BY DEF Dequeue, QueueInv, BuffersAccounted, OnePlace, Distinct
<1>3. /\ ready_q' \in Seq(Buffers)
      /\ rbuf' \in Buffers /\ rbuf' \in Queued
      /\ Elems(ready_q') = Elems(ready_q) \ {rbuf'}
      /\ Distinct(ready_q')
  BY <1>1, <1>2, ElemsTail DEF Dequeue
<1>4. Queued' = Queued \ {rbuf'}
  BY <1>1, <1>3 DEF Queued, Elems
<1>5. TypeOK'
  BY <1>3 DEF Dequeue, QueueInv, TypeOK, sendvars, histvars
<1>6. BuffersAccounted'
  <2>1. OnePlace'
    BY <1>2, <1>3, <1>4, QueueAssumption
       DEF Dequeue, QueueInv, TypeOK, BuffersAccounted, OnePlace, Available,
           Distinct, sendvars, histvars
  <2>2. NoneMissing'
    BY <1>2, <1>3, <1>4, QueueAssumption
       DEF Dequeue, QueueInv, TypeOK, BuffersAccounted, NoneMissing,
           Available, sendvars, histvars
  <2>3. QED
    BY <2>1, <2>2 DEF BuffersAccounted
<1>7. QED
  BY <1>3, <1>5, <1>6, QueueAssumption
     DEF Dequeue, QueueInv, TypeOK, sendvars, histvars

(* Unregistering moves all that is queued back.                             *)
LEMMA UnregisterInv ==
    ASSUME QueueInv, stp_unregister_ctl_channel
    PROVE  QueueInv'
<1>1. ready_q' \in Seq(Buffers) /\ Len(ready_q') = 0
  BY DEF stp_unregister_ctl_channel
<1>2. Queued' = {}
  BY <1>1 DEF Queued
<1>3. Queued \subseteq Buffers
  BY DEF QueueInv, TypeOK, Queued
<1>4. TypeOK'
  BY <1>1
     DEF stp_unregister_ctl_channel, QueueInv, TypeOK, sendvars, readvars,
         histvars
<1>5. /\ rbuf = NoBuffer /\ rbuf' = NoBuffer
      /\ \A s \in Senders : sbuf[s] = NoBuffer /\ sbuf'[s] = NoBuffer
  BY DEF stp_unregister_ctl_channel, QueueInv, sendvars, readvars
<1>6. Available' = Available \cup Queued
  BY <1>3, QueueAssumption
     DEF stp_unregister_ctl_channel, QueueInv, TypeOK, Available, Buffers
<1>7. BuffersAccounted'
  <2>1. leaked' = leaked
    BY DEF stp_unregister_ctl_channel, histvars
  <2>2. Available' \subseteq Buffers /\ leaked \subseteq Buffers
    BY <1>3, <1>6 DEF QueueInv, TypeOK, Available, Buffers
  <2>3. OnePlace'
    BY <1>1, <1>2, <1>5, <1>6, <2>1, <2>2, QueueAssumption
       DEF QueueInv, BuffersAccounted, OnePlace
  <2>4. NoneMissing'
    BY <1>2, <1>5, <1>6, <2>1, QueueAssumption
       DEF QueueInv, BuffersAccounted, NoneMissing
  <2>5. QED
    BY <2>3, <2>4 DEF BuffersAccounted
<1>8. QED
  BY <1>4, <1>5, <1>7
     DEF stp_unregister_ctl_channel, QueueInv, sendvars, readvars

----------------------------------------------------------------------------
(* Every step of the senders, the reader and the timer preserves QueueInv.  *)
LEMMA NextInv ==
    ASSUME QueueInv, [Next]_vars
    PROVE  QueueInv'
<1>1. CASE \E s \in Senders, t \in Types : stp_ctl_send(s, t)
  BY <1>1, SendInv
<1>2. ASSUME NEW s \in Senders, Send(s) PROVE QueueInv'
  BY <1>2, AllocInv, PoolEmptyInv, TakeSpecialInv, SpecialTakenInv,
     EnqueueInv, NotifyInv
     DEF Send
<1>3. CASE Read
  BY <1>3, ReadEmptyInv, DequeueInv, CopyInv, CopyFailsInv, FreeInv DEF Read
<1>4. CASE TimerWake
  BY <1>4, WakeInv
<1>5. CASE stp_unregister_ctl_channel
  BY <1>5, UnregisterInv
<1>6. CASE UNCHANGED vars
  BY <1>6, SameQueue
     DEF vars, sendvars, readvars, histvars, QueueInv, TypeOK,
         BuffersAccounted, OnePlace, NoneMissing, Available
<1>7. QED
  BY <1>1, <1>2, <1>3, <1>4, <1>5, <1>6 DEF Next

(* QueueInv is an invariant of the control channel's buffers.               *)
THEOREM QueueInvariant == Spec => []QueueInv
<1>1. Init => QueueInv
  BY InitInv
<1>2. QueueInv /\ [Next]_vars => QueueInv'
  BY NextInv
<1>3. QED
  BY <1>1, <1>2, PTL DEF Spec

(* No buffer of _stp_ctl_ready_q, of the pool, of a sender or of the reader
   is ever in two of those places, and none is mislaid, except by the failed
   copy_to_user of _stp_ctl_read_cmd.                                       *)
THEOREM BuffersNeverShared == Spec => []BuffersAccounted
<1>1. QueueInv => BuffersAccounted
  BY DEF QueueInv
<1>2. QED
  BY <1>1, QueueInvariant, PTL

(* Unregistering the channel leaves every pool buffer where the destroyed
   pool frees it, unless a failed copy_to_user leaked it.                   *)
THEOREM UnregisterReturnsAll == Spec => []AllReturned
<1>1. QueueInv => AllReturned
  <2> SUFFICES ASSUME QueueInv, closed PROVE free_list = Pool \ leaked
    BY DEF AllReturned
  <2>1. Queued = {}
    <3>1. ready_q \in Seq(Buffers) /\ Len(ready_q) = 0
      BY DEF QueueInv
    <3>2. QED
      BY <3>1 DEF Queued
  <2>2. rbuf = NoBuffer /\ \A s \in Senders : sbuf[s] = NoBuffer
    BY DEF QueueInv
  <2>3. ASSUME NEW b \in Pool PROVE b \in free_list \/ b \in leaked
    <3>1. b \in Buffers /\ b # NoBuffer /\ b \notin Special
      BY QueueAssumption DEF Buffers
    <3>2. b \in Available \cup Queued \cup leaked
      BY <2>2, <3>1 DEF QueueInv, BuffersAccounted, NoneMissing
    <3>3. QED
      BY <2>1, <3>1, <3>2 DEF Available
  <2>4. free_list \subseteq Pool /\ free_list \cap leaked = {}
    BY DEF QueueInv, TypeOK, BuffersAccounted, OnePlace, Available
  <2>5. QED
    BY <2>3, <2>4
<1>2. QED
  BY <1>1, QueueInvariant, PTL

(* Every variable of the channel's buffers keeps its type.                  *)
THEOREM QueueTypes == Spec => []TypeOK
<1>1. QueueInv => TypeOK
  BY DEF QueueInv
<1>2. QED
  BY <1>1, QueueInvariant, PTL

----------------------------------------------------------------------------
(* What makes LossAnnounced inductive: the buffer set aside for a dynamic
   type always holds the overflow text, and when the reader gives it back it
   has read that text.                                                      *)
NoticeInv ==
    /\ \A t \in Dynamic : content[t] = Overflow
    /\ rpc = "free" /\ rbuf \in Dynamic => rbuf \in told

LossInv == NoticeInv /\ LossAnnounced

(* Where a buffer with an overflow text can be: nothing below loses one.    *)
UnderWay(t) == t \in Queued \/ t = rbuf \/ \E s \in Senders : sbuf[s] = t

(* Steps that write to no special buffer and take no overflow text away.    *)
LEMMA LossKept ==
    ASSUME LossInv,
           \A t \in Dynamic : content'[t] = content[t],
           rpc' = "free" => rpc = "free" /\ rbuf' = rbuf,
           told \subseteq told', leaked \subseteq leaked', lost' = lost,
           closed => closed',
           \A t \in Dynamic : UnderWay(t) => UnderWay(t)' \/ t \in told' \cup leaked'
                                             \/ closed'
    PROVE  LossInv'
<1>1. NoticeInv'
  BY DEF LossInv, NoticeInv, Overflow
<1>2. ASSUME NEW t \in lost' \cap Dynamic
      PROVE  t \in told' \cup leaked' \/ closed' \/ UnderWay(t)'
  BY <1>2 DEF LossInv, LossAnnounced, UnderWay
<1>3. LossAnnounced'
  BY <1>2 DEF LossAnnounced, UnderWay
<1>4. QED
  BY <1>1, <1>3 DEF LossInv

(* Filling a buffer: the special ones of dynamic types keep their text.     *)
LEMMA LossFill ==
    ASSUME QueueInv, LossInv, NEW s \in Senders, NEW b \in Buffers, NEW m,
           Fill(s, b, m), sbuf[s] = NoBuffer,
           b \in Dynamic => m = Overflow,
           UNCHANGED <<ready_q, rpc, rbuf, closed, lost, told, leaked>>
    PROVE  LossInv'
<1>1. \A t \in Dynamic : content'[t] = content[t]
  <2>1. Dynamic \subseteq Buffers
    BY DEF Buffers, Special
  <2>2. QED
    BY <2>1 DEF Fill, QueueInv, TypeOK, LossInv, NoticeInv
<1>2. \A t \in Dynamic : UnderWay(t) => UnderWay(t)'
  <2>1. Queued' = Queued
    BY SameQueue
  <2>2. \A t \in Dynamic : t # NoBuffer
    BY QueueAssumption DEF Buffers, Special
  <2>3. \A r \in Senders : r # s => sbuf'[r] = sbuf[r]
    BY DEF Fill, QueueInv, TypeOK
  <2>4. QED
    BY <2>1, <2>2, <2>3 DEF UnderWay
<1>3. QED
  BY <1>1, <1>2, LossKept

(* A message that finds its special buffer taken finds it on its way to the
   reader, or leaked.                                                       *)
LEMMA LossTaken ==
    ASSUME QueueInv, LossInv, NEW s \in Senders, SpecialTaken(s)
    PROVE  LossInv'
<1>1. /\ type[s] \in used /\ lost' = lost \cup {type[s]}
      /\ UNCHANGED <<content, ready_q, sbuf, rpc, rbuf, closed, told, leaked>>
  BY DEF SpecialTaken, readvars
<1>2. Queued' = Queued
  BY <1>1, SameQueue
<1>3. NoticeInv'
  BY <1>1 DEF LossInv, NoticeInv, Overflow
<1>4. type[s] \in leaked \/ UnderWay(type[s])
  <2>1. type[s] \in Special /\ type[s] \in Buffers /\ type[s] \notin free_list
    BY QueueAssumption DEF QueueInv, TypeOK, Buffers
  <2>2. type[s] \notin Available
    BY <1>1, <2>1 DEF Available
  <2>3. QED
    BY <2>1, <2>2 DEF QueueInv, BuffersAccounted, NoneMissing, UnderWay
<1>5. LossAnnounced'
  BY <1>1, <1>2, <1>4 DEF LossInv, LossAnnounced, UnderWay
<1>6. QED
  BY <1>3, <1>5 DEF LossInv

(* The senders' steps.                                                      *)
LEMMA LossSend ==
    ASSUME QueueInv, LossInv, NEW s \in Senders, Send(s)
    PROVE  LossInv'
<1>1. ASSUME NEW b \in Pool, stp_mempool_alloc(s, b) PROVE LossInv'
  <2>1. sbuf[s] = NoBuffer /\ b \in Buffers /\ b \notin Dynamic
    BY <1>1, QueueAssumption DEF stp_mempool_alloc, QueueInv, Buffers, Special
  <2>2. QED
    BY <1>1, <2>1, LossFill DEF stp_mempool_alloc, readvars, histvars
<1>2. CASE PoolEmpty(s)
  BY <1>2, SameQueue, LossKept DEF PoolEmpty, readvars, histvars, UnderWay
<1>3. CASE TakeSpecial(s)
  <2>1. sbuf[s] = NoBuffer /\ type[s] \in Buffers
    BY <1>3 DEF TakeSpecial, QueueInv, TypeOK, Buffers
  <2>2. QED
    BY <1>3, <2>1, LossFill DEF TakeSpecial, readvars, histvars
<1>4. CASE SpecialTaken(s)
  BY <1>4, LossTaken
<1>5. CASE Enqueue(s)
  <2>1. sbuf[s] \in Buffers
    BY <1>5 DEF Enqueue, QueueInv, TypeOK
  <2>2. Queued' = Queued \cup {sbuf[s]}
    <3>1. Elems(Append(ready_q, sbuf[s])) = Elems(ready_q) \cup {sbuf[s]}
      BY <2>1, ElemsAppend DEF QueueInv, TypeOK
    <3>2. QED
      BY <1>5, <3>1 DEF Enqueue, Elems, Queued
  <2>3. \A r \in Senders : r # s => sbuf'[r] = sbuf[r]
    BY <1>5 DEF Enqueue, QueueInv, TypeOK
  <2>4. \A t \in Dynamic : UnderWay(t) => UnderWay(t)'
    BY <1>5, <2>2, <2>3 DEF Enqueue, readvars, UnderWay
  <2>5. QED
    BY <1>5, <2>4, LossKept DEF Enqueue, readvars, histvars
<1>6. CASE stp_ctl_send_notify(s)
  BY <1>6, SameQueue, LossKept DEF stp_ctl_send_notify, histvars, UnderWay
<1>7. QED
  BY <1>1, <1>2, <1>3, <1>4, <1>5, <1>6 DEF Send

(* The reader's steps.                                                      *)
LEMMA LossRead ==
    ASSUME QueueInv, LossInv, Read
    PROVE  LossInv'
<1>1. CASE ReadEmpty
  BY <1>1, SameQueue, LossKept DEF ReadEmpty, sendvars, histvars, UnderWay
<1>2. CASE Dequeue
  <2>1. Elems(Tail(ready_q)) = Elems(ready_q) \ {Head(ready_q)}
    BY <1>2, ElemsTail
    DEF Dequeue, QueueInv, TypeOK, BuffersAccounted, OnePlace, Distinct
  <2>2. Queued' = Queued \ {rbuf'}
    BY <1>2, <2>1 DEF Dequeue, Elems, Queued
  <2>3. rbuf = NoBuffer
    BY <1>2 DEF Dequeue, QueueInv
  <2>4. \A t \in Dynamic : t # NoBuffer
    BY QueueAssumption DEF Buffers, Special
  <2>5. \A t \in Dynamic : UnderWay(t) => UnderWay(t)'
    BY <1>2, <2>2, <2>3, <2>4 DEF Dequeue, sendvars, UnderWay
  <2>6. QED
    BY <1>2, <2>5, LossKept DEF Dequeue, sendvars, histvars
<1>3. CASE CopyToUser
  <2>1. /\ Queued' = Queued
        /\ UNCHANGED <<content, rbuf, sbuf, leaked, lost, closed>>
        /\ told \subseteq told'
        /\ content[rbuf] = Overflow => rbuf \in told'
    BY <1>3, SameQueue DEF CopyToUser, sendvars
  <2>2. NoticeInv'
    BY <2>1 DEF LossInv, NoticeInv, Overflow
  <2>3. LossAnnounced'
    BY <2>1 DEF LossInv, LossAnnounced
  <2>4. QED
    BY <2>2, <2>3 DEF LossInv
<1>4. CASE CopyFails
  BY <1>4, SameQueue, LossKept DEF CopyFails, sendvars, UnderWay
<1>5. CASE stp_ctl_free_buffer
  <2>1. \A t \in Dynamic : UnderWay(t) => UnderWay(t)' \/ t \in told'
    BY <1>5, SameQueue
    DEF stp_ctl_free_buffer, sendvars, histvars, UnderWay, LossInv, NoticeInv
  <2>2. QED
    BY <1>5, <2>1, LossKept DEF stp_ctl_free_buffer, sendvars, histvars
<1>6. QED
  BY <1>1, <1>2, <1>3, <1>4, <1>5 DEF Read

(* A message of a dynamic type that finds neither a pool buffer nor its
   special one is never lost in silence: the overflow text for its type has
   been read or is on its way, unless copy_to_user failed on it or the
   channel was unregistered first.                                          *)
THEOREM LossesAnnounced == Spec => []LossAnnounced
<1>1. Init => LossInv
  BY DEF Init, LossInv, NoticeInv, LossAnnounced, Buffers, Special
<1>2. QueueInv /\ LossInv /\ [Next]_vars => LossInv'
  <2> SUFFICES ASSUME QueueInv, LossInv, [Next]_vars PROVE LossInv'
    OBVIOUS
  <2>1. ASSUME NEW s \in Senders, NEW t \in Types, stp_ctl_send(s, t)
        PROVE  LossInv'
    BY <2>1, SameQueue, LossKept DEF stp_ctl_send, readvars, histvars, UnderWay
  <2>2. CASE TimerWake
    BY <2>2, SameQueue, LossKept DEF TimerWake, sendvars, histvars, UnderWay
  <2>3. CASE stp_unregister_ctl_channel
    BY <2>3, LossKept
    DEF stp_unregister_ctl_channel, sendvars, readvars, histvars
  <2>4. CASE UNCHANGED vars
    BY <2>4, SameQueue, LossKept DEF vars, sendvars, readvars, histvars, UnderWay
  <2>5. QED
    BY <2>1, <2>2, <2>3, <2>4, LossSend, LossRead DEF Next
<1>3. LossInv => LossAnnounced
  BY DEF LossInv
<1>4. QED
  BY <1>1, <1>2, <1>3, QueueInvariant, PTL DEF Spec

-----------------------------------------------------------------------------
(* The refinement: what the buffers say is what the mailbox holds.          *)

(* Messages, the overflow text included.                                    *)
Msg == [from : Senders \cup {"overflow"}, number : Nat]

(* What the buffers of list q say.                                          *)
Says(q, c) == [i \in 1 .. Len(q) |-> c[q[i]]]

(* Before list_add_tail a sender's buffer holds its own message or the
   overflow text.                                                           *)
HandInv == \A s \in Senders :
    spc[s] = "queue" => content[sbuf[s]] \in {Overflow, Message(s)}

(* The messages of a list are a sequence.                                   *)
LEMMA SaysSeq ==
    ASSUME NEW S, NEW T, NEW q \in Seq(S), NEW c \in [S -> T]
    PROVE  Says(q, c) \in Seq(T) /\ Len(Says(q, c)) = Len(q)
<1>1. Len(q) \in Nat /\ \A i \in 1 .. Len(q) : q[i] \in S
  OBVIOUS
<1>2. \A i \in 1 .. Len(q) : c[q[i]] \in T
  BY <1>1
<1>3. QED
  BY <1>1, <1>2 DEF Says

(* list_add_tail appends what its buffer says.                              *)
LEMMA SaysAppend ==
    ASSUME NEW q \in Seq(Buffers), NEW c \in [Buffers -> Msg], NEW e \in Buffers
    PROVE  Says(Append(q, e), c) = Append(Says(q, c), c[e])
<1> DEFINE l == Says(Append(q, e), c)
           r == Append(Says(q, c), c[e])
<1>1. /\ Append(q, e) \in Seq(Buffers) /\ Len(Append(q, e)) = Len(q) + 1
      /\ \A i \in 1 .. Len(q) : Append(q, e)[i] = q[i]
      /\ Append(q, e)[Len(q) + 1] = e /\ Len(q) \in Nat
  OBVIOUS
<1>2. l \in Seq(Msg) /\ Len(l) = Len(q) + 1
  <2> DEFINE a == Append(q, e)
  <2>0. a \in Seq(Buffers)
    BY <1>1
  <2> HIDE DEF a
  <2>1. Says(a, c) \in Seq(Msg) /\ Len(Says(a, c)) = Len(a)
    BY <2>0, SaysSeq
  <2>2. QED
    BY <1>1, <2>1 DEF a
<1>3. Says(q, c) \in Seq(Msg) /\ Len(Says(q, c)) = Len(q) /\ c[e] \in Msg
  <2>1. Says(q, c) \in Seq(Msg) /\ Len(Says(q, c)) = Len(q)
    BY ONLY SaysSeq, q \in Seq(Buffers), c \in [Buffers -> Msg]
  <2>2. QED
    BY <2>1
<1>4. /\ r \in Seq(Msg) /\ Len(r) = Len(q) + 1
      /\ \A i \in 1 .. Len(q) : r[i] = Says(q, c)[i]
      /\ r[Len(q) + 1] = c[e]
  BY <1>1, <1>3
<1>5. ASSUME NEW i \in 1 .. Len(q) + 1 PROVE l[i] = r[i]
  <2>1. l[i] = c[Append(q, e)[i]]
    BY <1>1 DEF Says
  <2>2. CASE i = Len(q) + 1
    BY <1>1, <1>4, <2>1, <2>2
  <2>3. CASE i \in 1 .. Len(q)
    BY <1>1, <1>4, <2>1, <2>3 DEF Says
  <2>4. i = Len(q) + 1 \/ i \in 1 .. Len(q)
    BY <1>1
  <2>5. QED
    BY <2>2, <2>3, <2>4
<1> HIDE DEF l, r
<1>6. l = r
  BY <1>1, <1>2, <1>4, <1>5, SeqEqual
<1>7. QED
  BY <1>6 DEF l, r

(* Taking the head off a list moves what it says to the reader.             *)
LEMMA SaysTail ==
    ASSUME NEW S, NEW T, NEW q \in Seq(S), NEW c \in [S -> T], q # <<>>
    PROVE  <<c[Head(q)]>> \o Says(Tail(q), c) = Says(q, c)
<1>0. Says(q, c) \in Seq(T) /\ Len(Says(q, c)) = Len(q)
  BY ONLY SaysSeq, q \in Seq(S), c \in [S -> T]
<1>1. /\ Tail(q) \in Seq(S) /\ Len(Tail(q)) = Len(q) - 1 /\ Head(q) \in S
      /\ \A i \in 1 .. Len(q) - 1 : Tail(q)[i] = q[i + 1]
      /\ Len(q) \in Nat \ {0} /\ Head(q) = q[1]
  BY HeadTailProperties, EmptySeq
<1>a. /\ Says(Tail(q), c) \in Seq(T)
      /\ Len(Says(Tail(q), c)) = Len(Tail(q))
  <2> DEFINE a == Tail(q)
  <2>0. a \in Seq(S)
    BY <1>1
  <2> HIDE DEF a
  <2>1. Says(a, c) \in Seq(T) /\ Len(Says(a, c)) = Len(a)
    BY ONLY <2>0, SaysSeq, c \in [S -> T]
  <2>2. QED
    BY <2>1 DEF a
<1>2. c[Head(q)] \in T
  BY <1>1
<1> DEFINE l == <<c[Head(q)]>>
           t == Says(Tail(q), c)
           r == Says(q, c)
<1>3. l \in Seq(T) /\ Len(l) = 1 /\ l[1] = c[Head(q)]
  BY <1>2
<1>4. t \in Seq(T) /\ Len(t) = Len(q) - 1
  BY <1>1, <1>a
<1>5. r \in Seq(T) /\ Len(r) = Len(q)
  BY <1>0
<1>6. \A i \in 1 .. Len(q) - 1 : t[i] = c[q[i + 1]]
  BY <1>1 DEF Says
<1>7. \A i \in 1 .. Len(q) : r[i] = c[q[i]]
  BY DEF Says
<1> HIDE DEF l, t, r
<1>8. /\ l \o t \in Seq(T) /\ Len(l \o t) = Len(q)
      /\ \A i \in 1 .. Len(q) : (l \o t)[i] = IF i <= 1 THEN l[i] ELSE t[i - 1]
  <2>1. /\ l \o t \in Seq(T) /\ Len(l \o t) = Len(l) + Len(t)
        /\ \A i \in 1 .. Len(l) + Len(t) :
             (l \o t)[i] = IF i <= Len(l) THEN l[i] ELSE t[i - Len(l)]
    BY <1>3, <1>4, ConcatProperties
  <2>2. QED
    BY <1>1, <1>3, <1>4, <2>1
<1>9. ASSUME NEW i \in 1 .. Len(q) PROVE (l \o t)[i] = r[i]
  <2>1. CASE i = 1
    BY <1>1, <1>3, <1>7, <1>8, <2>1
  <2>2. CASE i > 1
    <3>1. i - 1 \in 1 .. Len(q) - 1 /\ (i - 1) + 1 = i
      BY <1>1, <2>2
    <3>2. t[i - 1] = c[q[i]]
      BY <1>6, <3>1
    <3>3. QED
      BY <1>7, <1>8, <2>2, <3>2
  <2>3. i = 1 \/ i > 1
    BY <1>1
  <2>4. QED
    BY <2>1, <2>2, <2>3
<1>10. l \o t = r
  BY <1>5, <1>8, <1>9, SeqEqual
<1>11. QED
  BY <1>10 DEF l, t, r

(* The message the reader holds is the first one under way.                 *)
LEMMA FirstOut ==
    ASSUME NEW T, NEW x \in T, NEW t \in Seq(T)
    PROVE  /\ <<x>> \o t # <<>>
           /\ Head(<<x>> \o t) = x
           /\ Tail(<<x>> \o t) = t
<1>1. <<x>> \in Seq(T) /\ Len(<<x>>) = 1 /\ <<x>>[1] = x
  OBVIOUS
<1> DEFINE p == <<x>> \o t
<1>2. /\ p \in Seq(T) /\ Len(p) = Len(t) + 1 /\ Len(t) \in Nat
      /\ \A i \in 1 .. Len(t) + 1 : p[i] = IF i <= 1 THEN <<x>>[i] ELSE t[i - 1]
  BY <1>1, ConcatProperties, LenProperties
<1> HIDE DEF p
<1>3. p # <<>>
  BY <1>2
<1>4. Head(p) = x
  BY <1>1, <1>2, <1>3
<1>5. /\ Tail(p) \in Seq(T) /\ Len(Tail(p)) = Len(t)
      /\ \A i \in 1 .. Len(t) : Tail(p)[i] = p[i + 1]
  BY <1>2, <1>3, HeadTailProperties
<1>6. ASSUME NEW i \in 1 .. Len(t) PROVE Tail(p)[i] = t[i]
  <2>1. i + 1 \in 1 .. Len(t) + 1 /\ ~(i + 1 <= 1) /\ (i + 1) - 1 = i
    BY <1>2
  <2>2. QED
    BY <1>2, <1>5, <2>1
<1>7. Tail(p) = t
  BY <1>5, <1>6, SeqEqual
<1>8. QED
  BY <1>3, <1>4, <1>7 DEF p

(* What a list says depends on the buffers that are on it only.             *)
LEMMA SaysSame ==
    ASSUME NEW q, NEW c, NEW d, \A i \in 1 .. Len(q) : c[q[i]] = d[q[i]]
    PROVE  Says(q, c) = Says(q, d)
BY DEF Says

----------------------------------------------------------------------------
(* The message in the reader's hands.                                       *)
AtReader == IF rpc = "copy" THEN <<content[rbuf]>> ELSE <<>>

(* The parts of Pipe are sequences of messages.                             *)
LEMMA PipeParts ==
    ASSUME QueueInv
    PROVE  /\ Pipe = AtReader \o Says(ready_q, content)
           /\ AtReader \in Seq(Msg)
           /\ Says(ready_q, content) \in Seq(Msg)
           /\ rpc = "copy" => content[rbuf] \in Msg
           /\ rpc # "copy" => Pipe = Says(ready_q, content)
<1>1. ready_q \in Seq(Buffers) /\ content \in [Buffers -> Msg]
  BY DEF QueueInv, TypeOK, Msg
<1>2. Says(ready_q, content) \in Seq(Msg)
  BY <1>1, SaysSeq
<1>3. Pipe = AtReader \o Says(ready_q, content)
  BY DEF Pipe, AtReader, Says
<1>4. ASSUME rpc = "copy" PROVE content[rbuf] \in Msg
  <2>1. rbuf \in Buffers
    BY <1>4 DEF QueueInv, TypeOK
  <2>2. QED
    BY <1>1, <2>1
<1>5. AtReader \in Seq(Msg)
  BY <1>4 DEF AtReader
<1>6. ASSUME rpc # "copy" PROVE Pipe = Says(ready_q, content)
  BY <1>2, <1>3, <1>6, ConcatEmptySeq DEF AtReader
<1>7. QED
  BY <1>2, <1>3, <1>4, <1>5, <1>6

(* A step that moves neither the list nor the reader, and writes to none of
   their buffers, leaves the messages under way alone.                      *)
LEMMA PipeSame ==
    ASSUME QueueInv, UNCHANGED <<ready_q, rbuf>>,
           rpc' = "copy" <=> rpc = "copy",
           \A b \in Queued \cup {rbuf} : content'[b] = content[b]
    PROVE  Pipe' = Pipe
<1>1. \A i \in 1 .. Len(ready_q) : content'[ready_q[i]] = content[ready_q[i]]
  BY DEF Queued
<1>2. Says(ready_q, content') = Says(ready_q, content)
  BY <1>1, SaysSame
<1>3. Says(ready_q, content)' = Says(ready_q, content)
  BY <1>2 DEF Says
<1>4. AtReader' = AtReader
  BY DEF AtReader
<1>5. Pipe = AtReader \o Says(ready_q, content)
  BY PipeParts
<1>6. Pipe' = AtReader' \o Says(ready_q, content)'
  BY DEF Pipe, AtReader, Says
<1>7. QED
  BY <1>3, <1>4, <1>5, <1>6

----------------------------------------------------------------------------
(* A sender fills a buffer that is nobody else's.                           *)
LEMMA FillHand ==
    ASSUME QueueInv, HandInv, NEW s \in Senders, NEW b \in Available, NEW m,
           Fill(s, b, m), m \in {Overflow, Message(s)}, UNCHANGED sent
    PROVE  /\ HandInv'
           /\ \A x \in Queued \cup {rbuf} : content'[x] = content[x]
<1>1. /\ sbuf' = [sbuf EXCEPT ![s] = b]
      /\ content' = [content EXCEPT ![b] = m]
      /\ spc' = [spc EXCEPT ![s] = "queue"]
  BY DEF Fill
<1>2. /\ sbuf \in [Senders -> Buffers \cup {NoBuffer}]
      /\ spc \in [Senders -> {"idle", "alloc", "special", "queue", "notify"}]
      /\ content \in [Buffers -> Msg]
  BY DEF QueueInv, TypeOK, Msg
<1>3. b \in Buffers
  BY DEF Available, QueueInv, TypeOK, Buffers
<1>4. \A x : x # b => content'[x] = content[x]
  BY <1>1, <1>2
<1>5. b \notin Queued \cup {rbuf}
  BY DEF QueueInv, BuffersAccounted, OnePlace
<1>6. ASSUME NEW r \in Senders, spc'[r] = "queue"
      PROVE  content'[sbuf'[r]] \in {Overflow, Message(r)'}
  <2>1. Message(r)' = Message(r)
    BY DEF Message
  <2>2. CASE r = s
    <3>1. sbuf'[r] = b /\ content'[b] = m
      BY <1>1, <1>2, <1>3, <2>2
    <3>2. QED
      BY <2>1, <2>2, <3>1
  <2>3. CASE r # s
    <3>1. spc[r] = "queue" /\ sbuf'[r] = sbuf[r]
      BY <1>1, <1>2, <1>6, <2>3
    <3>2. sbuf[r] # b
      BY DEF QueueInv, BuffersAccounted, OnePlace
    <3>3. content'[sbuf'[r]] = content[sbuf[r]]
      BY <1>4, <3>1, <3>2
    <3>4. QED
      BY <2>1, <3>1, <3>3 DEF HandInv
  <2>4. QED
    BY <2>2, <2>3
<1>7. Overflow' = Overflow
  BY DEF Overflow
<1>8. QED
  BY <1>4, <1>5, <1>6, <1>7 DEF HandInv

(* Steps that fill no buffer.                                               *)
LEMMA KeepHand ==
    ASSUME HandInv, UNCHANGED content,
           \A s \in Senders : spc'[s] = "queue" =>
              spc[s] = "queue" /\ sbuf'[s] = sbuf[s] /\ sent'[s] = sent[s]
    PROVE  HandInv'
<1>1. ASSUME NEW s \in Senders, spc'[s] = "queue"
      PROVE  content'[sbuf'[s]] \in {Overflow', Message(s)'}
  BY <1>1 DEF HandInv, Overflow, Message
<1>2. QED
  BY <1>1 DEF HandInv

----------------------------------------------------------------------------
(* A step of the channel is a step of the mailbox or none.                  *)
MailStep == [Mail!Next]_(Mail!mailvars)

(* Steps that the mailbox does not see.                                     *)
LEMMA Unseen ==
    ASSUME UNCHANGED <<Pipe, Deciding, sent, got, closed>>
    PROVE  MailStep
BY DEF MailStep, Mail!mailvars

(* _stp_ctl_send begins a message.                                          *)
LEMMA SendMail ==
    ASSUME QueueInv, HandInv, NEW s \in Senders, NEW t \in Types,
           stp_ctl_send(s, t)
    PROVE  MailStep /\ HandInv'
<1>1. /\ spc[s] = "idle" /\ ~ closed
      /\ sent' = [sent EXCEPT ![s] = @ + 1]
      /\ spc' = [spc EXCEPT ![s] = IF t \in Dynamic THEN "alloc" ELSE "special"]
      /\ UNCHANGED <<content, ready_q, sbuf, rpc, rbuf, closed, got>>
  BY DEF stp_ctl_send, readvars, histvars
<1>2. /\ spc \in [Senders -> {"idle", "alloc", "special", "queue", "notify"}]
      /\ sent \in [Senders -> Nat]
  BY DEF QueueInv, TypeOK
<1>3. HandInv'
  BY <1>1, <1>2, KeepHand
<1>4. Pipe' = Pipe
  BY <1>1, PipeSame
<1>5. s \notin Deciding /\ Deciding' = Deciding \cup {s}
  BY <1>1, <1>2 DEF Deciding
<1>6. Mail!Begin(s)
  BY <1>1, <1>4, <1>5 DEF Mail!Begin
<1>7. QED
  BY <1>3, <1>6 DEF MailStep, Mail!Next

(* Filling a free buffer is not seen.                                       *)
LEMMA FillMail ==
    ASSUME QueueInv, HandInv, NEW s \in Senders, NEW b \in Available, NEW m,
           Fill(s, b, m), m \in {Overflow, Message(s)},
           spc[s] \in {"alloc", "special"},
           UNCHANGED <<ready_q, sent, rpc, rbuf, closed, got>>
    PROVE  MailStep /\ HandInv'
<1>1. HandInv' /\ \A x \in Queued \cup {rbuf} : content'[x] = content[x]
  BY FillHand
<1>2. Pipe' = Pipe
  BY <1>1, PipeSame
<1>3. Deciding' = Deciding
  BY DEF Deciding, Fill, QueueInv, TypeOK
<1>4. QED
  BY <1>1, <1>2, <1>3, Unseen

(* A sender's steps, up to its entry in the list.                           *)
LEMMA SenderMail ==
    ASSUME QueueInv, HandInv, NEW s \in Senders, Send(s)
    PROVE  MailStep /\ HandInv'
<1>0. /\ spc \in [Senders -> {"idle", "alloc", "special", "queue", "notify"}]
      /\ sbuf \in [Senders -> Buffers \cup {NoBuffer}]
      /\ content \in [Buffers -> Msg] /\ ready_q \in Seq(Buffers)
      /\ type \in [Senders -> Special]
  BY DEF QueueInv, TypeOK, Msg
<1>1. ASSUME NEW b \in Pool, stp_mempool_alloc(s, b) PROVE MailStep /\ HandInv'
  <2>1. /\ b \in Available /\ Fill(s, b, Message(s)) /\ spc[s] = "alloc"
        /\ UNCHANGED <<ready_q, sent, rpc, rbuf, closed, got>>
    BY <1>1 DEF stp_mempool_alloc, Available, readvars, histvars
  <2>2. QED
    BY <2>1, FillMail
<1>2. CASE PoolEmpty(s)
  <2>1. /\ spc[s] = "alloc" /\ spc' = [spc EXCEPT ![s] = "special"]
        /\ UNCHANGED <<content, ready_q, sbuf, sent, rpc, rbuf, closed, got>>
    BY <1>2 DEF PoolEmpty, readvars, histvars
  <2>2. HandInv'
    BY <1>0, <2>1, KeepHand
  <2>3. Pipe' = Pipe
    BY <2>1, PipeSame
  <2>4. Deciding' = Deciding
    BY <1>0, <2>1 DEF Deciding
  <2>5. QED
    BY <2>1, <2>2, <2>3, <2>4, Unseen
<1>3. CASE TakeSpecial(s)
  <2> DEFINE m == IF type[s] \in Dynamic THEN Overflow ELSE Message(s)
  <2>1. /\ type[s] \in Available /\ Fill(s, type[s], m) /\ spc[s] = "special"
        /\ UNCHANGED <<ready_q, sent, rpc, rbuf, closed, got>>
    BY <1>0, <1>3 DEF TakeSpecial, Available, readvars, histvars
  <2>2. m \in {Overflow, Message(s)}
    OBVIOUS
  <2> HIDE DEF m
  <2>3. QED
    BY <2>1, <2>2, FillMail
<1>4. CASE SpecialTaken(s)
  <2>1. /\ spc[s] = "special" /\ spc' = [spc EXCEPT ![s] = "idle"]
        /\ UNCHANGED <<content, ready_q, sbuf, sent, rpc, rbuf, closed, got>>
    BY <1>4 DEF SpecialTaken, readvars
  <2>2. HandInv'
    BY <1>0, <2>1, KeepHand
  <2>3. Pipe' = Pipe
    BY <2>1, PipeSame
  <2>4. s \in Deciding /\ Deciding' = Deciding \ {s}
    BY <1>0, <2>1 DEF Deciding
  <2>5. Mail!Drop(s)
    BY <2>1, <2>3, <2>4 DEF Mail!Drop
  <2>6. QED
    BY <2>2, <2>5 DEF MailStep, Mail!Next
<1>5. CASE Enqueue(s)
  <2>1. /\ spc[s] = "queue" /\ ready_q' = Append(ready_q, sbuf[s])
        /\ spc' = [spc EXCEPT ![s] = IF type[s] \in OneShot THEN "notify" ELSE "idle"]
        /\ sbuf' = [sbuf EXCEPT ![s] = NoBuffer]
        /\ UNCHANGED <<content, sent, rpc, rbuf, closed, got>>
    BY <1>5 DEF Enqueue, readvars, histvars
  <2>2. HandInv'
    BY <1>0, <2>1, KeepHand
  <2>3. s \in Deciding /\ Deciding' = Deciding \ {s}
    BY <1>0, <2>1 DEF Deciding
  <2>4. sbuf[s] \in Buffers
    BY <1>0, <2>1 DEF QueueInv
  <2>5. Says(ready_q, content)' = Append(Says(ready_q, content), content[sbuf[s]])
    <3> DEFINE e == sbuf[s]
    <3>1. ready_q \in Seq(Buffers) /\ content \in [Buffers -> Msg] /\ e \in Buffers
      BY <1>0, <2>4
    <3> HIDE DEF e
    <3>2. Says(Append(ready_q, e), content) = Append(Says(ready_q, content), content[e])
      BY ONLY <3>1, SaysAppend
    <3>3. QED
      BY <2>1, <3>2 DEF Says, e
  <2>6. Pipe' = Append(Pipe, content[sbuf[s]])
    <3> DEFINE a == AtReader
               q == Says(ready_q, content)
               x == content[sbuf[s]]
    <3>1. Pipe = a \o q /\ a \in Seq(Msg) /\ q \in Seq(Msg)
      BY PipeParts
    <3>2. x \in Msg
      BY <1>0, <2>4
    <3>3. Pipe' = AtReader' \o Says(ready_q, content)'
      BY DEF Pipe, AtReader, Says
    <3>4. AtReader' = a
      BY <2>1 DEF AtReader
    <3> HIDE DEF a, q, x
    <3>5. a \o q \in Seq(Msg) /\ <<x>> \in Seq(Msg)
      BY <3>1, <3>2, ConcatProperties
    <3>6. Append(a \o q, x) = (a \o q) \o <<x>>
      BY <3>2, <3>5, AppendIsConcat
    <3>7. Append(q, x) = q \o <<x>>
      BY <3>1, <3>2, AppendIsConcat
    <3>8. (a \o q) \o <<x>> = a \o (q \o <<x>>)
      BY <3>1, <3>5, ConcatAssociative
    <3>9. Pipe' = a \o Append(q, x)
      BY <2>5, <3>3, <3>4 DEF q, x
    <3>10. QED
      BY <3>1, <3>6, <3>7, <3>8, <3>9 DEF x
  <2>7. content[sbuf[s]] \in {Mail!Notice, [from |-> s, number |-> sent[s]]}
    BY <2>1 DEF HandInv, Overflow, Message, Mail!Notice
  <2>8. Mail!Accept(s)
    BY <2>1, <2>3, <2>6, <2>7 DEF Mail!Accept
  <2>9. QED
    BY <2>2, <2>8 DEF MailStep, Mail!Next
<1>6. CASE stp_ctl_send_notify(s)
  <2>1. /\ spc[s] = "notify" /\ spc' = [spc EXCEPT ![s] = "idle"]
        /\ rpc' = (IF rpc = "asleep" THEN "read" ELSE rpc)
        /\ UNCHANGED <<content, ready_q, sbuf, sent, rbuf, closed, got>>
    BY <1>6 DEF stp_ctl_send_notify, histvars
  <2>2. HandInv'
    BY <1>0, <2>1, KeepHand
  <2>3. Pipe' = Pipe
    BY <2>1, PipeSame
  <2>4. Deciding' = Deciding
    BY <1>0, <2>1 DEF Deciding
  <2>5. QED
    BY <2>1, <2>2, <2>3, <2>4, Unseen
<1>7. QED
  BY <1>1, <1>2, <1>3, <1>4, <1>5, <1>6 DEF Send

(* _stp_ctl_read_cmd: taking a buffer off the list is not seen, copying it is
   the delivery.                                                            *)
LEMMA ReaderMail ==
    ASSUME QueueInv, HandInv, Read
    PROVE  MailStep /\ HandInv'
<1>0. /\ content \in [Buffers -> Msg] /\ ready_q \in Seq(Buffers)
      /\ UNCHANGED <<content, spc, sbuf, sent, closed>>
  BY DEF QueueInv, TypeOK, Msg, Read, ReadEmpty, Dequeue, CopyToUser, CopyFails,
         stp_ctl_free_buffer, sendvars
<1>1. HandInv' /\ Deciding' = Deciding
  BY <1>0, KeepHand DEF Deciding
<1>2. CASE ReadEmpty \/ stp_ctl_free_buffer
  <2>1. /\ rpc # "copy" /\ rpc' # "copy"
        /\ UNCHANGED <<ready_q, got>>
    BY <1>2 DEF ReadEmpty, stp_ctl_free_buffer, histvars
  <2>2. Pipe' = Pipe
    BY <1>0, <2>1 DEF Pipe
  <2>3. QED
    BY <1>0, <1>1, <2>1, <2>2, Unseen
<1>3. CASE Dequeue
  <2>1. /\ rpc = "read" /\ ready_q # <<>> /\ rbuf' = Head(ready_q)
        /\ ready_q' = Tail(ready_q) /\ rpc' = "copy" /\ UNCHANGED got
    BY <1>3 DEF Dequeue, histvars
  <2>2. Pipe = Says(ready_q, content)
    BY <2>1, PipeParts
  <2>3. Pipe' = <<content[Head(ready_q)]>> \o Says(Tail(ready_q), content)
    BY <1>0, <2>1 DEF Pipe, Says
  <2>4. <<content[Head(ready_q)]>> \o Says(Tail(ready_q), content)
          = Says(ready_q, content)
    <3>1. \A S, T : \A q \in Seq(S), c \in [S -> T] :
            q # <<>> => <<c[Head(q)]>> \o Says(Tail(q), c) = Says(q, c)
      BY SaysTail
    <3>2. \A q \in Seq(Buffers), c \in [Buffers -> Msg] :
            q # <<>> => <<c[Head(q)]>> \o Says(Tail(q), c) = Says(q, c)
      BY ONLY <3>1
    <3>3. QED
      BY ONLY <1>0, <2>1, <3>2
  <2>5. QED
    BY <1>0, <1>1, <2>1, <2>2, <2>3, <2>4, Unseen
<1>4. CASE CopyToUser \/ CopyFails
  <2>1. rpc = "copy" /\ rpc' # "copy" /\ UNCHANGED ready_q
    BY <1>4 DEF CopyToUser, CopyFails
  <2> DEFINE x == content[rbuf]
             q == Says(ready_q, content)
  <2>2. Pipe = <<x>> \o q /\ x \in Msg /\ q \in Seq(Msg)
    BY <2>1, PipeParts DEF AtReader
  <2>3. Pipe' = <<>> \o q
    BY <1>0, <2>1 DEF Pipe, Says
  <2> HIDE DEF x, q
  <2>4. Pipe' = q
    BY <2>2, <2>3, ConcatEmptySeq
  <2>5. Pipe # <<>> /\ Head(Pipe) = x /\ Tail(Pipe) = q
    BY <2>2, FirstOut
  <2>6. CASE CopyToUser
    <3>1. got' = IF x = Overflow THEN got ELSE [got EXCEPT ![x.from] = x.number]
      BY <2>6 DEF CopyToUser, x
    <3>2. Overflow = Mail!Notice
      BY DEF Overflow, Mail!Notice
    <3>3. Mail!Deliver
      BY <1>0, <1>1, <2>4, <2>5, <3>1, <3>2 DEF Mail!Deliver
    <3>4. QED
      BY <1>1, <3>3 DEF MailStep, Mail!Next
  <2>7. CASE CopyFails
    <3>1. UNCHANGED got
      BY <2>7 DEF CopyFails
    <3>2. Mail!Lose
      BY <1>0, <1>1, <2>4, <2>5, <3>1 DEF Mail!Lose
    <3>3. QED
      BY <1>1, <3>2 DEF MailStep, Mail!Next
  <2>8. QED
    BY <1>4, <2>6, <2>7
<1>5. QED
  BY <1>2, <1>3, <1>4 DEF Read

(* The timer is not seen.                                                   *)
LEMMA TimerMail ==
    ASSUME QueueInv, HandInv, TimerWake
    PROVE  MailStep /\ HandInv'
<1>1. /\ rpc = "asleep" /\ rpc' = "read"
      /\ UNCHANGED <<content, ready_q, spc, sbuf, sent, rbuf, closed, got>>
  BY DEF TimerWake, sendvars, histvars
<1>2. HandInv' /\ Deciding' = Deciding
  BY <1>1, KeepHand DEF Deciding
<1>3. Pipe' = Pipe
  BY <1>1, PipeSame
<1>4. QED
  BY <1>1, <1>2, <1>3, Unseen

(* Unregistering shuts the mailbox.                                         *)
LEMMA UnregisterMail ==
    ASSUME QueueInv, HandInv, stp_unregister_ctl_channel
    PROVE  MailStep /\ HandInv'
<1>1. /\ ~ closed /\ closed' = TRUE /\ ready_q' = <<>>
      /\ rpc \in {"read", "asleep"} /\ \A s \in Senders : spc[s] = "idle"
      /\ UNCHANGED <<content, spc, sbuf, sent, rpc, rbuf, got>>
  BY DEF stp_unregister_ctl_channel, sendvars, readvars, histvars
<1>2. HandInv' /\ Deciding' = Deciding /\ Deciding = {}
  BY <1>1, KeepHand DEF Deciding
<1>3. Pipe' = <<>>
  <2>1. Pipe' = <<>> \o Says(<<>>, content)
    BY <1>1 DEF Pipe, Says
  <2>2. Says(<<>>, content) = <<>>
    BY DEF Says
  <2>3. QED
    BY <2>1, <2>2
<1>4. Mail!Shut
  BY <1>1, <1>2, <1>3 DEF Mail!Shut
<1>5. QED
  BY <1>2, <1>4 DEF MailStep, Mail!Next

----------------------------------------------------------------------------
(* Every step of the channel is a step of the mailbox, or changes nothing the
   mailbox sees.                                                            *)
LEMMA NextMail ==
    ASSUME QueueInv, HandInv, [Next]_vars
    PROVE  MailStep /\ HandInv'
<1>1. CASE \E s \in Senders, t \in Types : stp_ctl_send(s, t)
  BY <1>1, SendMail
<1>2. CASE \E s \in Senders : Send(s)
  BY <1>2, SenderMail
<1>3. CASE Read
  BY <1>3, ReaderMail
<1>4. CASE TimerWake
  BY <1>4, TimerMail
<1>5. CASE stp_unregister_ctl_channel
  BY <1>5, UnregisterMail
<1>6. CASE UNCHANGED vars
  <2>1. UNCHANGED <<content, ready_q, spc, sbuf, sent, rpc, rbuf, closed, got>>
    BY <1>6 DEF vars, sendvars, readvars, histvars
  <2>2. HandInv' /\ Deciding' = Deciding
    BY <2>1, KeepHand DEF Deciding
  <2>3. Pipe' = Pipe
    BY <2>1, PipeSame
  <2>4. QED
    BY <2>1, <2>2, <2>3, Unseen
<1>7. QED
  BY <1>1, <1>2, <1>3, <1>4, <1>5, <1>6 DEF Next

(* A freshly registered channel is an empty mailbox.                        *)
LEMMA InitMail == Init => Mail!Init /\ HandInv
<1> SUFFICES ASSUME Init PROVE Mail!Init /\ HandInv
  OBVIOUS
<1>1. HandInv /\ Deciding = {}
  BY DEF Init, HandInv, Deciding
<1>2. Pipe = <<>>
  <2>1. Pipe = <<>> \o Says(<<>>, content)
    BY DEF Init, Pipe, Says
  <2>2. Says(<<>>, content) = <<>>
    BY DEF Says
  <2>3. QED
    BY <2>1, <2>2
<1>3. QED
  BY <1>1, <1>2 DEF Init, Mail!Init

(* The control channel implements the mailbox: whatever the pool, the special
   buffers and the interleaving of senders, reader and timer, a message under
   way is neither overwritten nor repeated nor overtaken.                   *)
THEOREM QueueImplementsMailbox == Spec => ImplementsMailbox
<1>1. Init => Mail!Init /\ HandInv
  BY InitMail
<1>2. QueueInv /\ HandInv /\ [Next]_vars
        => [Mail!Next]_(Mail!mailvars) /\ HandInv'
  BY NextMail DEF MailStep
<1>3. QED
  BY <1>1, <1>2, QueueInvariant, PTL
     DEF Spec, ImplementsMailbox, Mail!Spec

----------------------------------------------------------------------------
(* The order of the messages of each sender: p is under way, the senders in o
   have not decided, st and g are the last numbers sent and delivered.  What
   is under way is newer than what was delivered and older than what is still
   in a sender's hands, and each sender's part of p is increasing.          *)
Numbered(p, o, st, g, i) ==
    /\ p[i].from \in Senders
    /\ p[i].number > g[p[i].from]
    /\ p[i].number <= st[p[i].from]
    /\ p[i].from \in o => p[i].number < st[p[i].from]

MailOrder(p, o, st, g) ==
    /\ \A s \in Senders : g[s] <= st[s] /\ (s \in o => g[s] < st[s])
    /\ \A i \in 1 .. Len(p) : p[i] # Overflow => Numbered(p, o, st, g, i)
    /\ \A i, j \in 1 .. Len(p) :
         /\ i < j /\ p[i] # Overflow /\ p[j] # Overflow
         /\ p[i].from = p[j].from
         => p[i].number < p[j].number

(* A new message is newer than everything before it.                        *)
LEMMA OrderBegin ==
    ASSUME NEW p \in Seq(Msg), NEW o, NEW st \in [Senders -> Nat],
           NEW g \in [Senders -> Nat], NEW s \in Senders,
           MailOrder(p, o, st, g)
    PROVE  MailOrder(p, o \cup {s}, [st EXCEPT ![s] = @ + 1], g)
<1> DEFINE u == [st EXCEPT ![s] = @ + 1]
<1>1. \A r \in Senders : u[r] = IF r = s THEN st[r] + 1 ELSE st[r]
  OBVIOUS
<1> HIDE DEF u
<1>2. \A r \in Senders : g[r] <= u[r] /\ (r \in o \cup {s} => g[r] < u[r])
  BY <1>1 DEF MailOrder
<1>3. ASSUME NEW i \in 1 .. Len(p), p[i] # Overflow
      PROVE  Numbered(p, o \cup {s}, u, g, i)
  <2>1. p[i] \in Msg
    OBVIOUS
  <2>2. Numbered(p, o, st, g, i)
    BY <1>3 DEF MailOrder
  <2>3. QED
    BY <1>1, <2>1, <2>2 DEF Numbered, Msg
<1>4. QED
  BY <1>2, <1>3 DEF MailOrder, u

(* A message enters the list behind the older ones of its sender.           *)
LEMMA OrderAccept ==
    ASSUME NEW p \in Seq(Msg), NEW o, NEW st \in [Senders -> Nat],
           NEW g \in [Senders -> Nat], NEW s \in o, s \in Senders,
           NEW m \in {Overflow, [from |-> s, number |-> st[s]]},
           MailOrder(p, o, st, g)
    PROVE  MailOrder(Append(p, m), o \ {s}, st, g)
<1> DEFINE a == Append(p, m)
<1>0. m \in Msg
  BY DEF Overflow, Msg
<1>1. /\ a \in Seq(Msg) /\ Len(a) = Len(p) + 1 /\ Len(p) \in Nat
      /\ \A i \in 1 .. Len(p) : a[i] = p[i]
      /\ a[Len(p) + 1] = m
  BY <1>0, AppendProperties
<1> HIDE DEF a
<1>2. ASSUME NEW i \in 1 .. Len(a), a[i] # Overflow
      PROVE  Numbered(a, o \ {s}, st, g, i)
  <2>1. CASE i \in 1 .. Len(p)
    <3>1. Numbered(p, o, st, g, i)
      BY <1>1, <1>2, <2>1 DEF MailOrder
    <3>2. QED
      BY <1>1, <2>1, <3>1 DEF Numbered
  <2>2. CASE i = Len(p) + 1
    <3>1. a[i] = [from |-> s, number |-> st[s]]
      BY <1>1, <1>2, <2>2
    <3>2. g[s] < st[s]
      BY DEF MailOrder
    <3>3. QED
      BY <3>1, <3>2 DEF Numbered
  <2>3. QED
    BY <1>1, <2>1, <2>2
<1>3. ASSUME NEW i \in 1 .. Len(a), NEW j \in 1 .. Len(a), i < j,
             a[i] # Overflow, a[j] # Overflow, a[i].from = a[j].from
      PROVE  a[i].number < a[j].number
  <2>0. i \in 1 .. Len(p) /\ a[i] = p[i]
    BY <1>1, <1>3
  <2>1. CASE j \in 1 .. Len(p)
    <3>1. a[j] = p[j]
      BY <1>1, <2>1
    <3>2. QED
      BY <1>3, <2>0, <2>1, <3>1 DEF MailOrder
  <2>2. CASE j = Len(p) + 1
    <3>1. a[j] = [from |-> s, number |-> st[s]]
      BY <1>1, <1>3, <2>2
    <3>2. Numbered(p, o, st, g, i) /\ p[i].from = s
      BY <1>3, <2>0, <3>1 DEF MailOrder
    <3>3. QED
      BY <2>0, <3>1, <3>2 DEF Numbered
  <2>3. QED
    BY <1>1, <2>1, <2>2
<1>4. \A r \in Senders : g[r] <= st[r] /\ (r \in o \ {s} => g[r] < st[r])
  BY DEF MailOrder
<1>5. QED
  BY <1>2, <1>3, <1>4 DEF MailOrder, a

(* Taking the first message off, delivered or lost, leaves newer ones.      *)
LEMMA OrderTail ==
    ASSUME NEW p \in Seq(Msg), NEW o, NEW st \in [Senders -> Nat],
           NEW g \in [Senders -> Nat], p # <<>>, MailOrder(p, o, st, g),
           NEW h \in {g, [g EXCEPT ![Head(p).from] = Head(p).number]},
           h = g \/ Head(p) # Overflow
    PROVE  /\ MailOrder(Tail(p), o, st, h)
           /\ \A s \in Senders : h[s] >= g[s]
<1> DEFINE t == Tail(p)
           m == Head(p)
<1>1. /\ t \in Seq(Msg) /\ Len(t) = Len(p) - 1 /\ Len(p) \in Nat \ {0}
      /\ \A i \in 1 .. Len(t) : t[i] = p[i + 1] /\ i + 1 \in 1 .. Len(p)
      /\ m = p[1] /\ m \in Msg /\ 1 \in 1 .. Len(p)
  BY HeadTailProperties, EmptySeq
<1>2. h \in {g, [g EXCEPT ![m.from] = m.number]} /\ (h = g \/ m # Overflow)
  OBVIOUS
<1> HIDE DEF t, m
<1>3. CASE h = g
  <2>1. ASSUME NEW i \in 1 .. Len(t), t[i] # Overflow
        PROVE  Numbered(t, o, st, h, i)
    <3>1. Numbered(p, o, st, g, i + 1)
      BY <1>1, <2>1 DEF MailOrder
    <3>2. QED
      BY <1>1, <1>3, <3>1 DEF Numbered
  <2>2. ASSUME NEW i \in 1 .. Len(t), NEW j \in 1 .. Len(t), i < j,
               t[i] # Overflow, t[j] # Overflow, t[i].from = t[j].from
        PROVE  t[i].number < t[j].number
    <3>1. i + 1 < j + 1 /\ t[i] = p[i + 1] /\ t[j] = p[j + 1]
      BY <1>1, <2>2
    <3>2. i + 1 \in 1 .. Len(p) /\ j + 1 \in 1 .. Len(p)
      BY <1>1
    <3>3. QED
      BY <2>2, <3>1, <3>2 DEF MailOrder
  <2>3. \A s \in Senders : h[s] >= g[s]
    BY <1>3
  <2>4. \A s \in Senders : h[s] <= st[s] /\ (s \in o => h[s] < st[s])
    BY <1>3 DEF MailOrder
  <2>5. QED
    BY <2>1, <2>2, <2>3, <2>4 DEF MailOrder, t
<1>4. CASE m # Overflow /\ h = [g EXCEPT ![m.from] = m.number]
  <2>0. Numbered(p, o, st, g, 1) /\ m.number \in Nat
    BY <1>1, <1>4 DEF MailOrder, Msg
  <2>1. /\ m.from \in Senders /\ m.number > g[m.from]
        /\ m.number <= st[m.from]
        /\ m.from \in o => m.number < st[m.from]
    BY <1>1, <2>0 DEF Numbered
  <2>2. \A s \in Senders : h[s] = IF s = m.from THEN m.number ELSE g[s]
    BY <1>4
  <2>3. \A s \in Senders : h[s] >= g[s]
    BY <2>0, <2>1, <2>2
  <2>4. \A s \in Senders : h[s] <= st[s] /\ (s \in o => h[s] < st[s])
    BY <2>1, <2>2 DEF MailOrder
  <2>5. ASSUME NEW i \in 1 .. Len(t), t[i] # Overflow
        PROVE  Numbered(t, o, st, h, i)
    <3>1. Numbered(p, o, st, g, i + 1)
      BY <1>1, <2>5 DEF MailOrder
    <3>2. /\ t[i].from \in Senders /\ t[i].number > g[t[i].from]
          /\ t[i].number <= st[t[i].from]
          /\ t[i].from \in o => t[i].number < st[t[i].from]
      BY <1>1, <3>1 DEF Numbered
    <3>3. 1 < i + 1 /\ i + 1 \in 1 .. Len(p) /\ t[i] = p[i + 1]
      BY <1>1
    <3>4. t[i].from = m.from => m.number < t[i].number
      <4>1. \A k, j \in 1 .. Len(p) :
              /\ k < j /\ p[k] # Overflow /\ p[j] # Overflow
              /\ p[k].from = p[j].from
              => p[k].number < p[j].number
        BY DEF MailOrder
      <4>2. p[1] = m /\ 1 \in 1 .. Len(p) /\ p[i + 1] # Overflow
        BY <1>1, <2>5, <3>3
      <4>3. p[1].from = p[i + 1].from => p[1].number < p[i + 1].number
        BY <1>4, <3>3, <4>1, <4>2
      <4>4. QED
        BY <3>3, <4>2, <4>3
    <3>5. t[i].number > h[t[i].from]
      BY <2>2, <3>2, <3>4
    <3>6. QED
      BY <3>2, <3>5 DEF Numbered
  <2>6. ASSUME NEW i \in 1 .. Len(t), NEW j \in 1 .. Len(t), i < j,
               t[i] # Overflow, t[j] # Overflow, t[i].from = t[j].from
        PROVE  t[i].number < t[j].number
    <3>1. i + 1 < j + 1 /\ t[i] = p[i + 1] /\ t[j] = p[j + 1]
      BY <1>1, <2>6
    <3>2. i + 1 \in 1 .. Len(p) /\ j + 1 \in 1 .. Len(p)
      BY <1>1
    <3>3. QED
      BY <2>6, <3>1, <3>2 DEF MailOrder
  <2>7. QED
    BY <2>3, <2>4, <2>5, <2>6 DEF MailOrder, t
<1>5. QED
  BY <1>2, <1>3, <1>4

(* Every step of the mailbox keeps the order and delivers no older message. *)
LEMMA NextOrder ==
    ASSUME QueueInv, MailOrder(Pipe, Deciding, sent, got), MailStep
    PROVE  /\ MailOrder(Pipe', Deciding', sent', got')
           /\ \A s \in Senders : got'[s] >= got[s]
<1>1. /\ sent \in [Senders -> Nat] /\ got \in [Senders -> Nat]
      /\ Pipe \in Seq(Msg) /\ Deciding \subseteq Senders
  <2>1. Pipe \in Seq(Msg)
    BY PipeParts, ConcatProperties
  <2>2. QED
    BY <2>1 DEF QueueInv, TypeOK, Deciding
<1>2. \A s \in Senders : got[s] >= got[s]
  BY <1>1
<1> DEFINE p == Pipe
           o == Deciding
<1>0. /\ p \in Seq(Msg) /\ o \subseteq Senders /\ MailOrder(p, o, sent, got)
  BY <1>1
<1>a. p' = Pipe' /\ o' = Deciding'
  OBVIOUS
<1>3. ASSUME NEW s \in Senders, Mail!Begin(s)
      PROVE  MailOrder(p', o', sent', got') /\ got' = got
  <2>1. /\ o' = o \cup {s} /\ sent' = [sent EXCEPT ![s] = @ + 1]
        /\ p' = p /\ got' = got
    BY <1>3 DEF Mail!Begin
  <2> HIDE DEF p, o
  <2>2. MailOrder(p, o \cup {s}, [sent EXCEPT ![s] = @ + 1], got)
    BY <1>0, <1>1, OrderBegin
  <2>3. QED
    BY <2>1, <2>2
<1>4. ASSUME NEW s \in Senders, Mail!Accept(s)
      PROVE  MailOrder(p', o', sent', got') /\ got' = got
  <2>1. PICK m \in {Overflow, [from |-> s, number |-> sent[s]]} :
            p' = Append(p, m)
    BY <1>4 DEF Mail!Accept, Mail!Notice, Overflow
  <2>2. s \in o /\ o' = o \ {s} /\ sent' = sent /\ got' = got
    BY <1>4 DEF Mail!Accept
  <2> HIDE DEF p, o
  <2>3. MailOrder(Append(p, m), o \ {s}, sent, got)
    BY <1>0, <1>1, <2>2, OrderAccept
  <2>4. QED
    BY <2>1, <2>2, <2>3
<1>5. ASSUME NEW s \in Senders, Mail!Drop(s)
      PROVE  MailOrder(p', o', sent', got') /\ got' = got
  <2>1. o' = o \ {s} /\ p' = p /\ sent' = sent /\ got' = got
    BY <1>5 DEF Mail!Drop
  <2> HIDE DEF p, o
  <2>2. MailOrder(p, o \ {s}, sent, got)
    BY <1>0 DEF MailOrder, Numbered
  <2>3. QED
    BY <2>1, <2>2
<1>6. CASE Mail!Deliver \/ Mail!Lose
  <2>1. /\ p # <<>> /\ p' = Tail(p) /\ o' = o /\ sent' = sent
        /\ got' \in {got, [got EXCEPT ![Head(p).from] = Head(p).number]}
        /\ got' = got \/ Head(p) # Overflow
    BY <1>6 DEF Mail!Deliver, Mail!Lose, Mail!Notice, Overflow
  <2> HIDE DEF p, o
  <2>2. /\ MailOrder(Tail(p), o, sent, got')
        /\ \A s \in Senders : got'[s] >= got[s]
    BY <1>0, <1>1, <2>1, OrderTail
  <2>3. QED
    BY <2>1, <2>2, <1>a
<1>7. CASE Mail!Shut
  <2>1. p' = <<>> /\ o' = o /\ sent' = sent /\ got' = got
    BY <1>7 DEF Mail!Shut
  <2> HIDE DEF p, o
  <2>2. Len(<<>>) = 0 /\ 1 .. 0 = {}
    OBVIOUS
  <2>3. MailOrder(<<>>, o, sent, got)
    BY <1>0, <2>2 DEF MailOrder
  <2>4. QED
    BY <2>1, <2>3, <1>2, <1>a
<1>8. CASE UNCHANGED Mail!mailvars
  <2>1. p' = p /\ o' = o /\ sent' = sent /\ got' = got
    BY <1>8 DEF Mail!mailvars
  <2> HIDE DEF p, o
  <2>2. QED
    BY <1>0, <1>2, <1>a, <2>1
<1> HIDE DEF p, o
<1>9. QED
  BY <1>2, <1>3, <1>4, <1>5, <1>6, <1>7, <1>8, <1>a DEF MailStep, Mail!Next

(* The list is FIFO for every number of senders and buffers: what is copied
   to user space of one sender is newer than what was copied before.        *)
THEOREM QueueInOrder == Spec => InOrder
<1> DEFINE Order == MailOrder(Pipe, Deciding, sent, got)
           Newer == \A s \in Senders : got'[s] >= got[s]
<1>1. Init => HandInv
  BY InitMail
<1>2. Init => Order
  <2> SUFFICES ASSUME Init PROVE Order
    OBVIOUS
  <2>1. Mail!Init
    BY InitMail
  <2>2. /\ Pipe = <<>> /\ Deciding = {}
        /\ sent = [s \in Senders |-> 0] /\ got = [s \in Senders |-> 0]
    BY <2>1 DEF Mail!Init
  <2>3. Len(<<>>) = 0 /\ 1 .. 0 = {}
    OBVIOUS
  <2>4. MailOrder(<<>>, {}, [s \in Senders |-> 0], [s \in Senders |-> 0])
    BY <2>3 DEF MailOrder
  <2>5. QED
    BY <2>2, <2>4
<1>3. QueueInv /\ HandInv /\ Order /\ [Next]_vars => HandInv' /\ Order' /\ Newer
  <2> SUFFICES ASSUME QueueInv, HandInv, Order, [Next]_vars
               PROVE  HandInv' /\ Order' /\ Newer
    OBVIOUS
  <2>1. MailStep /\ HandInv'
    BY NextMail
  <2>2. MailOrder(Pipe', Deciding', sent', got') /\ Newer
    BY <2>1, NextOrder
  <2>3. QED
    BY <2>1, <2>2
<1>4. Newer => [Newer]_got
  OBVIOUS
<1> HIDE DEF Order
<1>5. QED
  BY <1>1, <1>2, <1>3, QueueInvariant, PTL DEF Spec, InOrder
=============================================================================
