------------------------------- MODULE Mailbox ------------------------------
(* What the control channel promises its senders, whatever its buffers: a
   message is delivered at most once, unaltered and in the order of the list;
   it may be replaced by an overflow notice or dropped when it is sent, and
   lost at the reading end, but nothing happens to it in between.           *)
EXTENDS Naturals, Sequences

CONSTANT Senders

VARIABLES
    pipe,       \* the messages under way
    open,       \* senders with a message whose fate is not decided
    sent,       \* number of the last message of each sender
    got,        \* number of the last message of each sender delivered
    shut        \* the channel is gone

mailvars == <<pipe, open, sent, got, shut>>

Notice == [from |-> "overflow", number |-> 0]

Init ==
    /\ pipe = <<>> /\ open = {} /\ shut = FALSE
    /\ sent = [s \in Senders |-> 0]
    /\ got = [s \in Senders |-> 0]

Begin(s) ==
    /\ ~ shut /\ s \notin open
    /\ open' = open \cup {s}
    /\ sent' = [sent EXCEPT ![s] = @ + 1]
    /\ UNCHANGED <<pipe, got, shut>>

Accept(s) ==
    /\ s \in open
    /\ open' = open \ {s}
    /\ \E m \in {Notice, [from |-> s, number |-> sent[s]]} :
         pipe' = Append(pipe, m)
    /\ UNCHANGED <<sent, got, shut>>

Drop(s) ==
    /\ s \in open
    /\ open' = open \ {s}
    /\ UNCHANGED <<pipe, sent, got, shut>>

Deliver ==
    /\ pipe # <<>>
    /\ pipe' = Tail(pipe)
    /\ got' = IF Head(pipe) = Notice THEN got
              ELSE [got EXCEPT ![Head(pipe).from] = Head(pipe).number]
    /\ UNCHANGED <<open, sent, shut>>

Lose ==
    /\ pipe # <<>>
    /\ pipe' = Tail(pipe)
    /\ UNCHANGED <<open, sent, got, shut>>

Shut ==
    /\ ~ shut /\ open = {}
    /\ shut' = TRUE
    /\ pipe' = <<>>
    /\ UNCHANGED <<open, sent, got>>

Next ==
    \/ \E s \in Senders : Begin(s) \/ Accept(s) \/ Drop(s)
    \/ Deliver \/ Lose \/ Shut

Spec == Init /\ [][Next]_mailvars
=============================================================================
