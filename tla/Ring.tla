-------------------------------- MODULE Ring --------------------------------
(***************************************************************************)
(* One direction of the shared-memory link: a ring of bytes with one       *)
(* producer and one consumer in different processes (crates/tpf3mp-ipc     *)
(* ring.rs).                                                               *)
(*                                                                         *)
(* `head` and `tail` are free-running counters that wrap at `Wrap` (2^32), *)
(* not at the capacity; a counter's place in the buffer is its value       *)
(* modulo the capacity.  A frame is a length prefix and the payload.  The  *)
(* copies are not atomic: every byte is a step of its own, and the other   *)
(* side runs in between.  The stores and loads of the counters are release *)
(* and acquire, so what was written before a store is seen after a load of *)
(* it, and interleaving the steps loses no behaviour.                      *)
(*                                                                         *)
(* A byte is written down as the number of its frame and its place there,  *)
(* which tells every torn or stale byte apart.                             *)
(***************************************************************************)
EXTENDS Integers, Sequences

CONSTANTS
    Message,     \* what is sent
    Size,        \* the payload bytes of each
    Capacity,    \* bytes in the ring
    Wrap,        \* where the counters wrap
    Prefix,      \* LENGTH_PREFIX: bytes of the length before a payload
    MaxMessage,  \* the largest payload the link takes
    None,
    MaxSent      \* bound on the messages sent

\* What Link::create and Link::open check, and a counter's width: the ring
\* indexes wrapped counters, so its capacity must divide where they wrap, and
\* full and empty differ only while the counters can tell them apart.  None is
\* neither a frame's number nor a byte.
ASSUME RingAssumption ==
    /\ Capacity \in Nat \ {0} /\ Wrap \in Nat /\ Prefix \in Nat \ {0}
    /\ Wrap % Capacity = 0 /\ 2 * Capacity <= Wrap
    /\ MaxMessage \in Nat /\ MaxMessage + Prefix <= Capacity
    /\ Size \in [Message -> Nat]
    /\ None \notin Nat /\ None \notin Nat \X Nat /\ MaxSent \in Nat

VARIABLES
    head,  \* the consumer's counter
    tail,  \* the producer's counter
    data,  \* the bytes of the ring
    push,  \* the push under way: its message and the bytes written so far
    pop,   \* the pop under way: what was available and the bytes read so far
    torn,  \* whether the consumer ever read what is no frame (PopError::Corrupt)
    sent, got  \* what was pushed and popped, as in Channel

vars == <<head, tail, data, push, pop, torn, sent, got>>

Used == (tail - head) % Wrap
Place(counter) == (counter % Wrap) % Capacity
Need(m) == Prefix + Size[m]

Init ==
    /\ head = 0 /\ tail = 0
    /\ data = [i \in 0..(Capacity - 1) |-> None]
    /\ push = None /\ pop = None /\ torn = FALSE
    /\ sent = <<>> /\ got = <<>>
-----------------------------------------------------------------------------
\* (mutant) The frame need only fit the ring, not what is free of it.
StartPushAnyway(m) ==
    /\ push = None /\ Len(sent) < MaxSent
    /\ Size[m] <= MaxMessage
    /\ push' = [msg |-> m, written |-> 0]
    /\ UNCHANGED <<head, tail, data, pop, torn, sent, got>>

\* Ring::push up to its first copy: the producer reads its own counter and
\* the consumer's, and goes on only if the frame fits what is free.
StartPush(m) ==
    /\ push = None /\ Len(sent) < MaxSent
    /\ Size[m] <= MaxMessage
    /\ Used <= Capacity
    /\ Need(m) <= Capacity - Used
    /\ push' = [msg |-> m, written |-> 0]
    /\ UNCHANGED <<head, tail, data, pop, torn, sent, got>>

\* write_wrapping: one byte of the frame.
WriteByte ==
    /\ push # None /\ push.written < Need(push.msg)
    /\ data' = [data EXCEPT ![Place(tail + push.written)] = <<Len(sent) + 1, push.written>>]
    /\ push' = [push EXCEPT !.written = @ + 1]
    /\ UNCHANGED <<head, tail, pop, torn, sent, got>>

\* (mutant) The tail is moved once the length is written.
PublishEarly ==
    /\ push # None /\ push.written = Prefix
    /\ tail' = (tail + Need(push.msg)) % Wrap
    /\ sent' = Append(sent, push.msg)
    /\ push' = None
    /\ UNCHANGED <<head, data, pop, torn, got>>

\* (mutant) The counter is wider than what it wraps at.
PublishUnwrapped ==
    /\ push # None /\ push.written = Need(push.msg)
    /\ tail' = tail + push.written
    /\ sent' = Append(sent, push.msg)
    /\ push' = None
    /\ UNCHANGED <<head, data, pop, torn, got>>

\* The release store of `tail`: the consumer may see the frame.
Publish ==
    /\ push # None /\ push.written = Need(push.msg)
    /\ tail' = (tail + push.written) % Wrap
    /\ sent' = Append(sent, push.msg)
    /\ push' = None
    /\ UNCHANGED <<head, data, pop, torn, got>>
-----------------------------------------------------------------------------
\* The frame the bytes read so far belong to, None when they are no frame's.
FrameOf(bytes) ==
    LET frame == bytes[1] IN
    IF frame # None /\ frame[1] <= Len(sent) /\ \A i \in DOMAIN bytes : bytes[i] = <<frame[1], i - 1>>
    THEN frame[1] ELSE None

\* Ring::pop_into: the consumer reads both counters.
StartPop ==
    /\ pop = None /\ Used # 0
    /\ IF Used >= Prefix /\ Used <= Capacity
       THEN pop' = [available |-> Used, bytes |-> <<>>] /\ UNCHANGED torn
       ELSE torn' = TRUE /\ UNCHANGED pop
    /\ UNCHANGED <<head, tail, data, push, sent, got>>

\* How much of the frame the consumer knows it must read.
Wanted(bytes) ==
    IF Len(bytes) < Prefix THEN Prefix
    ELSE IF FrameOf(bytes) = None THEN Len(bytes) ELSE Need(sent[FrameOf(bytes)])

\* read_wrapping: one byte of the length, or of the payload after it.
ReadByte ==
    /\ Len(pop.bytes) < Wanted(pop.bytes)
    /\ pop' = [pop EXCEPT !.bytes = Append(@, data[Place(head + Len(@))])]
    /\ UNCHANGED <<head, tail, data, push, torn, sent, got>>
ReadLength == pop # None /\ Len(pop.bytes) < Prefix /\ ReadByte
ReadPayload == pop # None /\ Len(pop.bytes) >= Prefix /\ ReadByte

\* The caller's buffer is too small for this length: the message stays.
PopTooSmall ==
    /\ pop # None /\ Len(pop.bytes) = Prefix /\ Wanted(pop.bytes) > Prefix
    /\ pop' = None
    /\ UNCHANGED <<head, tail, data, push, torn, sent, got>>

\* The bytes read are a whole frame of what was available.
Whole == FrameOf(pop.bytes) # None /\ Wanted(pop.bytes) <= pop.available

\* (mutant) The head is left where it was.
FinishPopStays ==
    /\ pop # None /\ Len(pop.bytes) >= Prefix /\ Whole
    /\ Len(pop.bytes) = Wanted(pop.bytes)
    /\ got' = Append(got, sent[FrameOf(pop.bytes)])
    /\ pop' = None
    /\ UNCHANGED <<head, torn, tail, data, push, sent>>

\* The end of a pop: the release store of `head`, by which the producer may
\* reuse the bytes; or Corrupt, for a length or a payload that is no frame's
\* or not all there.
FinishPop ==
    /\ pop # None /\ Len(pop.bytes) >= Prefix
    /\ Whole => Len(pop.bytes) = Wanted(pop.bytes)
    /\ IF Whole
       THEN /\ head' = (head + Len(pop.bytes)) % Wrap
            /\ got' = Append(got, sent[FrameOf(pop.bytes)])
            /\ UNCHANGED torn
       ELSE torn' = TRUE /\ UNCHANGED <<head, got>>
    /\ pop' = None
    /\ UNCHANGED <<tail, data, push, sent>>

Producer == WriteByte \/ Publish \/ \E m \in Message : StartPush(m)
Consumer == StartPop \/ ReadLength \/ ReadPayload \/ FinishPop

Next == Producer \/ Consumer \/ PopTooSmall

Spec == Init /\ [][Next]_vars

\* The receiver polls its ring (Session::poll_step before each step,
\* Bridge::read_hook in every round of its loop), and a pop runs to its end;
\* both ends take messages of any size the link does, so a buffer is too small
\* only for a while.
FairSpec == Spec /\ WF_vars(StartPop) /\ WF_vars(ReadLength) /\ SF_vars(ReadPayload)
                 /\ WF_vars(FinishPop) /\ WF_vars(WriteByte) /\ WF_vars(Publish)
-----------------------------------------------------------------------------
TypeOK ==
    /\ head \in 0..(Wrap - 1) /\ tail \in 0..(Wrap - 1)
    /\ data \in [0..(Capacity - 1) -> {None} \cup ((1..MaxSent) \X (0..(Capacity - 1)))]
    /\ push \in {None} \cup [msg : Message, written : 0..Capacity]
    /\ (pop = None \/ (pop.available \in 0..Capacity /\ Len(pop.bytes) <= Capacity))
    /\ torn \in BOOLEAN
    /\ sent \in Seq(Message) /\ got \in Seq(Message)

\* The consumer never meets a frame that is torn, overwritten or not all
\* there, however the counters wrap and whatever the producer is writing
\* meanwhile: pop_into never answers Corrupt (ring.rs:170).
NeverTorn == ~torn

\* The bytes a push writes are never among those the consumer may read, nor
\* among those a pop under way still reads (the safety argument of
\* Ring::push, ring.rs:119).
WritesOnlyFreeBytes ==
    push # None =>
        \A i \in 0..(Need(push.msg) - 1), j \in 0..(Used - 1) :
            Place(tail + i) # Place(head + j)

\* The ring is a channel: what is popped is what was pushed, whole, once and
\* in order, and everything pushed is popped in the end.
Chan == INSTANCE Channel
IsChannel == Chan!FairSpec
=============================================================================
