------------------------------ MODULE DataPath ------------------------------
(***************************************************************************)
(* Application data from one session to its peer (session.cpp), with       *)
(* ordered_delivery on, over UDP: send() parks frames until a pair is      *)
(* nominated, send_on_strand numbers them, and the peer's                  *)
(* deliver_in_order puts them back in order.                               *)
(*                                                                         *)
(* Frames are numbered 1, 2, ... as the application submits them.  The     *)
(* network loses, reorders and repeats datagrams.  A peer that is not      *)
(* Connected ignores data: that is a loss.  A frame is also lost, its      *)
(* number used up, when no carrier reaches the endpoint.                   *)
(***************************************************************************)
EXTENDS Integers, Sequences, FiniteSets

CONSTANTS MaxFrames,     \* bound: frames the application submits
          MaxOutages,    \* bound: how often the session leaves Connected
          MaxCopies,     \* bound: repeated deliveries
          PendingMax,    \* kPendingAppDataMaxFrames
          Window,        \* kReorderWindow
          Modulus        \* sequence numbers, 2^32 in the code

ASSUME DataAssumption ==
    /\ MaxFrames \in Nat /\ MaxOutages \in Nat /\ MaxCopies \in Nat
    /\ PendingMax \in Nat \ {0}
    /\ Window \in Nat \ {0}
    /\ Modulus \in Nat \ {0}

VARIABLES submitted,   \* how many frames the application has submitted
          connected,   \* the sender's state_ = Connected
          outages,     \* how often it has left Connected
          pending,     \* pending_app_data_
          send_seq,    \* send_data_seq_
          net,         \* datagrams on their way
          copies,      \* how often a datagram arrived and stayed in net
          recv_seq,    \* recv_data_seq_
          buf,         \* recv_reorder_buf_, as its set of entries
          delivered,   \* what on_data was called with
          overflowed   \* history: the reorder buffer was full when one more
                       \* frame came out of order

sender == <<submitted, connected, outages, pending, send_seq>>
receiver == <<recv_seq, buf, delivered, overflowed>>
vars == <<sender, net, copies, receiver>>

Seqs == 0..(Modulus - 1)
Frames == 1..MaxFrames
Datagram == [seq : Seqs, frame : Frames]

-----------------------------------------------------------------------------
(* The sender. *)

\* send_on_strand for the frames of fs, in order; those in `kept` reach a
\* carrier and enter the network.
send_on_strand(fs, kept) ==
    /\ send_seq' = (send_seq + Len(fs)) % Modulus
    /\ net' = net \cup {[seq |-> (send_seq + i - 1) % Modulus,
                         frame |-> fs[i]] : i \in {j \in DOMAIN fs :
                                                     fs[j] \in kept}}

Kept(fs) == SUBSET {fs[i] : i \in DOMAIN fs}

\* Faulty variant of Park: the queue has no limit.
ParkAll(q, f) == Append(q, f)

\* The queue after f is parked: the oldest frame makes room.
Park(q, f) == Append(IF Len(q) >= PendingMax THEN Tail(q) ELSE q, f)

\* The task that send() posts.
send ==
    /\ submitted < MaxFrames
    /\ submitted' = submitted + 1
    /\ IF connected
       THEN /\ \E kept \in Kept(<<submitted'>>) :
                   send_on_strand(<<submitted'>>, kept)
            /\ UNCHANGED pending
       ELSE /\ pending' = Park(pending, submitted')
            /\ UNCHANGED <<send_seq, net>>
    /\ UNCHANGED <<connected, outages, copies, receiver>>

\* Faulty variant of on_nominated: the parked frames stay parked.
NominatedUnflushed ==
    /\ ~connected
    /\ connected' = TRUE
    /\ UNCHANGED <<submitted, outages, pending, send_seq, net, copies, receiver>>

\* on_nominated, which ends with flush_pending_app_data.
on_nominated ==
    /\ ~connected
    /\ connected' = TRUE
    /\ pending' = <<>>
    /\ \E kept \in Kept(pending) : send_on_strand(pending, kept)
    /\ UNCHANGED <<submitted, outages, copies, receiver>>

\* Consent loss or restart(): numbering and queues are left alone.
LeaveConnected ==
    /\ connected /\ outages < MaxOutages
    /\ connected' = FALSE
    /\ outages' = outages + 1
    /\ UNCHANGED <<submitted, pending, send_seq, net, copies, receiver>>

-----------------------------------------------------------------------------
(* The receiver. *)

Keys == {m.seq : m \in buf}
At(k) == CHOOSE m \in buf : m.seq = k
Smallest(S) == CHOOSE k \in S : \A j \in S : k <= j

\* How many buffered frames follow number k without a gap.
Ready(k) == CHOOSE n \in 0..Cardinality(buf) :
               /\ \A i \in 1..n : (k + i) % Modulus \in Keys
               /\ (k + n + 1) % Modulus \notin Keys

\* Faulty variant of Drain: the frame that closes the gap is all there is.
DrainNothing(m) ==
    /\ delivered' = Append(delivered, m.frame)
    /\ recv_seq' = (m.seq + 1) % Modulus
    /\ UNCHANGED <<buf, overflowed>>

\* m is the expected frame: it and the run of frames after it go up.
Drain(m) ==
    LET n == Ready(m.seq)
        after == [i \in 1..n |-> At((m.seq + i) % Modulus)]
    IN /\ delivered' = delivered \o <<m.frame>>
                                 \o [i \in 1..n |-> after[i].frame]
       /\ buf' = buf \ {after[i] : i \in 1..n}
       /\ recv_seq' = (m.seq + n + 1) % Modulus
       /\ UNCHANGED overflowed

\* Faulty variant of deliver_in_order: an old number counts as a new one.
DeliverRepeats(m) ==
    \/ m.seq <= recv_seq /\ Drain(m)
    \/ /\ m.seq > recv_seq
       /\ buf' = {e \in buf : e.seq # m.seq} \cup {m}
       /\ UNCHANGED <<recv_seq, delivered, overflowed>>

Full == Cardinality(buf) >= Window

\* A full buffer makes its first number the one that is expected, and keeps
\* that frame.
deliver_in_order(m) ==
    \/ m.seq < recv_seq /\ UNCHANGED receiver
    \/ m.seq = recv_seq /\ Drain(m)
    \/ /\ m.seq > recv_seq
       /\ recv_seq' = IF Full THEN Smallest(Keys) ELSE recv_seq
       /\ overflowed' = (overflowed \/ Full)
       /\ buf' = {e \in buf : e.seq # m.seq} \cup {m}
       /\ UNCHANGED delivered

\* A datagram arrives; the network may deliver it again.
Arrive(m) ==
    /\ deliver_in_order(m)
    /\ \/ net' = net \ {m} /\ UNCHANGED copies
       \/ copies < MaxCopies /\ copies' = copies + 1 /\ UNCHANGED net
    /\ UNCHANGED sender

-----------------------------------------------------------------------------

Init == /\ submitted = 0 /\ connected = FALSE /\ outages = 0
        /\ pending = <<>> /\ send_seq = 0
        /\ net = {} /\ copies = 0
        /\ recv_seq = 0 /\ buf = {} /\ delivered = <<>> /\ overflowed = FALSE

Next == \/ send \/ on_nominated \/ LeaveConnected
        \/ \E m \in net : Arrive(m)

\* Every datagram that is not lost arrives; nothing else is assumed.
Spec == /\ Init /\ [][Next]_vars
        /\ \A k \in Seqs, f \in Frames :
              WF_vars([seq |-> k, frame |-> f] \in net
                      /\ Arrive([seq |-> k, frame |-> f]))

-----------------------------------------------------------------------------

\* The members have their types; the parking queue keeps to its limit.
TypeOK == /\ submitted \in 0..MaxFrames /\ connected \in BOOLEAN
          /\ outages \in 0..MaxOutages /\ copies \in 0..MaxCopies
          /\ pending \in Seq(Frames) /\ Len(pending) <= PendingMax
          /\ send_seq \in Seqs /\ recv_seq \in Seqs
          /\ net \subseteq Datagram /\ buf \subseteq Datagram
          /\ delivered \in Seq(Frames) /\ overflowed \in BOOLEAN

InOrder ==
    \A i, j \in DOMAIN delivered : i < j => delivered[i] < delivered[j]

\* Until the reorder buffer overflows, the application sees frames in the
\* order in which the peer submitted them and none twice, across parking,
\* outages, reordering and repeats ("reorder inbound frames before delivery",
\* session.hpp).  An overflow takes the expected number to a frame that is
\* already buffered, and its copy may go up a second time.
DeliveredInOrder == overflowed \/ InOrder

\* What is parked was submitted after everything that is on its way or
\* delivered: a flush cannot overtake.
ParkedIsNewest ==
    \A i \in DOMAIN pending :
       /\ \A m \in net \cup buf : m.frame < pending[i]
       /\ \A j \in DOMAIN delivered : delivered[j] < pending[i]

\* The number the receiver waits for was used, and its datagram is gone.
AwaitedIsLost == /\ recv_seq # send_seq
                 /\ \A m \in net \cup buf : m.seq # recv_seq

\* A frame that enters the network reaches the application, or waits behind
\* a lost one, unless the reorder buffer overflows: no order of arrival and no
\* repeat leaves it in the buffer otherwise.
AllArrive ==
    \A f \in Frames :
       (\E m \in net : m.frame = f)
          ~> \/ \E i \in DOMAIN delivered : delivered[i] = f
             \/ AwaitedIsLost /\ \E m \in buf : m.frame = f
             \/ overflowed
=============================================================================
