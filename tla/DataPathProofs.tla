--------------------------- MODULE DataPathProofs ---------------------------
(***************************************************************************)
(* Ordered delivery, for any number of frames below the range of the       *)
(* sequence numbers, any parking limit, any window and any losses, repeats *)
(* and outages.                                                            *)
(*                                                                         *)
(* DataInv says that the numbers given to frames are in the order of the   *)
(* frames.  It holds whether or not the reorder buffer overflows; that     *)
(* delivery is in order (Ordered) holds until it does: the receiver        *)
(* steps back when it overflows.                                           *)
(***************************************************************************)
EXTENDS DataPath, FiniteSetTheorems, SequenceTheorems, TLAPS

\* Zenon proves most of the leaves, and does so faster than SMT.
USE ZenonT(4), SMTT(20), ZenonT(20)

\* The datagrams on their way or in the reorder buffer.
Flying == net \cup buf

\* A larger number means a later frame.
Numbered ==
    \A m, n \in Flying : /\ m.seq < n.seq => m.frame < n.frame
                         /\ m.seq = n.seq => m.frame = n.frame

\* What is numbered, waits or was delivered has been submitted.
Submitted ==
    /\ send_seq + Len(pending) <= submitted
    /\ recv_seq <= send_seq
    /\ \A m \in Flying : m.seq < send_seq /\ m.frame <= submitted
    /\ \A i \in DOMAIN delivered : delivered[i] <= submitted

\* The parked frames are in order, and none is parked while connected.
Waiting ==
    /\ connected => pending = <<>>
    /\ \A i \in DOMAIN pending : pending[i] <= submitted
    /\ \A i, j \in DOMAIN pending : i < j => pending[i] < pending[j]

\* The inductive invariant.
DataInv == TypeOK /\ Numbered /\ Submitted /\ Waiting /\ ParkedIsNewest

\* What can still be delivered comes after what was.
Ahead == \A m \in Flying : m.seq >= recv_seq =>
            \A i \in DOMAIN delivered : delivered[i] < m.frame

\* What also holds while the reorder buffer does not overflow.
Ordered == Ahead /\ InOrder

-----------------------------------------------------------------------------

\* A set of naturals has a least element.
LEMMA Least ==
    ASSUME NEW T \in SUBSET Nat, T # {}
    PROVE  \E x \in T : \A y \in T : x <= y
<1> DEFINE S == {1..n : n \in T}
           R == StrictSubsetOrdering(Nat)
<1>1. S \subseteq FiniteSubsetsOf(Nat) /\ S # {}
  <2>1. ASSUME NEW n \in T PROVE 1..n \in FiniteSubsetsOf(Nat)
    <3>1. IsFiniteSet(1..n) /\ 1..n \subseteq Nat
      BY FS_Interval
    <3> QED BY <3>1 DEF FiniteSubsetsOf
  <2> QED BY <2>1
<1>2. IsWellFoundedOn(R, FiniteSubsetsOf(Nat))
  BY FS_StrictSubsetOrderingWellFounded
<1>3. PICK X \in S : \A Y \in S : ~(<<Y, X>> \in R)
  <2> HIDE DEF S, R
  <2> QED BY <1>1, <1>2, WFMin
<1>4. PICK x \in T : X = 1..x
  BY <1>3
<1>5. ASSUME NEW y \in T, y < x PROVE FALSE
  <2>1. 1..y \in SUBSET Nat /\ 1..x \in SUBSET Nat /\ 1..y \subseteq 1..x
    BY <1>5
  <2>2. x \in 1..x /\ x \notin 1..y
    BY <1>5
  <2>3. <<1..y, 1..x>> \in R
    BY <2>1, <2>2 DEF StrictSubsetOrdering
  <2> QED BY <1>3, <1>4, <2>3
<1> QED BY <1>5

\* The frames that are sent get the next numbers, in their order.
LEMMA SendNumbers ==
    ASSUME DataInv, MaxFrames < Modulus, NEW fs \in Seq(Frames),
           send_seq + Len(fs) <= MaxFrames,
           \A i, j \in DOMAIN fs : i < j => fs[i] < fs[j],
           \A i \in DOMAIN fs : \A m \in Flying : m.frame < fs[i],
           NEW kept, send_on_strand(fs, kept), UNCHANGED buf
    PROVE  /\ send_seq' = send_seq + Len(fs) /\ send_seq' \in Seqs
           /\ net' \subseteq Datagram /\ Numbered'
           /\ \A m \in Flying' : /\ m.seq < send_seq'
                                 /\ \/ m \in Flying
                                    \/ m.seq >= send_seq /\ \E i \in DOMAIN fs : m.frame = fs[i]
<1>1. /\ MaxFrames \in Nat /\ Modulus \in Nat \ {0} /\ send_seq \in Nat
      /\ Len(fs) \in Nat /\ DOMAIN fs = 1..Len(fs)
  BY DataAssumption DEF DataAssumption, DataInv, TypeOK, Seqs
<1>2. \A n \in 0..MaxFrames : n % Modulus = n /\ n \in Seqs
  BY <1>1 DEF Seqs
<1>3. send_seq' = send_seq + Len(fs)
  <2>1. send_seq + Len(fs) \in 0..MaxFrames
    BY <1>1
  <2>2. send_seq' = (send_seq + Len(fs)) % Modulus
    BY DEF send_on_strand
  <2> QED BY <1>2, <2>1, <2>2
<1>4. \A i \in DOMAIN fs : (send_seq + i - 1) % Modulus = send_seq + i - 1
                           /\ send_seq + i - 1 \in Seqs
  BY <1>1, <1>2
<1>5. ASSUME NEW m \in Flying', m \notin Flying
      PROVE  \E i \in DOMAIN fs : /\ m = [seq |-> send_seq + i - 1, frame |-> fs[i]]
                                  /\ m \in Datagram
  <2>1. m \in net' /\ m \notin net
    BY <1>5 DEF Flying
  <2>2. PICK i \in DOMAIN fs : m = [seq |-> (send_seq + i - 1) % Modulus, frame |-> fs[i]]
    BY <2>1 DEF send_on_strand
  <2>3. m = [seq |-> send_seq + i - 1, frame |-> fs[i]] /\ fs[i] \in Frames
    BY <1>1, <1>4, <2>2
  <2> QED BY <1>4, <2>3 DEF Datagram
<1>6. ASSUME NEW m \in Flying'
      PROVE  \/ m \in Flying /\ m.seq < send_seq /\ m \in Datagram
             \/ \E i \in DOMAIN fs : /\ m \in Datagram /\ m.frame = fs[i]
                                     /\ m.seq = send_seq + i - 1
  <2>1. CASE m \in Flying
    BY <2>1 DEF DataInv, Submitted, TypeOK, Flying
  <2>2. CASE m \notin Flying
    <3>1. PICK i \in DOMAIN fs : /\ m = [seq |-> send_seq + i - 1, frame |-> fs[i]]
                                 /\ m \in Datagram
      BY <1>5, <2>2
    <3>2. m.frame = fs[i] /\ m.seq = send_seq + i - 1
      BY <3>1
    <3> QED BY <3>1, <3>2
  <2> QED BY <2>1, <2>2
<1>7. Numbered'
  <2> SUFFICES ASSUME NEW m \in Flying', NEW n \in Flying'
               PROVE  /\ m.seq < n.seq => m.frame < n.frame
                      /\ m.seq = n.seq => m.frame = n.frame
    BY DEF Numbered
  <2>1. CASE m \in Flying /\ n \in Flying
    BY <2>1 DEF DataInv, Numbered
  <2>2. CASE m \in Flying /\ n \notin Flying
    BY <1>1, <1>6, <2>2 DEF Datagram, Seqs
  <2>3. CASE m \notin Flying /\ n \in Flying
    BY <1>1, <1>6, <2>3 DEF Datagram, Seqs
  <2>4. CASE m \notin Flying /\ n \notin Flying
    <3>1. PICK i \in DOMAIN fs : m.frame = fs[i] /\ m.seq = send_seq + i - 1
      BY <1>6, <2>4
    <3>2. PICK j \in DOMAIN fs : n.frame = fs[j] /\ n.seq = send_seq + j - 1
      BY <1>6, <2>4
    <3> QED BY <1>1, <3>1, <3>2
  <2> QED BY <2>1, <2>2, <2>3, <2>4
<1>8. net' \subseteq Datagram
  BY <1>6 DEF Flying
<1>9. send_seq' \in Seqs
  BY <1>1, <1>2, <1>3
<1>10. \A m \in Flying' : /\ m.seq < send_seq'
                          /\ \/ m \in Flying
                             \/ m.seq >= send_seq /\ \E i \in DOMAIN fs : m.frame = fs[i]
  BY <1>1, <1>3, <1>6 DEF Datagram, Seqs
<1> QED BY <1>3, <1>7, <1>8, <1>9, <1>10

\* The bounds and the values of the counters.
LEMMA Counters ==
    ASSUME DataInv
    PROVE  /\ MaxFrames \in Nat /\ Modulus \in Nat \ {0} /\ PendingMax \in Nat \ {0}
           /\ submitted \in 0..MaxFrames /\ send_seq \in Nat /\ recv_seq \in Nat
           /\ pending \in Seq(Frames) /\ Len(pending) \in Nat
           /\ delivered \in Seq(Frames)
           /\ DOMAIN pending = 1..Len(pending) /\ DOMAIN delivered = 1..Len(delivered)
           /\ \A i \in DOMAIN pending : pending[i] \in 1..MaxFrames
           /\ \A i \in DOMAIN delivered : delivered[i] \in 1..MaxFrames
           /\ Flying \subseteq Datagram
           /\ \A m \in Flying : m.seq \in Nat /\ m.frame \in 1..MaxFrames
<1>1. /\ submitted \in 0..MaxFrames /\ send_seq \in Seqs /\ recv_seq \in Seqs
      /\ pending \in Seq(Frames) /\ delivered \in Seq(Frames)
      /\ Flying \subseteq Datagram
  BY DEF DataInv, TypeOK, Flying
<1>2. /\ MaxFrames \in Nat /\ Modulus \in Nat \ {0} /\ PendingMax \in Nat \ {0}
  BY DataAssumption DEF DataAssumption
<1> QED BY <1>1, <1>2 DEF Seqs, Frames, Datagram

\* A frame that is sent at once.
LEMMA SendConnected ==
    ASSUME DataInv, MaxFrames < Modulus, send, connected
    PROVE  DataInv' /\ (Ordered => Ordered')
<1> DEFINE f == submitted + 1
           fs == <<f>>
<1>1. /\ f \in 1..MaxFrames /\ submitted' = f /\ submitted < f /\ submitted \in Nat
      /\ UNCHANGED <<pending, connected, outages, copies, recv_seq, buf, delivered,
                     overflowed>>
  BY Counters DEF send, receiver
<1>2. PICK kept : send_on_strand(fs, kept)
  BY DEF send
<1>3. /\ fs \in Seq(Frames) /\ Len(fs) = 1 /\ DOMAIN fs = {1} /\ fs[1] = f
  BY <1>1 DEF Frames
<1>4. pending = <<>> /\ Len(pending) = 0 /\ DOMAIN pending = {}
  BY DEF DataInv, Waiting
<1>5. /\ \A m \in Flying : m.frame <= submitted /\ m.seq < send_seq
      /\ send_seq <= submitted /\ recv_seq <= send_seq
      /\ \A i \in DOMAIN delivered : delivered[i] <= submitted
  BY <1>4, Counters DEF DataInv, Submitted
<1> HIDE DEF f
<1>6. /\ send_seq + Len(fs) <= MaxFrames
      /\ \A i \in DOMAIN fs : \A m \in Flying : m.frame < fs[i]
      /\ \A i, j \in DOMAIN fs : i < j => fs[i] < fs[j]
  BY <1>1, <1>3, <1>5, Counters DEF f
<1> HIDE DEF fs
<1>7. /\ send_seq' = send_seq + 1 /\ send_seq' \in Seqs
      /\ net' \subseteq Datagram /\ Numbered'
      /\ \A m \in Flying' : /\ m.seq < send_seq'
                            /\ m \in Flying \/ (m.seq >= send_seq /\ m.frame = f)
  BY <1>1, <1>2, <1>3, <1>6, SendNumbers
<1>8. TypeOK'
  BY <1>1, <1>7 DEF DataInv, TypeOK
<1>9. Submitted'
  <2>1. send_seq' + Len(pending') <= submitted' /\ recv_seq' <= send_seq'
    BY <1>1, <1>4, <1>5, <1>7, Counters DEF f
  <2>2. \A m \in Flying' : m.seq < send_seq' /\ m.frame <= submitted'
    BY <1>1, <1>5, <1>7, Counters
  <2>3. \A i \in DOMAIN delivered' : delivered'[i] <= submitted'
    BY <1>1, <1>5, Counters
  <2> QED BY <2>1, <2>2, <2>3 DEF Submitted
<1>10. Waiting' /\ ParkedIsNewest'
  BY <1>1, <1>4 DEF Waiting, ParkedIsNewest
<1>11. Ordered => Ordered'
  <2>1. ASSUME Ahead, NEW m \in Flying', m.seq >= recv_seq,
               NEW i \in DOMAIN delivered
        PROVE  delivered[i] < m.frame
    <3>1. CASE m \in Flying
      BY <2>1, <3>1 DEF Ahead
    <3>2. CASE m.frame = f
      BY <1>1, <1>5, <3>2, Counters
    <3> QED BY <1>7, <3>1, <3>2
  <2>2. Ahead => Ahead'
    BY <1>1, <2>1 DEF Ahead
  <2> QED BY <1>1, <2>2 DEF Ordered, InOrder
<1> QED BY <1>7, <1>8, <1>9, <1>10, <1>11 DEF DataInv

\* The queue after a frame is parked.
LEMMA Parked ==
    ASSUME NEW q \in Seq(Frames), Len(q) <= PendingMax, NEW f \in Frames,
           \A i \in DOMAIN q : q[i] < f,
           \A i, j \in DOMAIN q : i < j => q[i] < q[j]
    PROVE  LET p == Park(q, f)
           IN /\ p \in Seq(Frames) /\ Len(p) <= PendingMax /\ Len(p) <= Len(q) + 1
              /\ \A i \in DOMAIN p : p[i] = f \/ \E j \in DOMAIN q : p[i] = q[j]
              /\ \A i, j \in DOMAIN p : i < j => p[i] < p[j]
<1> DEFINE t == IF Len(q) >= PendingMax THEN Tail(q) ELSE q
           p == Append(t, f)
<1>1. PendingMax \in Nat \ {0} /\ Len(q) \in Nat /\ DOMAIN q = 1..Len(q)
  BY DataAssumption DEF DataAssumption
<1>2. /\ t \in Seq(Frames) /\ Len(t) < PendingMax /\ Len(t) <= Len(q)
      /\ Len(t) \in Nat
      /\ \E d \in {0, 1} : Len(t) + d = Len(q) /\ \A i \in 1..Len(t) : t[i] = q[i + d]
  <2>1. CASE Len(q) >= PendingMax
    <3>1. q # <<>> /\ t = Tail(q) /\ Len(q) >= 1
      BY <1>1, <2>1
    <3>2. Tail(q) \in Seq(Frames) /\ Len(Tail(q)) = Len(q) - 1
      BY <3>1, HeadTailProperties
    <3>3. \A i \in 1..Len(q) - 1 : Tail(q)[i] = q[i + 1]
      BY <3>1, <3>2, HeadTailProperties
    <3> HIDE DEF t
    <3>4. Len(t) + 1 = Len(q) /\ \A i \in 1..Len(t) : t[i] = q[i + 1]
      BY <1>1, <3>1, <3>2, <3>3
    <3>5. Len(t) < PendingMax /\ Len(t) <= Len(q) /\ Len(t) \in Nat
      BY <1>1, <2>1, <3>1, <3>2
    <3> QED BY <3>1, <3>2, <3>4, <3>5
  <2>2. CASE ~(Len(q) >= PendingMax)
    BY <1>1, <2>2
  <2> QED BY <2>1, <2>2
<1> HIDE DEF t
<1>3. /\ p \in Seq(Frames) /\ Len(p) = Len(t) + 1 /\ DOMAIN p = 1..Len(t) + 1
      /\ \A i \in 1..Len(t) : p[i] = t[i]
      /\ p[Len(t) + 1] = f
  BY <1>2
<1>4. PICK d \in {0, 1} : Len(t) + d = Len(q) /\ \A i \in 1..Len(t) : t[i] = q[i + d]
  BY <1>2
<1> HIDE DEF p
<1>5. \A i \in DOMAIN p : IF i = Len(t) + 1 THEN p[i] = f
                          ELSE i + d \in DOMAIN q /\ p[i] = q[i + d]
  BY <1>1, <1>2, <1>3, <1>4
<1>6. \A i \in DOMAIN p : p[i] = f \/ \E j \in DOMAIN q : p[i] = q[j]
  BY <1>5
<1>7. \A i, j \in DOMAIN p : i < j => p[i] < p[j]
  BY <1>1, <1>2, <1>3, <1>4, <1>5
<1>8. Len(p) <= PendingMax /\ Len(p) <= Len(q) + 1
  BY <1>1, <1>2, <1>3
<1> QED BY <1>3, <1>6, <1>7, <1>8 DEF Park, p, t

\* A frame that is parked.
LEMMA SendParked ==
    ASSUME DataInv, send, ~connected
    PROVE  DataInv' /\ (Ordered => Ordered')
<1> DEFINE f == submitted + 1
           p == Park(pending, f)
<1>1. /\ f \in Frames /\ f \in Nat /\ submitted' = f /\ submitted < f
      /\ submitted \in Nat
      /\ pending' = p
      /\ UNCHANGED <<send_seq, net, connected, outages, copies, recv_seq, buf, delivered,
                     overflowed>>
  BY Counters DEF send, receiver, Frames
<1>2. /\ pending \in Seq(Frames) /\ Len(pending) <= PendingMax
      /\ \A i \in DOMAIN pending : pending[i] <= submitted
      /\ \A i, j \in DOMAIN pending : i < j => pending[i] < pending[j]
  BY DEF DataInv, TypeOK, Waiting
<1>3. \A i \in DOMAIN pending : pending[i] < f /\ pending[i] \in Nat
  BY <1>1, <1>2, Counters
<1> HIDE DEF f
<1>4. /\ p \in Seq(Frames) /\ Len(p) <= PendingMax /\ Len(p) <= Len(pending) + 1
      /\ \A i \in DOMAIN p : p[i] = f \/ \E j \in DOMAIN pending : p[i] = pending[j]
      /\ \A i, j \in DOMAIN p : i < j => p[i] < p[j]
  BY <1>1, <1>2, <1>3, Parked
<1> HIDE DEF p
<1>5. TypeOK'
  BY <1>1, <1>4, Counters DEF DataInv, TypeOK, Frames
<1>6. Numbered' /\ (Ordered => Ordered')
  BY <1>1 DEF DataInv, Numbered, Flying, Ordered, Ahead, InOrder
<1>7. Submitted'
  <2>1. send_seq' + Len(pending') <= submitted' /\ recv_seq' <= send_seq'
    <3>1. send_seq + Len(pending) <= submitted /\ recv_seq <= send_seq
      BY DEF DataInv, Submitted
    <3>2. Len(p) \in Nat
      BY <1>4
    <3> QED BY <1>1, <1>4, <3>1, <3>2, Counters DEF f
  <2>2. \A m \in Flying : m.seq < send_seq /\ m.frame <= f
    BY <1>1, Counters DEF DataInv, Submitted
  <2>3. \A i \in DOMAIN delivered : delivered[i] <= f
    BY <1>1, Counters DEF DataInv, Submitted
  <2> QED BY <1>1, <2>1, <2>2, <2>3 DEF Submitted, Flying
<1>8. Waiting'
  <2>1. \A i \in DOMAIN p : p[i] <= f
    BY <1>1, <1>3, <1>4
  <2> QED BY <1>1, <1>4, <2>1 DEF Waiting
<1>9. ParkedIsNewest'
  <2> SUFFICES ASSUME NEW i \in DOMAIN p
               PROVE  /\ \A m \in Flying : m.frame < p[i]
                      /\ \A j \in DOMAIN delivered : delivered[j] < p[i]
    BY <1>1 DEF ParkedIsNewest, Flying
  <2>1. CASE p[i] = f
    <3>1. \A m \in Flying : m.frame <= submitted /\ m.frame \in Nat
      BY Counters DEF DataInv, Submitted
    <3>2. \A j \in DOMAIN delivered : delivered[j] <= submitted /\ delivered[j] \in Nat
      BY Counters DEF DataInv, Submitted
    <3> QED BY <1>1, <2>1, <3>1, <3>2
  <2>2. CASE \E j \in DOMAIN pending : p[i] = pending[j]
    BY <2>2 DEF DataInv, ParkedIsNewest, Flying
  <2> QED BY <1>4, <2>1, <2>2
<1> QED BY <1>5, <1>6, <1>7, <1>8, <1>9 DEF DataInv

\* The flush of the parked frames.
LEMMA Flushed ==
    ASSUME DataInv, MaxFrames < Modulus, on_nominated
    PROVE  DataInv' /\ (Ordered => Ordered')
<1>1. /\ pending' = <<>> /\ connected' = TRUE
      /\ UNCHANGED <<submitted, outages, copies, recv_seq, buf, delivered,
                     overflowed>>
  BY DEF on_nominated, receiver
<1>2. PICK kept : send_on_strand(pending, kept)
  BY DEF on_nominated
<1>3. /\ pending \in Seq(Frames) /\ send_seq + Len(pending) <= submitted
      /\ recv_seq <= send_seq
      /\ \A i \in DOMAIN pending : pending[i] <= submitted
      /\ \A i, j \in DOMAIN pending : i < j => pending[i] < pending[j]
      /\ \A i \in DOMAIN pending :
            /\ \A m \in Flying : m.frame < pending[i]
            /\ \A j \in DOMAIN delivered : delivered[j] < pending[i]
  BY DEF DataInv, TypeOK, Submitted, Waiting, ParkedIsNewest, Flying
<1>4. send_seq + Len(pending) <= MaxFrames
  BY <1>3, Counters
<1>5. /\ send_seq' = send_seq + Len(pending) /\ send_seq' \in Seqs
      /\ net' \subseteq Datagram /\ Numbered'
      /\ \A m \in Flying' : /\ m.seq < send_seq'
                            /\ \/ m \in Flying
                               \/ m.seq >= send_seq /\ \E i \in DOMAIN pending : m.frame = pending[i]
  BY <1>1, <1>2, <1>3, <1>4, SendNumbers
<1>6. TypeOK'
  <2>1. <<>> \in Seq(Frames) /\ Len(<<>>) = 0 /\ 0 <= PendingMax
    BY Counters
  <2> QED BY <1>1, <1>5, <2>1 DEF DataInv, TypeOK
<1>7. Submitted'
  <2>1. send_seq' + Len(pending') <= submitted' /\ recv_seq' <= send_seq'
    BY <1>1, <1>3, <1>5, Counters
  <2>2. \A m \in Flying' : m.seq < send_seq' /\ m.frame <= submitted'
    BY <1>1, <1>3, <1>5 DEF DataInv, Submitted
  <2>3. \A i \in DOMAIN delivered' : delivered'[i] <= submitted'
    BY <1>1 DEF DataInv, Submitted
  <2> QED BY <2>1, <2>2, <2>3 DEF Submitted
<1>8. Waiting' /\ ParkedIsNewest'
  BY <1>1 DEF Waiting, ParkedIsNewest
<1>9. Ordered => Ordered'
  <2>1. ASSUME Ahead, NEW m \in Flying', m.seq >= recv_seq,
               NEW i \in DOMAIN delivered
        PROVE  delivered[i] < m.frame
    <3>1. CASE m \in Flying
      BY <2>1, <3>1 DEF Ahead
    <3>2. CASE \E j \in DOMAIN pending : m.frame = pending[j]
      BY <1>3, <3>2
    <3> QED BY <1>5, <3>1, <3>2
  <2>2. Ahead => Ahead'
    BY <1>1, <2>1 DEF Ahead
  <2> QED BY <1>1, <2>2 DEF Ordered, InOrder
<1> QED BY <1>5, <1>6, <1>7, <1>8, <1>9 DEF DataInv

\* Consent loss and restart() leave numbers and queues alone.
LEMMA Left ==
    ASSUME DataInv, LeaveConnected PROVE DataInv' /\ (Ordered => Ordered')
<1>1. /\ UNCHANGED <<submitted, pending, send_seq, net, copies, recv_seq, buf, delivered,
                     overflowed>>
      /\ connected' = FALSE /\ outages' \in 0..MaxOutages
  BY DataAssumption DEF LeaveConnected, receiver, DataInv, TypeOK, DataAssumption
<1>2. TypeOK'
  BY <1>1 DEF DataInv, TypeOK
<1> QED BY <1>1, <1>2 DEF DataInv, Numbered, Submitted, Waiting, ParkedIsNewest, Flying,
           Ordered, Ahead, InOrder

-----------------------------------------------------------------------------

\* Every number is buffered once, so the buffer is finite.
LEMMA BufferFinite == ASSUME DataInv PROVE IsFiniteSet(buf)
<1> DEFINE f == [m \in buf |-> m.seq]
<1>1. f \in [buf -> 0..Modulus - 1]
  BY DEF DataInv, TypeOK, Datagram, Seqs
<1>2. ASSUME NEW m \in buf, NEW n \in buf, m.seq = n.seq PROVE m = n
  <2>1. m.frame = n.frame
    BY <1>2 DEF DataInv, Numbered, Flying
  <2>2. m \in Datagram /\ n \in Datagram
    BY DEF DataInv, TypeOK
  <2> QED BY <1>2, <2>1, <2>2 DEF Datagram
<1>3. f \in Injection(buf, 0..Modulus - 1)
  BY <1>1, <1>2 DEF Injection, IsInjective
<1>4. IsFiniteSet(0..Modulus - 1)
  BY FS_Interval, DataAssumption DEF DataAssumption
<1> HIDE DEF f
<1> QED BY <1>3, <1>4, FS_Injection

\* The run of buffered frames after number k ends before the next number to
\* be given.
LEMMA RunEnds ==
    ASSUME DataInv, MaxFrames < Modulus, NEW k \in Nat, k < send_seq
    PROVE  LET n == Ready(k)
           IN /\ n \in Nat /\ k + n + 1 <= send_seq
              /\ \A i \in 1..n : /\ (k + i) % Modulus = k + i
                                 /\ k + i \in Keys
              /\ (k + n + 1) % Modulus = k + n + 1
<1>1. /\ Modulus \in Nat \ {0} /\ send_seq \in Nat /\ send_seq < Modulus
  BY Counters DEF DataInv, TypeOK, Seqs
<1>2. \A i \in Nat : k + i <= send_seq => (k + i) % Modulus = k + i
  BY <1>1
<1>3. \A j \in Keys : j < send_seq
  BY DEF Keys, DataInv, Submitted, Flying
<1> DEFINE T == {n \in Nat : (k + n + 1) % Modulus \notin Keys}
           w == send_seq - k - 1
<1>4. w \in T
  <2>1. w \in Nat /\ k + w + 1 = send_seq /\ k + (w + 1) = send_seq /\ w + 1 \in Nat
    BY <1>1
  <2>2. (k + w + 1) % Modulus = send_seq
    BY <1>1, <2>1
  <2>3. send_seq \notin Keys
    BY <1>1, <1>3
  <2> HIDE DEF w
  <2> QED BY <2>1, <2>2, <2>3
<1>5. PICK n \in T : \A y \in T : n <= y
  <2>1. T \in SUBSET Nat /\ T # {}
    BY <1>4
  <2> HIDE DEF T
  <2> QED BY <2>1, Least
<1>6. n \in Nat /\ n <= w /\ k + n + 1 <= send_seq /\ (k + n + 1) % Modulus \notin Keys
  <2>1. n \in Nat /\ (k + n + 1) % Modulus \notin Keys
    BY <1>5
  <2>2. n <= w
    <3> HIDE DEF T, w
    <3> QED BY <1>4, <1>5
  <2> QED BY <1>1, <2>1, <2>2
<1>7. ASSUME NEW i \in 1..n PROVE (k + i) % Modulus = k + i /\ (k + i) % Modulus \in Keys
  <2>1. i - 1 \in Nat /\ i - 1 < n /\ k + (i - 1) + 1 = k + i /\ i \in Nat /\ k + i <= send_seq
    BY <1>1, <1>6
  <2>2. i - 1 \notin T
    <3> HIDE DEF T
    <3>1. i - 1 \in T => n <= i - 1
      BY <1>5
    <3> QED BY <1>6, <2>1, <3>1
  <2> QED BY <1>2, <2>1, <2>2
<1>8. n \in 0..Cardinality(buf)
  <2> DEFINE f == [i \in 1..n |-> At(k + i)]
  <2>1. \A i \in 1..n : At(k + i) \in buf /\ At(k + i).seq = k + i
    BY <1>7 DEF Keys, At
  <2>2. f \in Injection(1..n, buf)
    <3>1. f \in [1..n -> buf]
      BY <2>1
    <3>2. ASSUME NEW i \in 1..n, NEW j \in 1..n, f[i] = f[j] PROVE i = j
      BY <1>6, <2>1, <3>2
    <3> QED BY <3>1, <3>2 DEF Injection, IsInjective
  <2>3. IsFiniteSet(buf) /\ Cardinality(buf) \in Nat
    BY BufferFinite, FS_CardinalityType
  <2>4. Cardinality(1..n) = n
    BY <1>6, FS_Interval
  <2>5. Cardinality(1..n) <= Cardinality(buf)
    <3> HIDE DEF f
    <3> QED BY <2>2, <2>3, FS_Injection
  <2> QED BY <1>6, <2>3, <2>4, <2>5
<1> DEFINE P(x) == /\ \A i \in 1..x : (k + i) % Modulus \in Keys
                   /\ (k + x + 1) % Modulus \notin Keys
<1>9. Ready(k) \in 0..Cardinality(buf) /\ P(Ready(k))
  BY <1>6, <1>7, <1>8 DEF Ready
<1>10. Ready(k) = n
  <2>1. Ready(k) \in Nat
    <3>1. Cardinality(buf) \in Nat
      BY BufferFinite, FS_CardinalityType
    <3> QED BY <1>9, <3>1
  <2>2. Ready(k) \in T
    BY <1>9, <2>1
  <2>3. n <= Ready(k)
    BY <1>5, <2>2
  <2>4. CASE n < Ready(k)
    <3>1. n + 1 \in 1..Ready(k) /\ k + (n + 1) = k + n + 1
      BY <1>6, <2>1, <2>4
    <3> QED BY <1>6, <1>9, <3>1
  <2> QED BY <1>6, <2>1, <2>3, <2>4
<1>11. (k + n + 1) % Modulus = k + n + 1
  <2>1. n + 1 \in Nat /\ k + (n + 1) = k + n + 1
    BY <1>6
  <2> QED BY <1>2, <1>6, <2>1
<1> QED BY <1>6, <1>7, <1>10, <1>11

\* What the arrival of a datagram leaves alone.
Arrival == /\ net' \subseteq net /\ copies' \in 0..MaxCopies /\ UNCHANGED sender

\* An arrival changes the receiver and what is on its way, and nothing else.
LEMMA Arrives ==
    ASSUME DataInv, NEW m \in net, Arrive(m) PROVE Arrival /\ deliver_in_order(m)
<1>1. MaxCopies \in Nat /\ copies \in 0..MaxCopies
  BY DataAssumption DEF DataAssumption, DataInv, TypeOK
<1> QED BY <1>1 DEF Arrive, Arrival

\* The expected frame and the run after it go up, in the order of their
\* numbers.
LEMMA Drained ==
    ASSUME DataInv, MaxFrames < Modulus, NEW m \in net, m.seq = recv_seq, Drain(m)
    PROVE  \E n \in Nat :
              /\ recv_seq' = recv_seq + n + 1 /\ recv_seq' \in Seqs
              /\ recv_seq' <= send_seq /\ buf' \subseteq buf
              /\ delivered' \in Seq(Frames)
              /\ Len(delivered') = Len(delivered) + 1 + n
              /\ \A i \in 1..Len(delivered) : delivered'[i] = delivered[i]
              /\ \A i \in 0..n : \E d \in Flying :
                    /\ d.seq = recv_seq + i
                    /\ delivered'[Len(delivered) + 1 + i] = d.frame
<1> DEFINE k == m.seq
           n == Ready(k)
           run == [i \in 1..n |-> At((k + i) % Modulus).frame]
           L == Len(delivered)
<1>1. /\ m \in Flying /\ k \in Nat /\ k < send_seq /\ m.frame \in Frames
      /\ delivered \in Seq(Frames) /\ L \in Nat
      /\ send_seq \in Nat /\ send_seq \in Seqs /\ Modulus \in Nat \ {0}
  BY Counters DEF Flying, DataInv, Submitted, TypeOK, Datagram
<1>2. /\ n \in Nat /\ k + n + 1 <= send_seq
      /\ \A i \in 1..n : (k + i) % Modulus = k + i /\ k + i \in Keys
      /\ (k + n + 1) % Modulus = k + n + 1
  <2> HIDE DEF k
  <2> QED BY <1>1, RunEnds
<1>3. k = recv_seq
  OBVIOUS
<1>4. /\ delivered' = delivered \o <<m.frame>> \o run
      /\ buf' \subseteq buf /\ recv_seq' = (k + n + 1) % Modulus
  BY DEF Drain
<1> HIDE DEF n, k
<1>5. \A i \in 1..n : /\ At(k + i) \in buf /\ At(k + i).seq = k + i
                      /\ run[i] = At(k + i).frame
  BY <1>2 DEF Keys, At
<1>6. run \in Seq(Frames) /\ Len(run) = n
  <2>1. \A i \in 1..n : run[i] \in Frames
    BY <1>5 DEF DataInv, TypeOK, Datagram
  <2>2. run = [i \in 1..n |-> run[i]]
    OBVIOUS
  <2> HIDE DEF run
  <2> QED BY <1>2, <2>1, <2>2
<1> HIDE DEF run
<1>7. /\ delivered' \in Seq(Frames) /\ Len(delivered') = L + 1 + n
      /\ \A i \in 1..L : delivered'[i] = delivered[i]
      /\ delivered'[L + 1] = m.frame
      /\ \A i \in 1..n : delivered'[L + 1 + i] = run[i]
  <2> DEFINE s == delivered \o <<m.frame>>
  <2>1. /\ s \in Seq(Frames) /\ Len(s) = L + 1 /\ s[L + 1] = m.frame
        /\ \A i \in 1..L : s[i] = delivered[i]
    BY <1>1
  <2>2. delivered' = s \o run
    BY <1>4
  <2> HIDE DEF s, L
  <2>3. /\ s \o run \in Seq(Frames) /\ Len(s \o run) = Len(s) + Len(run)
        /\ \A i \in 1..Len(s) + Len(run) :
              (s \o run)[i] = IF i <= Len(s) THEN s[i] ELSE run[i - Len(s)]
    BY <1>6, <2>1, ConcatProperties
  <2> DEFINE e == s \o run
  <2>4. /\ e \in Seq(Frames) /\ Len(e) = L + 1 + n
        /\ \A i \in 1..L + 1 + n : e[i] = IF i <= L + 1 THEN s[i] ELSE run[i - (L + 1)]
    BY <1>6, <2>1, <2>3
  <2> HIDE DEF e
  <2>5. \A i \in 1..L : e[i] = delivered[i]
    BY <1>1, <1>2, <2>1, <2>4
  <2>6. e[L + 1] = m.frame
    BY <1>1, <1>2, <2>1, <2>4
  <2>7. ASSUME NEW i \in 1..n PROVE e[L + 1 + i] = run[i]
    <3> DEFINE x == L + 1 + i
    <3>1. x \in 1..L + 1 + n /\ ~(x <= L + 1) /\ x - (L + 1) = i
      BY <1>1, <1>2
    <3> HIDE DEF x
    <3>2. e[x] = run[i]
      BY <2>4, <3>1
    <3> QED BY <3>2 DEF x
  <2>8. delivered' = e
    BY <2>2 DEF e
  <2> QED BY <2>4, <2>5, <2>6, <2>7, <2>8
<1>8. ASSUME NEW i \in 0..n
      PROVE  \E d \in Flying : d.seq = recv_seq + i /\ delivered'[L + 1 + i] = d.frame
  <2>1. CASE i = 0
    <3>1. recv_seq + i = k /\ L + 1 + i = L + 1
      BY <1>1, <1>3, <2>1
    <3> QED BY <1>1, <1>7, <3>1 DEF k
  <2>2. CASE i \in 1..n
    <3>1. /\ At(k + i) \in Flying /\ At(k + i).seq = recv_seq + i
          /\ delivered'[L + 1 + i] = At(k + i).frame
      BY <1>3, <1>5, <1>7, <2>2 DEF Flying
    <3> QED BY <3>1
  <2>3. i = 0 \/ i \in 1..n
    BY <1>2
  <2> QED BY <2>1, <2>2, <2>3
<1>9. recv_seq' = recv_seq + n + 1 /\ recv_seq' <= send_seq /\ recv_seq' \in Seqs
  BY <1>1, <1>2, <1>3, <1>4 DEF Seqs
<1> QED BY <1>2, <1>4, <1>7, <1>8, <1>9

\* What is in flight after a step that numbers nothing keeps its order.
LEMMA StillNumbered ==
    ASSUME DataInv, Flying' \subseteq Flying, UNCHANGED <<submitted, send_seq>>
    PROVE  /\ Numbered'
           /\ \A m \in Flying' : m.seq < send_seq' /\ m.frame <= submitted'
BY DEF DataInv, Numbered, Submitted

\* The expected frame and the run behind it go up in order.
LEMMA ArriveExpected ==
    ASSUME DataInv, MaxFrames < Modulus, NEW m \in net, Arrival,
           m.seq = recv_seq, Drain(m)
    PROVE  DataInv' /\ (Ordered => Ordered')
<1>1. PICK n \in Nat :
         /\ recv_seq' = recv_seq + n + 1 /\ recv_seq' \in Seqs
         /\ recv_seq' <= send_seq /\ buf' \subseteq buf
         /\ delivered' \in Seq(Frames)
         /\ Len(delivered') = Len(delivered) + 1 + n
         /\ \A i \in 1..Len(delivered) : delivered'[i] = delivered[i]
         /\ \A i \in 0..n : \E d \in Flying :
               /\ d.seq = recv_seq + i
               /\ delivered'[Len(delivered) + 1 + i] = d.frame
  BY Drained
<1>2. /\ UNCHANGED <<submitted, connected, outages, pending, send_seq>>
      /\ net' \subseteq net /\ copies' \in 0..MaxCopies
  BY DEF Arrival, sender
<1>0. overflowed' = overflowed /\ overflowed \in BOOLEAN
  BY DEF Drain, DataInv, TypeOK
<1>3. Flying' \subseteq Flying
  BY <1>1, <1>2 DEF Flying
<1>4. TypeOK'
  BY <1>0, <1>1, <1>2 DEF DataInv, TypeOK
<1>5. Numbered' /\ \A e \in Flying' : e.seq < send_seq' /\ e.frame <= submitted'
  BY <1>2, <1>3, StillNumbered
<1> DEFINE L == Len(delivered)
<1>6. L \in Nat /\ DOMAIN delivered' = 1..L + 1 + n /\ DOMAIN delivered = 1..L
  BY <1>1, Counters
<1>7. ASSUME NEW j \in DOMAIN delivered'
      PROVE  \/ j \in DOMAIN delivered /\ delivered'[j] = delivered[j]
             \/ /\ j \in L + 1..L + 1 + n
                /\ \E d \in Flying : /\ d.seq = recv_seq + (j - (L + 1))
                                     /\ delivered'[j] = d.frame
  <2>1. CASE j <= L
    BY <1>1, <1>6, <2>1
  <2>2. CASE ~(j <= L)
    <3>1. j - (L + 1) \in 0..n /\ L + 1 + (j - (L + 1)) = j /\ j \in L + 1..L + 1 + n
      BY <1>6, <2>2
    <3> QED BY <1>1, <3>1
  <2> QED BY <2>1, <2>2
<1> HIDE DEF L
<1>8. Submitted'
  <2>1. \A j \in DOMAIN delivered' : delivered'[j] <= submitted
    BY <1>7 DEF DataInv, Submitted
  <2> QED BY <1>1, <1>2, <1>5, <2>1 DEF DataInv, Submitted
<1>9. Waiting'
  BY <1>2 DEF DataInv, Waiting
<1>10. ParkedIsNewest'
  BY <1>2, <1>3, <1>7 DEF DataInv, ParkedIsNewest, Flying
<1>11. ASSUME Ordered PROVE Ordered'
  <2>1. ASSUME NEW e \in Flying', e.seq >= recv_seq', NEW j \in DOMAIN delivered'
        PROVE  delivered'[j] < e.frame
    <3>1. e \in Flying /\ e.seq \in Nat /\ recv_seq \in Nat
      BY <1>3, Counters
    <3>2. CASE j \in DOMAIN delivered /\ delivered'[j] = delivered[j]
      <4>1. e.seq >= recv_seq
        BY <1>1, <2>1, <3>1
      <4> QED BY <1>11, <3>1, <3>2, <4>1 DEF Ordered, Ahead
    <3>3. ASSUME j \in L + 1..L + 1 + n, NEW d \in Flying,
                 d.seq = recv_seq + (j - (L + 1)), delivered'[j] = d.frame
          PROVE  delivered'[j] < e.frame
      <4>1. d.seq < e.seq
        BY <1>1, <1>6, <2>1, <3>1, <3>3
      <4> QED BY <3>1, <3>3, <4>1 DEF DataInv, Numbered
    <3> QED BY <1>7, <3>2, <3>3
  <2>2. Ahead'
    BY <2>1 DEF Ahead
  <2>3. ASSUME NEW i \in DOMAIN delivered', NEW j \in DOMAIN delivered', i < j
        PROVE  delivered'[i] < delivered'[j]
    <3>1. CASE i \in DOMAIN delivered /\ j \in DOMAIN delivered
      BY <1>1, <1>6, <1>11, <2>3, <3>1 DEF Ordered, InOrder, L
    <3>2. CASE i \in DOMAIN delivered /\ j \notin DOMAIN delivered
      <4>1. PICK d \in Flying : /\ d.seq = recv_seq + (j - (L + 1))
                                /\ delivered'[j] = d.frame /\ j \in L + 1..L + 1 + n
        BY <1>7, <3>2
      <4>2. d.seq >= recv_seq
        BY <1>6, <4>1, Counters
      <4>3. delivered'[i] = delivered[i]
        BY <1>1, <1>6, <3>2 DEF L
      <4> QED BY <1>11, <3>2, <4>1, <4>2, <4>3 DEF Ordered, Ahead
    <3>3. CASE i \notin DOMAIN delivered
      <4>1. j \notin DOMAIN delivered
        BY <1>6, <2>3, <3>3
      <4>2. PICK d \in Flying : /\ d.seq = recv_seq + (i - (L + 1))
                                /\ delivered'[i] = d.frame /\ i \in L + 1..L + 1 + n
        BY <1>7, <3>3
      <4>3. PICK e \in Flying : /\ e.seq = recv_seq + (j - (L + 1))
                                /\ delivered'[j] = e.frame /\ j \in L + 1..L + 1 + n
        BY <1>7, <4>1
      <4>4. d.seq < e.seq
        BY <1>6, <2>3, <4>2, <4>3, Counters
      <4> QED BY <4>2, <4>3, <4>4 DEF DataInv, Numbered
    <3> QED BY <3>1, <3>2, <3>3
  <2> QED BY <2>2, <2>3 DEF Ordered, InOrder
<1> QED BY <1>4, <1>5, <1>8, <1>9, <1>10, <1>11 DEF DataInv

\* A frame that is not the expected one is dropped, or buffered.  Only an
\* overflow moves the number that is expected.
LEMMA ArriveOther ==
    ASSUME DataInv, NEW m \in net, Arrival, deliver_in_order(m), m.seq # recv_seq
    PROVE  DataInv' /\ (overflowed => overflowed')
           /\ (~overflowed' /\ Ordered => Ordered')
<1>1. /\ UNCHANGED <<submitted, connected, outages, pending, send_seq>>
      /\ net' \subseteq net /\ copies' \in 0..MaxCopies
  BY DEF Arrival, sender
<1>2. /\ m \in Flying /\ m.seq \in Nat /\ recv_seq \in Nat /\ m \in Datagram
  BY Counters DEF Flying
<1>3. /\ buf' \subseteq buf \cup {m} /\ UNCHANGED delivered
      /\ recv_seq' \in {recv_seq, Smallest(Keys)}
      /\ recv_seq' # recv_seq => Cardinality(buf) >= Window /\ overflowed'
      /\ overflowed => overflowed'
      /\ overflowed' \in BOOLEAN
  BY DEF deliver_in_order, receiver, Full, DataInv, TypeOK
<1>4. Flying' \subseteq Flying
  BY <1>1, <1>2, <1>3 DEF Flying
<1>5. Numbered' /\ \A e \in Flying' : e.seq < send_seq' /\ e.frame <= submitted'
  BY <1>1, <1>4, StillNumbered
<1>6. recv_seq' \in Seqs /\ recv_seq' <= send_seq
  <2>1. CASE recv_seq' = recv_seq
    BY <2>1 DEF DataInv, TypeOK, Submitted
  <2>2. CASE recv_seq' # recv_seq
    <3>1. buf # {}
      <4>1. Cardinality({}) = 0 /\ Window \in Nat \ {0}
        BY FS_EmptySet, DataAssumption DEF DataAssumption
      <4> QED BY <1>3, <2>2, <4>1
    <3>2. Keys \in SUBSET Nat /\ Keys # {}
      BY <3>1, Counters DEF Keys, Flying
    <3>3. \E k \in Keys : \A j \in Keys : k <= j
      BY <3>2, Least
    <3>4. Smallest(Keys) \in Keys
      BY <3>3 DEF Smallest
    <3>5. \A k \in Keys : k \in Seqs /\ k < send_seq
      BY DEF Keys, DataInv, TypeOK, Submitted, Flying, Datagram
    <3> QED BY <1>3, <2>2, <3>4, <3>5, Counters DEF Seqs
  <2> QED BY <2>1, <2>2
<1>7. TypeOK'
  BY <1>1, <1>2, <1>3, <1>6 DEF DataInv, TypeOK
<1>8. Submitted'
  BY <1>1, <1>3, <1>5, <1>6 DEF DataInv, Submitted
<1>9. Waiting' /\ ParkedIsNewest'
  BY <1>1, <1>3, <1>4 DEF DataInv, Waiting, ParkedIsNewest, Flying
<1>10. ASSUME ~overflowed', Ordered PROVE Ordered'
  <2>1. recv_seq' = recv_seq
    BY <1>3, <1>10
  <2> QED BY <1>3, <1>4, <1>10, <2>1 DEF Ordered, Ahead, InOrder
<1> QED BY <1>3, <1>5, <1>7, <1>8, <1>9, <1>10 DEF DataInv

-----------------------------------------------------------------------------

\* The invariant holds initially.
LEMMA DataInit == Init => DataInv /\ Ordered
<1> SUFFICES ASSUME Init PROVE DataInv /\ Ordered
  OBVIOUS
<1>1. /\ submitted = 0 /\ connected = FALSE /\ outages = 0 /\ copies = 0
      /\ pending = <<>> /\ send_seq = 0 /\ recv_seq = 0
      /\ net = {} /\ buf = {} /\ delivered = <<>> /\ overflowed = FALSE
  BY DEF Init
<1>2. /\ MaxFrames \in Nat /\ MaxOutages \in Nat /\ MaxCopies \in Nat
      /\ PendingMax \in Nat /\ Modulus \in Nat \ {0}
  BY DataAssumption DEF DataAssumption
<1>3. /\ <<>> \in Seq(Frames) /\ Len(<<>>) = 0 /\ DOMAIN <<>> = {}
      /\ 0 \in Seqs
  BY <1>2 DEF Seqs
<1>4. TypeOK
  <2>1. connected \in BOOLEAN /\ overflowed \in BOOLEAN
    BY <1>1
  <2>2. submitted \in 0..MaxFrames /\ outages \in 0..MaxOutages /\ copies \in 0..MaxCopies
    BY <1>1, <1>2
  <2>3. pending \in Seq(Frames) /\ delivered \in Seq(Frames)
    BY <1>1, <1>3
  <2>4. Len(pending) <= PendingMax
    BY <1>1, <1>2, <1>3
  <2>5. send_seq \in Seqs /\ recv_seq \in Seqs
    BY <1>1, <1>3
  <2>6. net \subseteq Datagram /\ buf \subseteq Datagram
    BY <1>1
  <2> QED BY <2>1, <2>2, <2>3, <2>4, <2>5, <2>6 DEF TypeOK
<1> QED BY <1>1, <1>3, <1>4 DEF DataInv, Numbered, Submitted, Waiting, ParkedIsNewest,
           Ordered, Ahead, InOrder, Flying

\* Every step keeps the numbers in order, and delivery too while the reorder
\* buffer does not overflow.
LEMMA DataStep ==
    ASSUME MaxFrames < Modulus, DataInv, [Next]_vars
    PROVE  DataInv' /\ (overflowed => overflowed')
           /\ (~overflowed' /\ Ordered => Ordered')
<1>0. overflowed => overflowed'
  BY DEF Next, vars, send, on_nominated, LeaveConnected, Arrive, deliver_in_order,
     Drain, receiver
<1>1. CASE send
  BY <1>0, <1>1, SendConnected, SendParked
<1>2. CASE on_nominated
  BY <1>0, <1>2, Flushed
<1>3. CASE LeaveConnected
  BY <1>0, <1>3, Left
<1>4. ASSUME NEW m \in net, Arrive(m)
      PROVE  DataInv' /\ (overflowed => overflowed')
           /\ (~overflowed' /\ Ordered => Ordered')
  <2>1. Arrival /\ deliver_in_order(m)
    BY <1>4, Arrives
  <2>2. CASE m.seq = recv_seq
    <3>1. m.seq \in Nat /\ recv_seq \in Nat
      BY Counters DEF Flying
    <3>2. Drain(m)
      BY <2>1, <2>2, <3>1 DEF deliver_in_order
    <3> QED BY <1>0, <2>1, <2>2, <3>2, ArriveExpected
  <2>3. CASE m.seq # recv_seq
    BY <2>1, <2>3, ArriveOther
  <2> QED BY <2>2, <2>3
<1>5. CASE UNCHANGED vars
  BY <1>5 DEF vars, sender, receiver, DataInv, TypeOK, Numbered, Submitted, Waiting,
     ParkedIsNewest, Ordered, Ahead, InOrder, Flying
<1> QED BY <1>1, <1>2, <1>3, <1>4, <1>5 DEF Next

\* The parking queue keeps to its limit and the numbers to their width, for
\* any number of frames that the sequence numbers can count.
THEOREM DataTyped ==
    ASSUME MaxFrames < Modulus PROVE Spec => []TypeOK
<1>1. Init => DataInv
  BY DataInit
<1>2. DataInv /\ [Next]_vars => DataInv'
  BY DataStep
<1>3. DataInv => TypeOK
  BY DEF DataInv
<1> QED BY <1>1, <1>2, <1>3, PTL DEF Spec

\* A flush cannot overtake: what is parked was submitted after everything
\* that is on its way or delivered (send, flush_pending_app_data), also when
\* the reorder buffer overflows.
THEOREM DataParked ==
    ASSUME MaxFrames < Modulus PROVE Spec => []ParkedIsNewest
<1>1. Init => DataInv
  BY DataInit
<1>2. DataInv /\ [Next]_vars => DataInv'
  BY DataStep
<1>3. DataInv => ParkedIsNewest
  BY DEF DataInv
<1> QED BY <1>1, <1>2, <1>3, PTL DEF Spec

\* Until the reorder buffer overflows, frames are delivered in the order in
\* which they were submitted and none twice, whatever the network loses,
\* repeats and reorders (deliver_in_order).
THEOREM DataInOrder ==
    ASSUME MaxFrames < Modulus PROVE Spec => []DeliveredInOrder
<1> DEFINE I == DataInv /\ (overflowed \/ Ordered)
<1>1. Init => I
  BY DataInit
<1>2. I /\ [Next]_vars => I'
  BY DataStep
<1>3. I => DeliveredInOrder
  BY DEF Ordered, DeliveredInOrder
<1> QED BY <1>1, <1>2, <1>3, PTL DEF Spec
=============================================================================
