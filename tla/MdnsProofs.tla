----------------------------- MODULE MdnsProofs -----------------------------
(***************************************************************************)
(* The mDNS resolver and the session that asks it, for any number of       *)
(* queries, hostnames, addresses, candidates and records in a packet.      *)
(*                                                                         *)
(* MdnsInv says what a query, an answer on its way to the session and a    *)
(* candidate may look like: a query is in the table with its timer, or was *)
(* called, once; the addresses a query gathers, an answer carries and a    *)
(* candidate gets are of the name they are for.  AwaitInv adds that until  *)
(* the session fails, a candidate that was asked for awaits an answer.     *)
(***************************************************************************)
EXTENDS Mdns, FiniteSetTheorems, WellFoundedInduction, TLAPS

\* Zenon proves most of the leaves, and does so faster than SMT.
USE ZenonT(4), SMTT(20), ZenonT(20)

\* Addresses of the name h.
AddrsOf(h) == {a \in Addrs : <<h, a>> \in Answers}

\* A query is in the table with its timer running, or was called.
GoodQuery ==
    {c \in QueryType :
       \/ /\ c.pending /\ ~c.fired /\ c.calls = 0 /\ c.timer # "off"
          /\ c.hostname \in Hosts /\ c.idx # 0
          /\ c.accumulated \in Seq(AddrsOf(c.hostname))
       \/ ~c.pending /\ c.fired /\ c.calls = 1}

\* An answer carries addresses of its name.
GoodMessage ==
    {m \in [idx : Nat \ {0}, hostname : Hosts, addrs : Seq(Addrs)] :
       m.addrs \in Seq(AddrsOf(m.hostname))}

\* An unresolved candidate has the name it came with, a resolved one an
\* address of that name, or none.
GoodRemote ==
    {c \in RemoteType :
       \/ c.type = "HostMdns" /\ c.hostname = c.origin /\ c.addr = None
       \/ c.type = "Host" /\ c.hostname = None /\ c.addr \in AddrsOf(c.origin) \cup {None}}

\* The inductive invariant.
MdnsInv ==
    /\ q \in Seq(GoodQuery) /\ posted \in Seq(GoodMessage)
    /\ remote \in Seq(GoodRemote)
    /\ names \subseteq Local
    /\ running \in BOOLEAN /\ stopping \in BOOLEAN /\ stops \in BOOLEAN
    /\ receiving \in BOOLEAN
    /\ state \in {"Waiting", "Checking", "Failed"} /\ failed \in BOOLEAN

-----------------------------------------------------------------------------

\* Every set of naturals has a least element.
LEMMA LeastNumber ==
    ASSUME NEW S, S \subseteq Nat, S # {}
    PROVE  \E m \in S : \A n \in S : m <= n
<1>1. PICK m \in S : \A n \in S : ~ (<<n, m>> \in OpToRel(<, Nat))
  BY NatLessThanWellFounded, WFMin, Zenon
<1>2. \A a, b \in Nat : a < b => <<a, b>> \in OpToRel(<, Nat)
  BY Zenon DEF OpToRel
<1>3. \A n \in S : n \in Nat /\ m \in Nat
  OBVIOUS
<1>4. \A n \in S : ~ (n < m)
  BY <1>1, <1>2, <1>3, Zenon
<1> QED BY <1>3, <1>4

\* A function on 1..n is a sequence.
LEMMA FunctionIsSeq ==
    ASSUME NEW T, NEW n \in Nat, NEW f \in [1..n -> T]
    PROVE  f \in Seq(T) /\ Len(f) = n /\ DOMAIN f = 1..n
OBVIOUS

\* The enumerations of a finite set are sequences of its elements.
LEMMA EnumerationIsSeq ==
    ASSUME NEW S, IsFiniteSet(S), NEW o \in SetToSeqs(S)
    PROVE  /\ Cardinality(S) \in Nat /\ o \in [1..Cardinality(S) -> S]
           /\ DOMAIN o = 1..Cardinality(S)
<1>1. Cardinality(S) \in Nat
  BY FS_CardinalityType
<1>2. o \in [1..Cardinality(S) -> S]
  BY DEF SetToSeqs
<1> QED BY <1>1, <1>2

\* What one record of a packet adds to the addresses v of a query.
AccStep(query, packet, v, k) ==
    IF packet[k][1] = query.hostname /\ ~Contains(v, packet[k][2])
    THEN Append(v, packet[k][2]) ELSE v

\* on_packet's loop over the records has a result after each of them.
LEMMA AccumulateSteps ==
    ASSUME NEW query, NEW packet, Len(packet) \in Nat
    PROVE  \E acc : /\ acc = [k \in 0..Len(packet) |->
                         IF k = 0 THEN query.accumulated
                         ELSE AccStep(query, packet, acc[k - 1], k)]
                    /\ Accumulate(query, packet) = acc[Len(packet)]
<1> DEFINE Loop(f, m) == f = [k \in 0..m |->
                                IF k = 0 THEN query.accumulated
                                ELSE AccStep(query, packet, f[k - 1], k)]
           N == Len(packet)
           Bad == {m \in Nat : ~ \E f : Loop(f, m)}
<1>1. \E f : Loop(f, 0)
  <2> DEFINE f == [k \in 0..0 |-> query.accumulated]
  <2>1. Loop(f, 0)
    <3>1. \A k \in 0..0 : k = 0
      OBVIOUS
    <3> QED BY <3>1
  <2> QED BY <2>1
<1>2. ASSUME NEW m \in Nat, m # 0, NEW f, Loop(f, m - 1)
      PROVE  \E g : Loop(g, m)
  <2> DEFINE g == [k \in 0..m |-> IF k = m THEN AccStep(query, packet, f[m - 1], m)
                                  ELSE f[k]]
  <2>1. \A k \in 0..m - 1 : g[k] = f[k] /\ k # m
    BY <1>2
  <2>2. \A k \in 0..m : k # 0 => k - 1 \in 0..m - 1 /\ g[k - 1] = f[k - 1]
    BY <1>2, <2>1
  <2>3. \A k \in 0..m : k # m => k \in 0..m - 1
    BY <1>2
  <2>4. ASSUME NEW k \in 0..m
        PROVE  g[k] = IF k = 0 THEN query.accumulated
                      ELSE AccStep(query, packet, g[k - 1], k)
    <3>1. CASE k = m
      <4>1. g[k] = AccStep(query, packet, f[k - 1], k)
        BY <3>1
      <4>2. k # 0
        BY <1>2, <3>1
      <4> QED BY <2>2, <4>1, <4>2
    <3>2. CASE k # m
      <4>1. k \in 0..m - 1 /\ g[k] = f[k]
        BY <2>1, <2>3, <3>2
      <4>2. f[k] = IF k = 0 THEN query.accumulated
                   ELSE AccStep(query, packet, f[k - 1], k)
        BY <1>2, <4>1
      <4> QED BY <2>2, <4>1, <4>2
    <3> QED BY <3>1, <3>2
  <2>5. Loop(g, m)
    <3>1. g = [k \in 0..m |-> g[k]]
      OBVIOUS
    <3> HIDE DEF g
    <3> QED BY <2>4, <3>1
  <2> QED BY <2>5
<1> HIDE DEF Loop
<1>3. Bad = {}
  <2> SUFFICES ASSUME Bad # {} PROVE FALSE
    OBVIOUS
  <2>1. PICK m \in Bad : \A n \in Bad : m <= n
    BY LeastNumber
  <2>2. m \in Nat /\ m # 0 /\ ~ \E f : Loop(f, m)
    BY <1>1
  <2>3. m - 1 \in Nat /\ ~(m <= m - 1)
    BY <2>2
  <2>4. \E f : Loop(f, m - 1)
    BY <2>1, <2>3
  <2> QED BY <1>2, <2>2, <2>4
<1>4. \E f : Loop(f, N)
  BY <1>3
<1> DEFINE acc == CHOOSE f : Loop(f, N)
<1>5. Loop(acc, N)
  BY <1>4
<1>6. Accumulate(query, packet) = acc[N]
  BY DEF Accumulate, Loop, AccStep
<1> HIDE DEF acc
<1> QED BY <1>5, <1>6 DEF Loop

\* A record is a name and an address.
LEMMA RecordPair == \A a \in Answers : a = <<a[1], a[2]>> /\ a[2] \in Addrs
<1>1. ASSUME NEW a \in Answers PROVE a = <<a[1], a[2]>>
  <2>1. a \in {b[1] : b \in Answers} \X Addrs
    BY MdnsAssumption
  <2> QED BY <2>1, SMT
<1>2. \A a \in Answers : a[2] \in Addrs
  BY DEF Addrs
<1> QED BY <1>1, <1>2

\* The addresses a packet adds to a query are those of its name.
LEMMA AccumulateType ==
    ASSUME NEW query, NEW h, query.hostname = h, query.accumulated \in Seq(AddrsOf(h)),
           NEW packet \in Seq(Answers)
    PROVE  Accumulate(query, packet) \in Seq(AddrsOf(h))
<1> DEFINE N == Len(packet)
<1>1. N \in Nat /\ DOMAIN packet = 1..N
  OBVIOUS
<1>2. PICK acc : /\ acc = [k \in 0..N |-> IF k = 0 THEN query.accumulated
                             ELSE AccStep(query, packet, acc[k - 1], k)]
                 /\ Accumulate(query, packet) = acc[N]
  BY <1>1, AccumulateSteps
<1>3. acc[0] = query.accumulated
      /\ \A k \in 1..N : acc[k] = AccStep(query, packet, acc[k - 1], k)
  <2>1. 0 \in 0..N /\ \A k \in 1..N : k \in 0..N /\ k # 0
    BY <1>1
  <2> QED BY <1>2, <2>1
<1>4. ASSUME NEW k \in 1..N, NEW v \in Seq(AddrsOf(h))
      PROVE  AccStep(query, packet, v, k) \in Seq(AddrsOf(h))
  <2>1. packet[k] \in Answers
    BY <1>1
  <2>2. packet[k][1] = h => packet[k][2] \in AddrsOf(h)
    <3>1. packet[k] = <<packet[k][1], packet[k][2]>> /\ packet[k][2] \in Addrs
      BY <2>1, RecordPair
    <3> QED BY <2>1, <3>1 DEF AddrsOf
  <2> QED BY <2>2 DEF AccStep
<1> DEFINE Bad == {k \in 0..N : acc[k] \notin Seq(AddrsOf(h))}
<1>5. Bad = {}
  <2> SUFFICES ASSUME Bad # {} PROVE FALSE
    OBVIOUS
  <2>1. Bad \subseteq Nat
    <3>1. 0..N \subseteq Nat
      BY <1>1
    <3> QED BY <3>1
  <2>2. PICK m \in Bad : \A n \in Bad : m <= n
    BY <2>1, LeastNumber
  <2>3. m \in 0..N /\ acc[m] \notin Seq(AddrsOf(h))
    OBVIOUS
  <2>4. m # 0
    BY <1>3, <2>3
  <2>5. m \in 1..N /\ m - 1 \in 0..N /\ ~(m <= m - 1)
    BY <1>1, <2>3, <2>4
  <2>6. acc[m - 1] \in Seq(AddrsOf(h))
    BY <2>2, <2>5
  <2>7. AccStep(query, packet, acc[m - 1], m) \in Seq(AddrsOf(h))
    BY <1>4, <2>5, <2>6
  <2>8. acc[m] = AccStep(query, packet, acc[m - 1], m)
    BY <1>3, <2>5
  <2> QED BY <2>3, <2>7, <2>8
<1>6. N \in 0..N
  BY <1>1
<1>7. acc[N] \in Seq(AddrsOf(h))
  BY <1>5, <1>6
<1> QED BY <1>2, <1>7

\* The addresses of a name of our own are that name's.
LEMMA OwnAddrsType == ASSUME NEW h PROVE OwnAddrs(h) \in Seq(AddrsOf(h))
<1> DEFINE A == {b \in Answers : b[1] = h}
           S == {a[2] : a \in A}
           f == [a \in A |-> a[2]]
<1>1. IsFiniteSet(A)
  <2>1. A \in SUBSET Answers /\ IsFiniteSet(Answers)
    BY MdnsAssumption
  <2> QED BY <2>1, FS_Subset
<1>2. f \in Surjection(A, S)
  BY DEF Surjection
<1>3. IsFiniteSet(S)
  BY <1>1, <1>2, FS_Surjection
<1>4. S \subseteq AddrsOf(h)
  <2>1. \A a \in A : a = <<h, a[2]>> /\ a \in Answers /\ a[2] \in Addrs
    BY RecordPair
  <2> QED BY <2>1 DEF AddrsOf
<1> HIDE DEF S
<1>5. Cardinality(S) \in Nat /\ ExistsBijection(1..Cardinality(S), S)
  BY <1>3, FS_CardinalityType
<1>6. \E g \in [1..Cardinality(S) -> S] : IsInjective(g)
  BY <1>5 DEF ExistsBijection, Bijection, Injection
<1>7. SetToSeq(S) \in [1..Cardinality(S) -> S]
  BY <1>6 DEF SetToSeq
<1>8. SetToSeq(S) \in [1..Cardinality(S) -> AddrsOf(h)]
  BY <1>4, <1>7
<1>9. SetToSeq(S) \in Seq(AddrsOf(h))
  BY <1>5, <1>8, FunctionIsSeq
<1> QED BY <1>9 DEF OwnAddrs, S

\* A candidate that gets an address of its name, or none, is as it should be.
LEMMA HostType ==
    ASSUME NEW c \in GoodRemote, NEW a \in AddrsOf(c.origin) \cup {None}
    PROVE  /\ Host(c, a) \in GoodRemote
           /\ Host(c, a).origin = c.origin
           /\ \A port \in Ports : [Host(c, a) EXCEPT !.port = port] \in GoodRemote
<1>1. c \in RemoteType /\ a \in Addrs \cup {None}
  BY DEF GoodRemote, AddrsOf
<1> DEFINE d == Host(c, a)
<1>2. /\ d \in RemoteType /\ d.type = "Host" /\ d.hostname = None /\ d.addr = a
      /\ d.origin = c.origin
  BY <1>1 DEF Host, RemoteType
<1> HIDE DEF d
<1>3. d \in GoodRemote
  BY <1>2 DEF GoodRemote
<1>4. ASSUME NEW port \in Ports PROVE [d EXCEPT !.port = port] \in GoodRemote
  <2> DEFINE e == [d EXCEPT !.port = port]
  <2>1. /\ e \in RemoteType /\ e.type = "Host" /\ e.hostname = None /\ e.addr = a
        /\ e.origin = c.origin
    BY <1>2 DEF RemoteType
  <2> HIDE DEF e
  <2>2. e \in GoodRemote
    BY <2>1 DEF GoodRemote
  <2> QED BY <2>2 DEF e
<1> QED BY <1>2, <1>3, <1>4 DEF d

\* The callback gives addresses to the candidate they are for.
LEMMA OnResolvedType ==
    ASSUME NEW list \in Seq(GoodRemote), NEW m \in GoodMessage, NEW port \in Ports
    PROVE  OnResolved(list, m, port) \in Seq(GoodRemote)
<1> DEFINE i == m.idx
           c == list[m.idx]
           more == [k \in 1..Len(m.addrs) - 1 |->
                      [Host(c, m.addrs[k + 1]) EXCEPT !.port = IF k = 1 THEN @ ELSE port]]
<1>1. m.idx \in Nat \ {0} /\ m.addrs \in Seq(AddrsOf(m.hostname))
  BY DEF GoodMessage
<1>2. CASE \/ m.idx > Len(list) \/ list[m.idx].type # "HostMdns"
           \/ list[m.idx].hostname # m.hostname
  BY <1>2 DEF OnResolved
<1>3. CASE /\ ~(m.idx > Len(list)) /\ list[m.idx].type = "HostMdns"
           /\ list[m.idx].hostname = m.hostname
  <2>1. Len(list) \in Nat /\ i \in 1..Len(list) /\ DOMAIN list = 1..Len(list)
    BY <1>1, <1>3
  <2>2. c \in GoodRemote
    BY <2>1
  <2>3. c.origin = m.hostname /\ c.port \in Ports
    BY <1>3, <2>2 DEF GoodRemote, RemoteType
  <2>4. ASSUME NEW d \in GoodRemote PROVE [list EXCEPT ![i] = d] \in Seq(GoodRemote)
    BY <2>1
  <2>5. CASE m.addrs = <<>>
    <3>1. Host(c, None) \in GoodRemote
      BY <2>2, HostType
    <3>2. OnResolved(list, m, port) = [list EXCEPT ![i] = Host(c, None)]
      BY <1>3, <2>5 DEF OnResolved
    <3> QED BY <2>4, <3>1, <3>2
  <2>6. CASE m.addrs # <<>>
    <3>1. /\ Len(m.addrs) \in Nat /\ Len(m.addrs) - 1 \in Nat /\ 1 \in 1..Len(m.addrs)
          /\ \A k \in 1..Len(m.addrs) : m.addrs[k] \in AddrsOf(c.origin)
      BY <1>1, <2>3, <2>6
    <3>2. Host(c, m.addrs[1]) \in GoodRemote
      BY <2>2, <3>1, HostType
    <3>3. ASSUME NEW k \in 1..Len(m.addrs) - 1
          PROVE  [Host(c, m.addrs[k + 1]) EXCEPT !.port = IF k = 1 THEN @ ELSE port]
                    \in GoodRemote
      <4>1. k + 1 \in 1..Len(m.addrs)
        BY <3>1
      <4>2. m.addrs[k + 1] \in AddrsOf(c.origin) \cup {None}
        BY <3>1, <4>1
      <4> DEFINE d == Host(c, m.addrs[k + 1])
      <4>3. d \in GoodRemote /\ \A r \in Ports : [d EXCEPT !.port = r] \in GoodRemote
        BY <2>2, <4>2, HostType
      <4> HIDE DEF d
      <4>4. d.port \in Ports
        BY <4>3 DEF GoodRemote, RemoteType
      <4>5. [d EXCEPT !.port = IF k = 1 THEN @ ELSE port]
               = [d EXCEPT !.port = IF k = 1 THEN d.port ELSE port]
        OBVIOUS
      <4>6. (IF k = 1 THEN d.port ELSE port) \in Ports
        BY <4>4
      <4>7. [d EXCEPT !.port = IF k = 1 THEN @ ELSE port] \in GoodRemote
        BY <4>3, <4>5, <4>6
      <4> QED BY <4>7 DEF d
    <3>4. more \in [1..Len(m.addrs) - 1 -> GoodRemote]
      BY <3>3
    <3>5. OnResolved(list, m, port) = [list EXCEPT ![i] = Host(c, m.addrs[1])] \o more
      BY <1>3, <2>6 DEF OnResolved
    <3> HIDE DEF more
    <3>6. more \in Seq(GoodRemote)
      BY <3>1, <3>4, FunctionIsSeq
    <3>7. [list EXCEPT ![i] = Host(c, m.addrs[1])] \in Seq(GoodRemote)
      BY <2>4, <3>2
    <3> QED BY <3>5, <3>6, <3>7
  <2> QED BY <2>5, <2>6
<1> QED BY <1>2, <1>3

-----------------------------------------------------------------------------

\* A function maps its domain to its values.
LEMMA ToItsValues ==
    ASSUME NEW D, NEW f, f = [j \in D |-> f[j]]
    PROVE  f \in [D -> {f[j] : j \in D}]
OBVIOUS

\* A sequence over a set is one over a larger set.
LEMMA SeqOver == ASSUME NEW A, NEW B, A \subseteq B, NEW s \in Seq(A) PROVE s \in Seq(B)
<1>1. Len(s) \in Nat /\ s \in [1..Len(s) -> A]
  OBVIOUS
<1>2. s \in [1..Len(s) -> B]
  BY <1>1
<1> QED BY <1>1, <1>2, FunctionIsSeq

\* Nothing is left of a query that was called.
LEMMA NoQueryType == NoQuery \in QueryType /\ ~NoQuery.pending
<1>1. <<>> \in Seq(Addrs)
  OBVIOUS
<1> QED BY <1>1 DEF NoQuery, QueryType

\* The callback is called for the first time.
LEMMA CalledFields ==
    ASSUME NEW d, d.timer \in {"off", "armed", "queued"}, d.calls = 0
    PROVE  /\ Called(d) \in QueryType /\ ~Called(d).pending /\ Called(d).fired
           /\ Called(d).calls = 1
<1> DEFINE W(r, t, v) == [r EXCEPT !.fired = TRUE, !.timer = t, !.calls = v]
<1>1. \A r \in QueryType, t \in {"off", "armed", "queued"}, v \in Nat : ~r.pending =>
         /\ W(r, t, v) \in QueryType /\ ~W(r, t, v).pending /\ W(r, t, v).fired
         /\ W(r, t, v).calls = v
  <2> TAKE r \in QueryType, t \in {"off", "armed", "queued"}, v \in Nat
  <2> HAVE ~r.pending
  <2> DEFINE x1 == [r EXCEPT !.fired = TRUE]
  <2>1. x1 \in QueryType /\ ~x1.pending /\ x1.fired
    BY DEF QueryType
  <2> HIDE DEF x1
  <2> DEFINE x2 == [x1 EXCEPT !.timer = t]
  <2>2. x2 \in QueryType /\ ~x2.pending /\ x2.fired
    BY <2>1 DEF QueryType
  <2> HIDE DEF x2
  <2> DEFINE x == [x2 EXCEPT !.calls = v]
  <2>3. x \in QueryType /\ ~x.pending /\ x.fired /\ x.calls = v
    BY <2>2 DEF QueryType
  <2>4. W(r, t, v) = x
    BY DEF x1, x2
  <2> HIDE DEF x, W
  <2> QED BY <2>3, <2>4
<1>2. d.calls + 1 = 1 /\ 1 \in Nat
  OBVIOUS
<1>3. Called(d) = W(NoQuery, d.timer, 1)
  BY <1>2 DEF Called
<1> HIDE DEF W
<1>4. NoQuery \in QueryType /\ ~NoQuery.pending
  BY NoQueryType
<1>5. /\ W(NoQuery, d.timer, 1) \in QueryType /\ ~W(NoQuery, d.timer, 1).pending
      /\ W(NoQuery, d.timer, 1).fired /\ W(NoQuery, d.timer, 1).calls = 1
  <2>1. d.timer \in {"off", "armed", "queued"} /\ 1 \in Nat
    BY <1>2
  <2> QED BY <1>1, <1>4, <2>1, ZenonT(60)
<1> QED BY <1>3, <1>5

\* A callback that was called, once.
LEMMA CalledType ==
    ASSUME NEW c, c \in QueryType, c.pending => c.calls = 0, c.pending
    PROVE  /\ Called(Cancelled(c)) \in GoodQuery
           /\ [Called(c) EXCEPT !.timer = "off"] \in GoodQuery
<1>2. c.timer \in {"off", "armed", "queued"} /\ c.calls = 0
  BY DEF QueryType
<1>3. Cancelled(c).timer \in {"off", "armed", "queued"} /\ Cancelled(c).calls = 0
  BY <1>2 DEF Cancelled, QueryType
<1>4. ASSUME NEW d, d.timer \in {"off", "armed", "queued"}, d.calls = 0
      PROVE  /\ Called(d) \in QueryType /\ ~Called(d).pending /\ Called(d).fired
             /\ Called(d).calls = 1
  BY <1>4, CalledFields
<1>5. Called(Cancelled(c)) \in GoodQuery
  BY <1>3, <1>4 DEF GoodQuery
<1> DEFINE e == [Called(c) EXCEPT !.timer = "off"]
<1>6. e \in QueryType /\ ~e.pending /\ e.fired /\ e.calls = 1
  <2> DEFINE d == Called(c)
  <2>1. d \in QueryType /\ ~d.pending /\ d.fired /\ d.calls = 1
    BY <1>2, <1>4
  <2> HIDE DEF d
  <2>2. LET f == [d EXCEPT !.timer = "off"]
        IN f \in QueryType /\ ~f.pending /\ f.fired /\ f.calls = 1
    BY <2>1 DEF QueryType
  <2> QED BY <2>2 DEF d
<1> HIDE DEF e
<1>7. e \in GoodQuery
  BY <1>6 DEF GoodQuery
<1> QED BY <1>5, <1>7 DEF e

\* What the callback of a pending query posts.
LEMMA MessageType ==
    ASSUME NEW c \in GoodQuery, c.pending, NEW addrs \in Seq(AddrsOf(c.hostname))
    PROVE  Message(c, addrs) \in GoodMessage
<1>1. c.idx \in Nat \ {0} /\ c.hostname \in Hosts
  BY DEF GoodQuery, QueryType
<1>2. addrs \in Seq(Addrs)
  <2>1. AddrsOf(c.hostname) \subseteq Addrs
    BY DEF AddrsOf
  <2> QED BY <2>1, SeqOver
<1> QED BY <1>1, <1>2 DEF Message, GoodMessage

\* A loop over the table calls each of the queries once.
LEMMA FireType ==
    ASSUME MdnsInv, NEW S \in SUBSET DOMAIN q, NEW got, Fire(S, got),
           \A n \in S : q[n].pending /\ got[n] \in Seq(AddrsOf(q[n].hostname))
    PROVE  q' \in Seq(GoodQuery) /\ posted' \in Seq(GoodMessage)
<1>1. q \in Seq(GoodQuery) /\ Len(q) \in Nat /\ DOMAIN q = 1..Len(q)
  BY DEF MdnsInv
<1>2. \A n \in DOMAIN q : q[n] \in GoodQuery
  BY <1>1
<1>3. \A n \in S : Called(Cancelled(q[n])) \in GoodQuery
  <2>1. \A n \in S : q[n] \in QueryType /\ (q[n].pending => q[n].calls = 0)
    BY <1>2 DEF GoodQuery
  <2> QED BY <2>1, CalledType
<1>4. q' \in [1..Len(q) -> GoodQuery]
  BY <1>1, <1>2, <1>3 DEF Fire
<1>5. q' \in Seq(GoodQuery)
  BY <1>1, <1>4, FunctionIsSeq
<1>6. PICK o \in Orders(S) :
         posted' = posted \o [k \in DOMAIN o |-> Message(q[o[k]], got[o[k]])]
  BY DEF Fire
<1>7. IsFiniteSet(S)
  <2>1. IsFiniteSet(1..Len(q)) /\ S \in SUBSET (1..Len(q))
    BY <1>1, FS_Interval
  <2> QED BY <2>1, FS_Subset
<1>8. o \in SetToSeqs(S)
  BY DEF Orders
<1>9. /\ Cardinality(S) \in Nat /\ o \in [1..Cardinality(S) -> S]
      /\ DOMAIN o = 1..Cardinality(S)
  BY <1>7, <1>8, EnumerationIsSeq
<1>10. \A n \in S : Message(q[n], got[n]) \in GoodMessage
  BY <1>2, MessageType
<1> DEFINE new == [k \in DOMAIN o |-> Message(q[o[k]], got[o[k]])]
<1>11. new \in [1..Cardinality(S) -> GoodMessage]
  BY <1>9, <1>10
<1>12. posted' = posted \o new
  BY <1>6
<1> HIDE DEF new
<1>13. new \in Seq(GoodMessage)
  BY <1>9, <1>11, FunctionIsSeq
<1>14. posted' \in Seq(GoodMessage)
  BY <1>12, <1>13 DEF MdnsInv
<1> QED BY <1>5, <1>14

\* A name that is asked for has a query in the table, or was answered.
LEMMA AskedType ==
    ASSUME NEW i \in Nat \ {0}, NEW c \in GoodRemote, c.type = "HostMdns"
    PROVE  Asked(i, c) \in GoodQuery
<1>1. c.hostname \in Hosts
  BY DEF GoodRemote, RemoteType
<1>2. <<>> \in Seq(Addrs) /\ <<>> \in Seq(AddrsOf(c.hostname))
  OBVIOUS
<1>3. NoQuery \in QueryType
  BY <1>2 DEF NoQuery, QueryType
<1>4. CASE c.hostname \in names
  <2> DEFINE d == Called(NoQuery)
  <2>1. d \in QueryType /\ ~d.pending /\ d.fired /\ d.calls = 1
    <3>1. NoQuery.timer \in {"off", "armed", "queued"} /\ NoQuery.calls = 0
      BY DEF NoQuery
    <3> QED BY <3>1, CalledFields
  <2>2. Asked(i, c) = d
    BY <1>4 DEF Asked
  <2> HIDE DEF d
  <2> QED BY <2>1, <2>2 DEF GoodQuery
<1>5. CASE c.hostname \notin names
  <2> DEFINE d == [NoQuery EXCEPT !.hostname = c.hostname, !.idx = i,
                                  !.pending = TRUE, !.timer = "armed"]
  <2>1. /\ d \in QueryType /\ d.pending /\ ~d.fired /\ d.calls = 0 /\ d.timer = "armed"
        /\ d.hostname = c.hostname /\ d.idx = i /\ d.accumulated = <<>>
    BY <1>1, <1>2 DEF NoQuery, QueryType
  <2>2. Asked(i, c) = d
    BY <1>5 DEF Asked
  <2> HIDE DEF d
  <2> QED BY <1>1, <1>2, <2>1, <2>2 DEF GoodQuery
<1> QED BY <1>4, <1>5

\* resolve_remote_mdns_candidates asks for names, and answers our own.
LEMMA AskForType ==
    ASSUME MdnsInv, NEW list \in Seq(GoodRemote), AskFor(list)
    PROVE  /\ q' \in Seq(GoodQuery) /\ posted' \in Seq(GoodMessage)
           /\ remote' \in Seq(GoodRemote)
<1> DEFINE T == ToAsk(list)
           O == {i \in ToAsk(list) : list[i].hostname \in names}
<1>1. PICK todo \in Ascending(T), own \in Ascending(O) :
         /\ q' = q \o [k \in DOMAIN todo |-> Asked(todo[k], list[todo[k]])]
         /\ posted' = posted \o [k \in DOMAIN own |->
               [idx |-> own[k], hostname |-> list[own[k]].hostname,
                addrs |-> OwnAddrs(list[own[k]].hostname)]]
         /\ remote' = [i \in DOMAIN list |-> [list[i] EXCEPT
                          !.asked = @ \/ i \in ToAsk(list)]]
  BY DEF AskFor
<1>2. Len(list) \in Nat /\ DOMAIN list = 1..Len(list)
  OBVIOUS
<1>3. \A i \in DOMAIN list : list[i] \in GoodRemote /\ i \in Nat \ {0}
  BY <1>2
<1>4. \A i \in T : i \in DOMAIN list /\ list[i].type = "HostMdns"
  BY DEF ToAsk
<1>5. IsFiniteSet(T) /\ IsFiniteSet(O)
  <2>1. IsFiniteSet(1..Len(list))
    BY <1>2, FS_Interval
  <2>2. T \in SUBSET (1..Len(list)) /\ O \in SUBSET (1..Len(list))
    BY <1>2 DEF ToAsk
  <2> QED BY <2>1, <2>2, FS_Subset
<1>6. \A i \in O : i \in T
  OBVIOUS
<1> HIDE DEF T, O
<1>7. todo \in SetToSeqs(T) /\ own \in SetToSeqs(O)
  BY DEF Ascending
<1>8. /\ Cardinality(T) \in Nat /\ todo \in [1..Cardinality(T) -> T]
      /\ DOMAIN todo = 1..Cardinality(T)
      /\ Cardinality(O) \in Nat /\ own \in [1..Cardinality(O) -> O]
      /\ DOMAIN own = 1..Cardinality(O)
  BY <1>5, <1>7, EnumerationIsSeq
<1>9. q' \in Seq(GoodQuery)
  <2> DEFINE new == [k \in DOMAIN todo |-> Asked(todo[k], list[todo[k]])]
  <2>1. \A i \in T : Asked(i, list[i]) \in GoodQuery
    BY <1>3, <1>4, AskedType
  <2>2. new \in [1..Cardinality(T) -> GoodQuery]
    BY <1>8, <2>1
  <2>3. q' = q \o new
    BY <1>1
  <2> HIDE DEF new
  <2>4. new \in Seq(GoodQuery)
    BY <1>8, <2>2, FunctionIsSeq
  <2> QED BY <2>3, <2>4 DEF MdnsInv
<1>10. posted' \in Seq(GoodMessage)
  <2> DEFINE Own(i) == [idx |-> i, hostname |-> list[i].hostname,
                        addrs |-> OwnAddrs(list[i].hostname)]
             new == [k \in DOMAIN own |-> Own(own[k])]
  <2>1. ASSUME NEW i \in O PROVE Own(i) \in GoodMessage
    <3>1. i \in Nat \ {0} /\ list[i].hostname \in Hosts
      BY <1>3, <1>4, <1>6 DEF GoodRemote, RemoteType
    <3>2. OwnAddrs(list[i].hostname) \in Seq(AddrsOf(list[i].hostname))
      BY OwnAddrsType
    <3>3. OwnAddrs(list[i].hostname) \in Seq(Addrs)
      <4>1. AddrsOf(list[i].hostname) \subseteq Addrs
        BY DEF AddrsOf
      <4> QED BY <3>2, <4>1, SeqOver
    <3> QED BY <3>1, <3>2, <3>3 DEF GoodMessage
  <2>2. posted' = posted \o new
    BY <1>1
  <2> HIDE DEF Own
  <2>3. new \in [1..Cardinality(O) -> GoodMessage]
    BY <1>8, <2>1
  <2> HIDE DEF new
  <2>4. new \in Seq(GoodMessage)
    BY <1>8, <2>3, FunctionIsSeq
  <2> QED BY <2>2, <2>4 DEF MdnsInv
<1>11. remote' \in Seq(GoodRemote)
  <2>1. ASSUME NEW c \in GoodRemote, NEW b \in BOOLEAN
        PROVE  [c EXCEPT !.asked = b] \in GoodRemote
    <3> DEFINE d == [c EXCEPT !.asked = b]
    <3>1. /\ d \in RemoteType /\ d.type = c.type /\ d.hostname = c.hostname
          /\ d.addr = c.addr /\ d.origin = c.origin
      BY DEF GoodRemote, RemoteType
    <3> HIDE DEF d
    <3>2. d \in GoodRemote
      BY <3>1 DEF GoodRemote
    <3> QED BY <3>2 DEF d
  <2>2. \A i \in DOMAIN list : (list[i].asked \/ i \in ToAsk(list)) \in BOOLEAN
    OBVIOUS
  <2>3. \A i \in DOMAIN list :
           [list[i] EXCEPT !.asked = @ \/ i \in ToAsk(list)] \in GoodRemote
    BY <1>3, <2>1, <2>2, Zenon
  <2>4. remote' \in [1..Len(list) -> GoodRemote]
    BY <1>1, <1>2, <2>3
  <2> QED BY <1>2, <2>4, FunctionIsSeq
<1> QED BY <1>9, <1>10, <1>11

-----------------------------------------------------------------------------

\* stop()'s task calls every query that is left in the table.
LEMMA StopTaskStep == ASSUME MdnsInv, StopTask PROVE MdnsInv'
<1> DEFINE S == {n \in DOMAIN q : q[n].pending}
           got == [n \in DOMAIN q |-> q[n].accumulated]
<1>1. \A n \in DOMAIN q : q[n] \in GoodQuery
  BY DEF MdnsInv
<1>2. \A n \in S : q[n].pending /\ got[n] \in Seq(AddrsOf(q[n].hostname))
  BY <1>1 DEF GoodQuery
<1>3. S \in SUBSET DOMAIN q
  OBVIOUS
<1>4. Fire(S, got)
  BY DEF StopTask
<1> HIDE DEF S, got
<1>5. q' \in Seq(GoodQuery) /\ posted' \in Seq(GoodMessage)
  BY <1>2, <1>3, <1>4, FireType
<1> QED BY <1>5 DEF StopTask, MdnsInv

\* A packet calls the queries it has an address for.
LEMMA PacketFires ==
    ASSUME MdnsInv, on_packet
    PROVE  \E S, got :
              /\ S \in SUBSET DOMAIN q /\ Fire(S, got)
              /\ \A n \in S : q[n].pending /\ got[n] \in Seq(AddrsOf(q[n].hostname))
<1>1. PICK len \in 1..MaxPacket : \E packet \in [1..len -> Answers] :
         LET got == [n \in DOMAIN q |-> IF q[n].pending
                                        THEN Accumulate(q[n], packet) ELSE <<>>]
             S == {n \in DOMAIN q : got[n] # <<>>}
         IN S # {} /\ Fire(S, got)
  BY DEF on_packet
<1>2. PICK packet \in [1..len -> Answers] :
         LET got == [n \in DOMAIN q |-> IF q[n].pending
                                        THEN Accumulate(q[n], packet) ELSE <<>>]
             S == {n \in DOMAIN q : got[n] # <<>>}
         IN S # {} /\ Fire(S, got)
  BY <1>1
<1> DEFINE got == [n \in DOMAIN q |-> IF q[n].pending
                                      THEN Accumulate(q[n], packet) ELSE <<>>]
           S == {n \in DOMAIN q : got[n] # <<>>}
<1>3. packet \in Seq(Answers)
  <2>1. len \in Nat
    BY MdnsAssumption
  <2> QED BY <2>1, FunctionIsSeq
<1>4. \A n \in DOMAIN q : q[n] \in GoodQuery
  BY DEF MdnsInv
<1>5. ASSUME NEW n \in S
      PROVE  q[n].pending /\ got[n] \in Seq(AddrsOf(q[n].hostname))
  <2>1. n \in DOMAIN q /\ got[n] # <<>>
    OBVIOUS
  <2>2. q[n].pending /\ got[n] = Accumulate(q[n], packet)
    BY <2>1
  <2>3. q[n].accumulated \in Seq(AddrsOf(q[n].hostname))
    BY <1>4, <2>1, <2>2 DEF GoodQuery
  <2> QED BY <1>3, <2>2, <2>3, AccumulateType
<1>6. S \in SUBSET DOMAIN q /\ Fire(S, got)
  BY <1>2
<1> HIDE DEF S, got
<1> QED BY <1>5, <1>6

\* A packet keeps the invariant.
LEMMA PacketStep == ASSUME MdnsInv, on_packet PROVE MdnsInv'
<1>1. q' \in Seq(GoodQuery) /\ posted' \in Seq(GoodMessage)
  BY PacketFires, FireType
<1> QED BY <1>1 DEF on_packet, MdnsInv, manager

\* One query of the list changes.
LEMMA QueryChanges ==
    ASSUME NEW s \in Seq(GoodQuery), NEW n \in DOMAIN s, NEW c \in GoodQuery
    PROVE  [s EXCEPT ![n] = c] \in Seq(GoodQuery)
OBVIOUS

\* The timer of a query that was called runs out, or that of one in the table.
LEMMA TimerExpiresStep ==
    ASSUME MdnsInv, NEW n, TimerExpires(n) PROVE MdnsInv'
<1>1. q \in Seq(GoodQuery) /\ n \in DOMAIN q
  BY DEF MdnsInv, TimerExpires
<1>2. q[n] \in GoodQuery
  BY <1>1
<1>3. ASSUME NEW c \in GoodQuery
      PROVE  [c EXCEPT !.timer = "queued"] \in GoodQuery
  <2> DEFINE d == [c EXCEPT !.timer = "queued"]
  <2>1. /\ d \in QueryType /\ d.pending = c.pending /\ d.fired = c.fired
        /\ d.calls = c.calls /\ d.hostname = c.hostname /\ d.idx = c.idx
        /\ d.accumulated = c.accumulated /\ d.timer = "queued"
    BY DEF GoodQuery, QueryType
  <2> HIDE DEF d
  <2>2. d \in GoodQuery
    BY <2>1 DEF GoodQuery
  <2> QED BY <2>2 DEF d
<1>4. q' = [q EXCEPT ![n] = [q[n] EXCEPT !.timer = "queued"]]
  BY DEF TimerExpires
<1> DEFINE d == [q[n] EXCEPT !.timer = "queued"]
<1>5. d \in GoodQuery /\ q' = [q EXCEPT ![n] = d]
  BY <1>2, <1>3, <1>4
<1> HIDE DEF d
<1>6. q' \in Seq(GoodQuery)
  BY <1>1, <1>5, QueryChanges
<1> QED BY <1>6 DEF TimerExpires, MdnsInv, manager, session

\* A handler that finds its query called does nothing; another one calls it.
LEMMA TimerHandlerStep ==
    ASSUME MdnsInv, NEW n, TimerHandler(n) PROVE MdnsInv'
<1>1. q \in Seq(GoodQuery) /\ n \in DOMAIN q
  BY DEF MdnsInv, TimerHandler
<1>2. q[n] \in GoodQuery
  BY <1>1
<1>3. CASE q[n].fired
  <2> DEFINE c == q[n]
             d == [c EXCEPT !.timer = "off"]
  <2>1. q' = [q EXCEPT ![n] = d] /\ posted' = posted
    BY <1>3 DEF TimerHandler
  <2>2. c \in GoodQuery /\ c.fired
    BY <1>2, <1>3
  <2> HIDE DEF c
  <2>3. d \in QueryType /\ d.pending = c.pending /\ d.fired = c.fired /\ d.calls = c.calls
    BY <2>2 DEF GoodQuery, QueryType
  <2>4. ~c.pending /\ c.fired /\ c.calls = 1
    BY <2>2 DEF GoodQuery
  <2> HIDE DEF d
  <2>5. d \in GoodQuery
    BY <2>3, <2>4 DEF GoodQuery
  <2>6. q' \in Seq(GoodQuery)
    BY <1>1, <2>1, <2>5, QueryChanges
  <2> QED BY <2>1, <2>6 DEF TimerHandler, MdnsInv, manager
<1>4. CASE ~q[n].fired
  <2> DEFINE d == [Called(q[n]) EXCEPT !.timer = "off"]
             m == Message(q[n], q[n].accumulated)
  <2>1. q' = [q EXCEPT ![n] = d] /\ posted' = Append(posted, m)
    BY <1>4 DEF TimerHandler
  <2>2. /\ q[n] \in QueryType /\ q[n].pending /\ q[n].calls = 0
        /\ q[n].accumulated \in Seq(AddrsOf(q[n].hostname))
    BY <1>2, <1>4 DEF GoodQuery
  <2>3. d \in GoodQuery
    BY <2>2, CalledType
  <2>4. m \in GoodMessage
    BY <1>2, <2>2, MessageType
  <2> HIDE DEF d, m
  <2>5. q' \in Seq(GoodQuery)
    BY <1>1, <2>1, <2>3, QueryChanges
  <2>6. posted' \in Seq(GoodMessage)
    BY <2>1, <2>4 DEF MdnsInv
  <2> QED BY <2>5, <2>6 DEF TimerHandler, MdnsInv, manager
<1> QED BY <1>3, <1>4

\* A candidate as the peer sent it.
LEMMA UnresolvedType == \A o \in Offers : Unresolved(o) \in GoodRemote
<1>1. ASSUME NEW o \in Offers PROVE Unresolved(o) \in GoodRemote
  <2>1. o[1] \in Hosts /\ o[2] \in Ports
    BY DEF Hosts, Ports
  <2>2. Unresolved(o) \in RemoteType
    BY <2>1 DEF Unresolved, RemoteType
  <2> QED BY <2>2 DEF Unresolved, GoodRemote
<1> QED BY <1>1

\* Candidates the peer sends are merged, and asked for.
LEMMA AddRemoteStep == ASSUME MdnsInv, add_remote_candidates PROVE MdnsInv'
<1>1. PICK o \in Offers, changed \in BOOLEAN, locals \in BOOLEAN :
         LET list == Merge(IF changed THEN <<>> ELSE remote, Unresolved(o))
         IN IF state = "Waiting"
            THEN /\ remote' = list
                 /\ state' = IF locals THEN "Checking" ELSE state
                 /\ UNCHANGED <<q, posted>>
            ELSE AskFor(list) /\ UNCHANGED state
  BY DEF add_remote_candidates
<1> DEFINE old == IF changed THEN <<>> ELSE remote
           list == Merge(old, Unresolved(o))
<1>2. old \in Seq(GoodRemote)
  BY DEF MdnsInv
<1>3. Unresolved(o) \in GoodRemote
  BY UnresolvedType
<1>4. /\ state = "Waiting" => /\ remote' = list /\ UNCHANGED <<q, posted>>
                              /\ state' \in {"Waiting", "Checking"}
      /\ state # "Waiting" => AskFor(list) /\ UNCHANGED state
  BY <1>1
<1> HIDE DEF old
<1>5. list \in Seq(GoodRemote)
  BY <1>2, <1>3 DEF Merge
<1> HIDE DEF list
<1>6. UNCHANGED <<manager, failed>>
  BY DEF add_remote_candidates
<1>7. CASE state = "Waiting"
  BY <1>4, <1>5, <1>6, <1>7 DEF MdnsInv, manager
<1>8. CASE state # "Waiting"
  <2>1. /\ q' \in Seq(GoodQuery) /\ posted' \in Seq(GoodMessage)
        /\ remote' \in Seq(GoodRemote)
    BY <1>4, <1>5, <1>8, AskForType
  <2> QED BY <1>4, <1>6, <1>8, <2>1 DEF MdnsInv, manager
<1> QED BY <1>7, <1>8

\* An answer resolves the candidate it is for, or nothing.
LEMMA RunPostedStep == ASSUME MdnsInv, RunPosted PROVE MdnsInv'
<1> DEFINE m == Head(posted)
<1>1. posted \in Seq(GoodMessage) /\ posted # <<>> /\ posted' = Tail(posted)
  BY DEF MdnsInv, RunPosted
<1>2. m \in GoodMessage /\ posted' \in Seq(GoodMessage)
  BY <1>1
<1>3. /\ \/ UNCHANGED <<state, remote>>
         \/ /\ \E port \in Ports : remote' = OnResolved(remote, m, port)
            /\ state' = state \/ state' = "Checking"
      /\ UNCHANGED <<q, manager, failed>>
  BY DEF RunPosted
<1> HIDE DEF m
<1>4. remote' \in Seq(GoodRemote)
  BY <1>2, <1>3, OnResolvedType DEF MdnsInv
<1> QED BY <1>2, <1>3, <1>4 DEF MdnsInv, manager

\* The steps of the manager and of the session that touch no query.
LEMMA OtherSteps ==
    ASSUME MdnsInv, \/ start \/ stop \/ register_name \/ unregister_name \/ ReceiveEnds
                    \/ restart \/ fail \/ Nominated
    PROVE  MdnsInv'
<1>1. CASE start
  BY <1>1 DEF start, MdnsInv, session
<1>2. CASE stop
  BY <1>2 DEF stop, MdnsInv, session
<1>3. CASE register_name
  BY <1>3 DEF register_name, MdnsInv, session
<1>4. CASE unregister_name
  BY <1>4 DEF unregister_name, MdnsInv, session
<1>5. CASE ReceiveEnds
  BY <1>5 DEF ReceiveEnds, MdnsInv, session
<1>6. CASE restart
  <2>1. remote' \in Seq(GoodRemote)
    BY <1>6 DEF restart
  <2> QED BY <1>6, <2>1 DEF restart, MdnsInv, manager
<1>7. CASE fail
  BY <1>7 DEF fail, MdnsInv, manager
<1>8. CASE Nominated
  BY <1>8 DEF Nominated, MdnsInv, manager
<1> QED BY <1>1, <1>2, <1>3, <1>4, <1>5, <1>6, <1>7, <1>8

\* No query, no answer and no candidate at first.
LEMMA MdnsInit == Init => MdnsInv
<1> SUFFICES ASSUME Init PROVE MdnsInv
  OBVIOUS
<1>1. <<>> \in Seq(GoodQuery) /\ <<>> \in Seq(GoodMessage) /\ <<>> \in Seq(GoodRemote)
  OBVIOUS
<1> QED BY <1>1 DEF Init, MdnsInv

\* Every step of the resolver and of the session keeps the invariant.
LEMMA MdnsStep == MdnsInv /\ [Next]_vars => MdnsInv'
<1> SUFFICES ASSUME MdnsInv, [Next]_vars PROVE MdnsInv'
  OBVIOUS
<1>1. CASE UNCHANGED vars
  BY <1>1 DEF vars, manager, session, MdnsInv
<1>2. CASE \E n \in Ids : TimerExpires(n) \/ TimerHandler(n)
  BY <1>2, TimerExpiresStep, TimerHandlerStep
<1>3. CASE \/ start \/ stop \/ register_name \/ unregister_name \/ ReceiveEnds
           \/ restart \/ fail \/ Nominated
  BY <1>3, OtherSteps
<1> QED BY <1>1, <1>2, <1>3, StopTaskStep, PacketStep, AddRemoteStep, RunPostedStep
        DEF Next

\* The invariant holds at all times.
LEMMA MdnsAlways == Spec => []MdnsInv
BY MdnsInit, MdnsStep, PTL DEF Spec

\* The queries, the candidates and the answers have their types, and a
\* candidate has a hostname exactly as long as it is unresolved.
THEOREM MdnsTypes == Spec => []TypeOK
<1>1. MdnsInv => TypeOK
  <2> SUFFICES ASSUME MdnsInv PROVE TypeOK
    OBVIOUS
  <2>1. q \in Seq(QueryType)
    <3>1. GoodQuery \subseteq QueryType
      BY DEF GoodQuery
    <3> QED BY <3>1, SeqOver DEF MdnsInv
  <2>2. remote \in Seq(RemoteType)
    <3>1. GoodRemote \subseteq RemoteType
      BY DEF GoodRemote
    <3> QED BY <3>1, SeqOver DEF MdnsInv
  <2>3. posted \in Seq([idx : Nat \ {0}, hostname : Hosts, addrs : Seq(Addrs)])
    <3>1. GoodMessage \subseteq [idx : Nat \ {0}, hostname : Hosts, addrs : Seq(Addrs)]
      BY DEF GoodMessage
    <3> QED BY <3>1, SeqOver DEF MdnsInv
  <2>4. \A i \in DOMAIN remote : remote[i].type = "Host" <=> remote[i].hostname = None
    <3>1. \A i \in DOMAIN remote : remote[i] \in GoodRemote
      BY DEF MdnsInv
    <3>2. ASSUME NEW c \in GoodRemote PROVE c.type = "Host" <=> c.hostname = None
      <4>1. c.origin \in Hosts /\ c.origin # None
        BY MdnsAssumption DEF GoodRemote, RemoteType
      <4> QED BY <4>1 DEF GoodRemote
    <3> QED BY <3>1, <3>2
  <2> QED BY <2>1, <2>2, <2>3, <2>4 DEF MdnsInv, TypeOK
<1> QED BY <1>1, MdnsAlways, PTL

\* No callback of resolve() is called twice, whatever the order in which a
\* packet, an expired timer and stop() come to it, and one that was not
\* called yet is in the table with its timer running.
THEOREM MdnsCalledOnce == Spec => []CalledOnce
<1>1. MdnsInv => CalledOnce
  <2> SUFFICES ASSUME MdnsInv PROVE CalledOnce
    OBVIOUS
  <2>1. \A n \in DOMAIN q : q[n] \in GoodQuery
    BY DEF MdnsInv
  <2>2. ASSUME NEW c \in GoodQuery
        PROVE  c.calls <= 1 /\ (c.calls = 0 => c.pending /\ c.timer # "off")
    <3>1. 0 <= 1 /\ 1 <= 1 /\ 1 # 0
      OBVIOUS
    <3> QED BY <3>1 DEF GoodQuery
  <2> QED BY <2>1, <2>2 DEF CalledOnce
<1> QED BY <1>1, MdnsAlways, PTL

\* An address is given only to a candidate whose name it belongs to, however
\* the candidates changed between the question and the answer.
THEOREM MdnsAddresses == Spec => []AddressBelongs
<1>1. MdnsInv => AddressBelongs
  <2> SUFFICES ASSUME MdnsInv PROVE AddressBelongs
    OBVIOUS
  <2>1. \A i \in DOMAIN remote : remote[i] \in GoodRemote
    BY DEF MdnsInv
  <2>2. ASSUME NEW c \in GoodRemote, c.addr # None
        PROVE  <<c.origin, c.addr>> \in Answers
    BY <2>2 DEF GoodRemote, AddrsOf
  <2> QED BY <2>1, <2>2 DEF AddressBelongs
<1> QED BY <1>1, MdnsAlways, PTL

-----------------------------------------------------------------------------

\* An answer for the entry i with the name h is still to come: a query is in
\* the table, or its answer is on the session's strand.
Awaited(i, h) ==
    \/ \E n \in DOMAIN q : q[n].pending /\ q[n].idx = i /\ q[n].hostname = h
    \/ \E k \in DOMAIN posted : posted[k].idx = i /\ posted[k].hostname = h

\* A candidate that was asked for and has no address yet awaits an answer that
\* will find it: nothing that happens to the resolver or to the candidates in
\* between leaves it without one, unless the session fails.
AnswerComes ==
    ~failed => \A i \in DOMAIN remote :
       remote[i].asked /\ remote[i].type = "HostMdns" => Awaited(i, remote[i].hostname)

\* It is inductive with MdnsInv, and since failed remembers a failure.
AwaitInv == MdnsInv /\ (state = "Failed" => failed) /\ AnswerComes

\* An enumeration of a finite set leaves out none of its elements.
LEMMA EnumerationIsOnto ==
    ASSUME NEW S, IsFiniteSet(S), NEW o \in SetToSeqs(S)
    PROVE  \A x \in S : \E k \in DOMAIN o : o[k] = x
<1> DEFINE n == Cardinality(S)
<1>1. n \in Nat /\ o \in [1..n -> S] /\ DOMAIN o = 1..n
  BY EnumerationIsSeq
<1>2. \A i, j \in 1..n : i # j => o[i] # o[j]
  BY DEF SetToSeqs
<1>3. o \in Injection(1..n, S)
  BY <1>1, <1>2 DEF Injection, IsInjective
<1>4. Cardinality(1..n) = n
  <2>1. 1 \in Int /\ n \in Int /\ ~(1 > n /\ n # 0)
    BY <1>1
  <2>2. Cardinality(1..n) = IF 1 > n THEN 0 ELSE n - 1 + 1
    BY <2>1, FS_Interval
  <2> DEFINE c == Cardinality(1..n)
             d == n
  <2>3. d \in Nat /\ c = IF 1 > d THEN 0 ELSE d - 1 + 1
    BY <1>1, <2>2
  <2> HIDE DEF c, d
  <2>4. c = d
    BY <2>3
  <2> QED BY <2>4 DEF c, d
<1>5. o \in Surjection(1..n, S)
  BY <1>3, <1>4, FS_Injection
<1> QED BY <1>1, <1>5 DEF Surjection

\* What is appended to a list comes after what was there.
LEMMA Appended ==
    ASSUME NEW T, NEW s \in Seq(T), NEW t \in Seq(T)
    PROVE  /\ \A k \in DOMAIN s : k \in DOMAIN (s \o t) /\ (s \o t)[k] = s[k]
           /\ \A k \in DOMAIN t : /\ Len(s) + k \in DOMAIN (s \o t)
                                  /\ (s \o t)[Len(s) + k] = t[k]
OBVIOUS

\* A query that is called becomes an answer.
LEMMA FireAwaited ==
    ASSUME MdnsInv, NEW S \in SUBSET DOMAIN q, NEW got, Fire(S, got),
           \A n \in S : q[n].pending /\ got[n] \in Seq(AddrsOf(q[n].hostname)),
           NEW i, NEW h, Awaited(i, h)
    PROVE  Awaited(i, h)'
<1>1. q \in Seq(GoodQuery) /\ Len(q) \in Nat /\ DOMAIN q = 1..Len(q)
  BY DEF MdnsInv
<1>2. PICK o \in Orders(S) :
         posted' = posted \o [k \in DOMAIN o |-> Message(q[o[k]], got[o[k]])]
  BY DEF Fire
<1>3. IsFiniteSet(S)
  <2>1. IsFiniteSet(1..Len(q)) /\ S \in SUBSET (1..Len(q))
    BY <1>1, FS_Interval
  <2> QED BY <2>1, FS_Subset
<1>4. o \in SetToSeqs(S)
  BY DEF Orders
<1>5. /\ Cardinality(S) \in Nat /\ o \in [1..Cardinality(S) -> S]
      /\ DOMAIN o = 1..Cardinality(S)
  BY <1>3, <1>4, EnumerationIsSeq
<1> DEFINE new == [k \in DOMAIN o |-> Message(q[o[k]], got[o[k]])]
<1>6. new \in Seq(GoodMessage)
  <2>1. \A n \in DOMAIN q : q[n] \in GoodQuery
    BY <1>1
  <2>2. \A n \in S : Message(q[n], got[n]) \in GoodMessage
    BY <2>1, MessageType
  <2>3. new \in [1..Cardinality(S) -> GoodMessage]
    BY <1>5, <2>2
  <2> HIDE DEF new
  <2> QED BY <1>5, <2>3, FunctionIsSeq
<1>7. posted' = posted \o new /\ DOMAIN new = DOMAIN o
  BY <1>2
<1>8. \A k \in DOMAIN o : new[k].idx = q[o[k]].idx /\ new[k].hostname = q[o[k]].hostname
  BY DEF Message
<1> HIDE DEF new
<1>9. posted \in Seq(GoodMessage)
  BY DEF MdnsInv
<1>10. CASE \E k \in DOMAIN posted : posted[k].idx = i /\ posted[k].hostname = h
  <2>1. PICK k \in DOMAIN posted : posted[k].idx = i /\ posted[k].hostname = h
    BY <1>10
  <2>2. k \in DOMAIN posted' /\ posted'[k] = posted[k]
    BY <1>6, <1>7, <1>9, Appended
  <2> QED BY <2>1, <2>2 DEF Awaited
<1>11. CASE \E n \in DOMAIN q : q[n].pending /\ q[n].idx = i /\ q[n].hostname = h
  <2>1. PICK n \in DOMAIN q : q[n].pending /\ q[n].idx = i /\ q[n].hostname = h
    BY <1>11
  <2>2. CASE n \in S
    <3>1. PICK k \in DOMAIN o : o[k] = n
      BY <1>3, <1>4, <2>2, EnumerationIsOnto
    <3>2. new[k].idx = i /\ new[k].hostname = h /\ k \in DOMAIN new
      BY <1>7, <1>8, <2>1, <3>1
    <3>3. Len(posted) + k \in DOMAIN posted' /\ posted'[Len(posted) + k] = new[k]
      BY <1>6, <1>7, <1>9, <3>2, Appended
    <3> QED BY <3>2, <3>3 DEF Awaited
  <2>3. CASE n \notin S
    <3>1. n \in DOMAIN q' /\ q'[n] = q[n]
      BY <2>3 DEF Fire
    <3> QED BY <2>1, <3>1 DEF Awaited
  <2> QED BY <2>2, <2>3
<1> QED BY <1>10, <1>11 DEF Awaited

\* Every name resolve_remote_mdns_candidates asks for is awaited.
LEMMA AskForAwaited ==
    ASSUME MdnsInv, NEW list \in Seq(GoodRemote), AskFor(list)
    PROVE  /\ DOMAIN remote' = DOMAIN list
           /\ \A i \in DOMAIN list : remote'[i].type = "HostMdns" =>
                 Awaited(i, remote[i].hostname)'
<1> DEFINE T == ToAsk(list)
           O == {i \in ToAsk(list) : list[i].hostname \in names}
<1>1. PICK todo \in Ascending(T), own \in Ascending(O) :
         /\ q' = q \o [k \in DOMAIN todo |-> Asked(todo[k], list[todo[k]])]
         /\ posted' = posted \o [k \in DOMAIN own |->
               [idx |-> own[k], hostname |-> list[own[k]].hostname,
                addrs |-> OwnAddrs(list[own[k]].hostname)]]
         /\ remote' = [i \in DOMAIN list |-> [list[i] EXCEPT
                          !.asked = @ \/ i \in ToAsk(list)]]
  BY DEF AskFor
<1>2. Len(list) \in Nat /\ DOMAIN list = 1..Len(list)
  OBVIOUS
<1>3. \A i \in DOMAIN list : list[i] \in GoodRemote /\ i \in Nat \ {0}
  BY <1>2
<1>4. \A i \in DOMAIN list : i \in T <=> list[i].type = "HostMdns"
  BY DEF ToAsk
<1>5. IsFiniteSet(T) /\ IsFiniteSet(O)
  <2>1. IsFiniteSet(1..Len(list))
    BY <1>2, FS_Interval
  <2>2. T \in SUBSET (1..Len(list)) /\ O \in SUBSET (1..Len(list))
    BY <1>2 DEF ToAsk
  <2> QED BY <2>1, <2>2, FS_Subset
<1>6. \A i \in T : i \in DOMAIN list /\ (i \in O <=> list[i].hostname \in names)
  BY DEF ToAsk
<1> HIDE DEF T, O
<1>7. todo \in SetToSeqs(T) /\ own \in SetToSeqs(O)
  BY DEF Ascending
<1>8. /\ Cardinality(T) \in Nat /\ todo \in [1..Cardinality(T) -> T]
      /\ DOMAIN todo = 1..Cardinality(T)
      /\ Cardinality(O) \in Nat /\ own \in [1..Cardinality(O) -> O]
      /\ DOMAIN own = 1..Cardinality(O)
  BY <1>5, <1>7, EnumerationIsSeq
<1> DEFINE asks == [k \in DOMAIN todo |-> Asked(todo[k], list[todo[k]])]
           Own(i) == [idx |-> i, hostname |-> list[i].hostname,
                      addrs |-> OwnAddrs(list[i].hostname)]
           tells == [k \in DOMAIN own |-> Own(own[k])]
<1>9. asks \in Seq(GoodQuery)
  <2>1. \A i \in T : Asked(i, list[i]) \in GoodQuery
    BY <1>3, <1>4, <1>6, AskedType
  <2>2. asks \in [1..Cardinality(T) -> GoodQuery]
    BY <1>8, <2>1
  <2> HIDE DEF asks
  <2> QED BY <1>8, <2>2, FunctionIsSeq
<1>10. tells \in Seq({Own(i) : i \in O})
  <2> DEFINE V == {Own(i) : i \in O}
  <2>1. \A i \in O : Own(i) \in V
    OBVIOUS
  <2>2. tells \in [1..Cardinality(O) -> V]
    BY <1>8, <2>1
  <2> HIDE DEF tells, V
  <2>3. tells \in Seq(V)
    BY <1>8, <2>2, FunctionIsSeq
  <2> QED BY <2>3 DEF V
<1>11. /\ q' = q \o asks /\ posted' = posted \o tells
       /\ DOMAIN asks = DOMAIN todo /\ DOMAIN tells = DOMAIN own
  BY <1>1
<1>12. /\ \A k \in DOMAIN todo : asks[k] = Asked(todo[k], list[todo[k]])
       /\ \A k \in DOMAIN own : /\ tells[k].idx = own[k]
                                /\ tells[k].hostname = list[own[k]].hostname
  OBVIOUS
<1> HIDE DEF asks, tells
<1>13. q \in Seq(GoodQuery) /\ posted \in Seq(GoodMessage)
  BY DEF MdnsInv
<1>14. DOMAIN remote' = DOMAIN list
  BY <1>1
<1>15. \A i \in DOMAIN list : /\ remote'[i].type = list[i].type
                              /\ remote'[i].hostname = list[i].hostname
  <2>1. ASSUME NEW c \in GoodRemote, NEW b
        PROVE  LET d == [c EXCEPT !.asked = b]
               IN d.type = c.type /\ d.hostname = c.hostname
    BY DEF GoodRemote, RemoteType
  <2> QED BY <1>1, <1>3, <2>1
<1>16. ASSUME NEW i \in DOMAIN list, remote'[i].type = "HostMdns"
       PROVE  Awaited(i, remote[i].hostname)'
  <2>1. i \in T /\ remote'[i].hostname = list[i].hostname
    BY <1>4, <1>15, <1>16
  <2>2. CASE list[i].hostname \in names
    <3>1. PICK k \in DOMAIN own : own[k] = i
      BY <1>5, <1>6, <1>7, <2>1, <2>2, EnumerationIsOnto
    <3>2. tells[k].idx = i /\ tells[k].hostname = list[i].hostname
      BY <1>12, <3>1
    <3> DEFINE V == GoodMessage \cup {Own(j) : j \in O}
    <3>3. posted \in Seq(V) /\ tells \in Seq(V)
      <4>1. GoodMessage \subseteq V /\ {Own(j) : j \in O} \subseteq V
        OBVIOUS
      <4> HIDE DEF V, Own
      <4> QED BY <1>10, <1>13, <4>1, SeqOver
    <3> HIDE DEF V
    <3>4. Len(posted) + k \in DOMAIN posted' /\ posted'[Len(posted) + k] = tells[k]
      BY <1>11, <3>3, Appended
    <3> QED BY <2>1, <3>2, <3>4 DEF Awaited
  <2>3. CASE list[i].hostname \notin names
    <3>1. PICK k \in DOMAIN todo : todo[k] = i
      BY <1>5, <1>7, <2>1, EnumerationIsOnto
    <3> DEFINE d == [NoQuery EXCEPT !.hostname = list[i].hostname, !.idx = i,
                                    !.pending = TRUE, !.timer = "armed"]
    <3>2. asks[k] = d
      BY <1>12, <2>3, <3>1 DEF Asked
    <3>3. d.pending /\ d.idx = i /\ d.hostname = list[i].hostname
      BY DEF NoQuery
    <3> HIDE DEF d
    <3>4. Len(q) + k \in DOMAIN q' /\ q'[Len(q) + k] = asks[k]
      BY <1>9, <1>11, <1>13, Appended
    <3> QED BY <2>1, <3>2, <3>3, <3>4 DEF Awaited
  <2> QED BY <2>2, <2>3
<1> QED BY <1>14, <1>16

\* What the callback leaves unresolved is as it was, and not what the answer
\* was for.
LEMMA OnResolvedLeaves ==
    ASSUME NEW list \in Seq(GoodRemote), NEW m \in GoodMessage, NEW port \in Ports,
           NEW i \in DOMAIN OnResolved(list, m, port),
           OnResolved(list, m, port)[i].type = "HostMdns"
    PROVE  /\ i \in DOMAIN list /\ OnResolved(list, m, port)[i] = list[i]
           /\ ~(m.idx = i /\ m.hostname = list[i].hostname)
<1> DEFINE new == OnResolved(list, m, port)
           c == list[m.idx]
<1>1. m.idx \in Nat \ {0} /\ m.addrs \in Seq(AddrsOf(m.hostname))
  BY DEF GoodMessage
<1>2. Len(list) \in Nat /\ DOMAIN list = 1..Len(list)
  OBVIOUS
<1>3. CASE \/ m.idx > Len(list) \/ list[m.idx].type # "HostMdns"
           \/ list[m.idx].hostname # m.hostname
  <2>1. new = list
    BY <1>3 DEF OnResolved
  <2>2. i \in 1..Len(list) /\ list[i].type = "HostMdns"
    BY <1>2, <2>1
  <2>3. ~(m.idx = i /\ m.hostname = list[i].hostname)
    BY <1>2, <1>3, <2>2
  <2> QED BY <2>1, <2>2, <2>3
<1>4. CASE /\ ~(m.idx > Len(list)) /\ list[m.idx].type = "HostMdns"
           /\ list[m.idx].hostname = m.hostname
  <2>1. m.idx \in 1..Len(list) /\ c \in GoodRemote
    BY <1>1, <1>2, <1>4
  <2>2. \A a : Host(c, a).type = "Host"
    BY <2>1 DEF Host, GoodRemote, RemoteType
  <2>3. ASSUME NEW a
        PROVE  LET f == [list EXCEPT ![m.idx] = Host(c, a)]
               IN /\ DOMAIN f = 1..Len(list) /\ f[m.idx].type = "Host"
                  /\ \A j \in 1..Len(list) : j # m.idx => f[j] = list[j]
    BY <1>2, <2>1, <2>2
  <2>4. CASE m.addrs = <<>>
    <3> DEFINE f == [list EXCEPT ![m.idx] = Host(c, None)]
    <3>1. new = f
      BY <1>4, <2>4 DEF OnResolved
    <3>2. /\ DOMAIN f = 1..Len(list) /\ f[m.idx].type = "Host"
          /\ \A j \in 1..Len(list) : j # m.idx => f[j] = list[j]
      BY <2>3
    <3> HIDE DEF f
    <3> QED BY <1>2, <3>1, <3>2
  <2>5. CASE m.addrs # <<>>
    <3> DEFINE f == [list EXCEPT ![m.idx] = Host(c, m.addrs[1])]
               more == [k \in 1..Len(m.addrs) - 1 |->
                          [Host(c, m.addrs[k + 1]) EXCEPT
                              !.port = IF k = 1 THEN @ ELSE port]]
    <3>1. new = f \o more
      BY <1>4, <2>5 DEF OnResolved
    <3>2. /\ DOMAIN f = 1..Len(list) /\ f[m.idx].type = "Host"
          /\ \A j \in 1..Len(list) : j # m.idx => f[j] = list[j]
      BY <2>3
    <3>3. Len(m.addrs) - 1 \in Nat
      BY <1>1, <2>5
    <3>4. \A k \in 1..Len(m.addrs) - 1 : more[k].type = "Host"
      <4>1. ASSUME NEW a, NEW r
            PROVE  [Host(c, a) EXCEPT !.port = r].type = "Host"
        BY <2>1 DEF Host, GoodRemote, RemoteType
      <4> QED BY <4>1
    <3>5. DOMAIN more = 1..Len(m.addrs) - 1
      OBVIOUS
    <3> HIDE DEF f, more
    <3> DEFINE N == Len(list)
               M == Len(m.addrs) - 1
    <3>6. f \in Seq({f[j] : j \in 1..N}) /\ Len(f) = N
      <4>1. f \in [1..N -> {f[j] : j \in 1..N}]
        <5>1. f = [j \in 1..N |-> f[j]]
          BY <3>2 DEF f
        <5> QED BY <5>1, ToItsValues
      <4> QED BY <1>2, <4>1, FunctionIsSeq
    <3>7. more \in Seq({more[j] : j \in 1..M}) /\ Len(more) = M
      <4>1. more \in [1..M -> {more[j] : j \in 1..M}]
        <5>1. more = [j \in 1..M |-> more[j]]
          BY <3>5 DEF more
        <5> HIDE DEF M
        <5> QED BY <5>1, ToItsValues
      <4>2. M \in Nat
        BY <3>3
      <4> HIDE DEF M
      <4> DEFINE V == {more[j] : j \in 1..M}
      <4>3. more \in [1..M -> V]
        BY <4>1
      <4> HIDE DEF V
      <4>4. more \in Seq(V) /\ Len(more) = M
        BY <4>2, <4>3, FunctionIsSeq
      <4> QED BY <4>4 DEF V
    <3>8. /\ DOMAIN new = 1..N + M
          /\ \A j \in 1..N : new[j] = f[j]
          /\ \A j \in N + 1..N + M : new[j] = more[j - N]
      <4>1. ASSUME NEW A, NEW B, NEW s \in Seq(A), NEW t \in Seq(B)
            PROVE  /\ DOMAIN (s \o t) = 1..Len(s) + Len(t)
                   /\ \A j \in 1..Len(s) : (s \o t)[j] = s[j]
                   /\ \A j \in Len(s) + 1..Len(s) + Len(t) : (s \o t)[j] = t[j - Len(s)]
        OBVIOUS
      <4>2. /\ DOMAIN (f \o more) = 1..Len(f) + Len(more)
            /\ \A j \in 1..Len(f) : (f \o more)[j] = f[j]
            /\ \A j \in Len(f) + 1..Len(f) + Len(more) : (f \o more)[j] = more[j - Len(f)]
        <5> DEFINE A == {f[j] : j \in 1..N}
                   B == {more[j] : j \in 1..M}
        <5>1. f \in Seq(A) /\ more \in Seq(B)
          BY <3>6, <3>7
        <5> HIDE DEF A, B
        <5> QED BY <4>1, <5>1
      <4>3. Len(f) = N /\ Len(more) = M
        BY <3>6, <3>7
      <4> HIDE DEF new, N, M
      <4> QED BY <3>1, <4>2, <4>3
    <3> HIDE DEF new, N, M
    <3>9. N \in Nat /\ M \in Nat
      BY <1>2, <3>3 DEF N, M
    <3>10. i \in 1..N
      <4> SUFFICES ASSUME i \notin 1..N PROVE FALSE
        OBVIOUS
      <4>1. i \in N + 1..N + M /\ i - N \in 1..M
        BY <3>8, <3>9 DEF new
      <4>2. new[i].type = "Host"
        BY <3>4, <3>8, <4>1 DEF M
      <4> QED BY <4>2 DEF new
    <3>11. new[i] = f[i] /\ new[i].type = "HostMdns"
      BY <3>8, <3>10 DEF new
    <3> QED BY <1>2, <3>2, <3>10, <3>11 DEF new, N
  <2> QED BY <2>4, <2>5
<1> QED BY <1>3, <1>4

\* What is awaited, and the candidates, stay as they are.
LEMMA AwaitSame ==
    ASSUME AwaitInv, MdnsInv',
           UNCHANGED <<failed, remote>>, state' = "Failed" => failed',
           \A i, h : Awaited(i, h) => Awaited(i, h)'
    PROVE  AwaitInv'
BY DEF AwaitInv, AnswerComes

\* The strand's steps that call queries.
LEMMA AwaitCalled ==
    ASSUME AwaitInv, MdnsInv', \/ StopTask \/ on_packet
    PROVE  AwaitInv'
<1>1. MdnsInv /\ \A n \in DOMAIN q : q[n] \in GoodQuery
  BY DEF AwaitInv, MdnsInv
<1>2. CASE StopTask
  <2> DEFINE S == {n \in DOMAIN q : q[n].pending}
             got == [n \in DOMAIN q |-> q[n].accumulated]
  <2>1. \A n \in S : q[n].pending /\ got[n] \in Seq(AddrsOf(q[n].hostname))
    BY <1>1 DEF GoodQuery
  <2>2. S \in SUBSET DOMAIN q /\ Fire(S, got)
    BY <1>2 DEF StopTask
  <2> HIDE DEF S, got
  <2>3. \A i, h : Awaited(i, h) => Awaited(i, h)'
    BY <1>1, <2>1, <2>2, FireAwaited
  <2>4. UNCHANGED <<failed, remote, state>>
    BY <1>2 DEF StopTask
  <2> QED BY <2>3, <2>4, AwaitSame DEF AwaitInv
<1>3. CASE on_packet
  <2>1. PICK S, got :
           /\ S \in SUBSET DOMAIN q /\ Fire(S, got)
           /\ \A n \in S : q[n].pending /\ got[n] \in Seq(AddrsOf(q[n].hostname))
    BY <1>1, <1>3, PacketFires
  <2>2. \A i, h : Awaited(i, h) => Awaited(i, h)'
    BY <1>1, <2>1, FireAwaited
  <2>3. UNCHANGED <<failed, remote, state>>
    BY <1>3 DEF on_packet
  <2> QED BY <2>2, <2>3, AwaitSame DEF AwaitInv
<1> QED BY <1>2, <1>3

\* A timer that expires leaves its query in the table; its handler calls it.
LEMMA AwaitTimers ==
    ASSUME AwaitInv, MdnsInv', NEW n, \/ TimerExpires(n) \/ TimerHandler(n)
    PROVE  AwaitInv'
<1>1. /\ q \in Seq(GoodQuery) /\ posted \in Seq(GoodMessage) /\ n \in DOMAIN q
      /\ q[n] \in GoodQuery
  BY DEF AwaitInv, MdnsInv, TimerExpires, TimerHandler
<1>2. UNCHANGED <<failed, remote, state>>
  BY DEF TimerExpires, TimerHandler, session
<1>3. \A d : LET f == [q EXCEPT ![n] = d]
             IN /\ DOMAIN f = DOMAIN q /\ f[n] = d
                /\ \A j \in DOMAIN q : j # n => f[j] = q[j]
  BY <1>1
<1>4. CASE TimerExpires(n)
  <2> DEFINE d == [q[n] EXCEPT !.timer = "queued"]
  <2>1. q' = [q EXCEPT ![n] = d] /\ posted' = posted
    BY <1>4 DEF TimerExpires, session
  <2>2. d.pending = q[n].pending /\ d.idx = q[n].idx /\ d.hostname = q[n].hostname
    BY <1>1 DEF GoodQuery, QueryType
  <2> HIDE DEF d
  <2>3. /\ DOMAIN q' = DOMAIN q /\ q'[n] = d
        /\ \A j \in DOMAIN q : j # n => q'[j] = q[j]
    BY <1>3, <2>1
  <2>4. \A i, h : Awaited(i, h) => Awaited(i, h)'
    BY <2>1, <2>2, <2>3 DEF Awaited
  <2> QED BY <1>2, <2>4, AwaitSame DEF AwaitInv
<1>5. CASE TimerHandler(n) /\ q[n].fired
  <2> DEFINE d == [q[n] EXCEPT !.timer = "off"]
  <2>1. q' = [q EXCEPT ![n] = d] /\ posted' = posted
    BY <1>5 DEF TimerHandler
  <2>2. ~q[n].pending
    BY <1>1, <1>5 DEF GoodQuery
  <2> HIDE DEF d
  <2>3. /\ DOMAIN q' = DOMAIN q
        /\ \A j \in DOMAIN q : j # n => q'[j] = q[j]
    BY <1>3, <2>1
  <2>4. \A i, h : Awaited(i, h) => Awaited(i, h)'
    BY <2>1, <2>2, <2>3 DEF Awaited
  <2> QED BY <1>2, <2>4, AwaitSame DEF AwaitInv
<1>6. CASE TimerHandler(n) /\ ~q[n].fired
  <2> DEFINE d == [Called(q[n]) EXCEPT !.timer = "off"]
             m == Message(q[n], q[n].accumulated)
  <2>1. q' = [q EXCEPT ![n] = d] /\ posted' = Append(posted, m)
    BY <1>6 DEF TimerHandler
  <2>2. m.idx = q[n].idx /\ m.hostname = q[n].hostname
    BY DEF Message
  <2> HIDE DEF d, m
  <2>3. /\ DOMAIN q' = DOMAIN q
        /\ \A j \in DOMAIN q : j # n => q'[j] = q[j]
    BY <1>3, <2>1
  <2>4. /\ \A k \in DOMAIN posted : k \in DOMAIN posted' /\ posted'[k] = posted[k]
        /\ Len(posted) + 1 \in DOMAIN posted' /\ posted'[Len(posted) + 1] = m
    BY <1>1, <2>1
  <2>5. ASSUME NEW i, NEW h, Awaited(i, h) PROVE Awaited(i, h)'
    <3>1. CASE \E k \in DOMAIN posted : posted[k].idx = i /\ posted[k].hostname = h
      BY <2>4, <3>1 DEF Awaited
    <3>2. CASE \E j \in DOMAIN q : q[j].pending /\ q[j].idx = i /\ q[j].hostname = h
      <4>1. PICK j \in DOMAIN q : q[j].pending /\ q[j].idx = i /\ q[j].hostname = h
        BY <3>2
      <4>2. CASE j = n
        BY <2>2, <2>4, <4>1, <4>2 DEF Awaited
      <4>3. CASE j # n
        BY <2>3, <4>1, <4>3 DEF Awaited
      <4> QED BY <4>2, <4>3
    <3> QED BY <2>5, <3>1, <3>2 DEF Awaited
  <2> QED BY <1>2, <2>5, AwaitSame DEF AwaitInv
<1> QED BY <1>4, <1>5, <1>6

\* A batch keeps the candidates that wait, or asks for all that have no
\* address.
LEMMA AwaitAddRemote ==
    ASSUME AwaitInv, MdnsInv', add_remote_candidates
    PROVE  AwaitInv'
<1>1. PICK o \in Offers, changed \in BOOLEAN, locals \in BOOLEAN :
         LET list == Merge(IF changed THEN <<>> ELSE remote, Unresolved(o))
         IN IF state = "Waiting"
            THEN /\ remote' = list
                 /\ state' = IF locals THEN "Checking" ELSE state
                 /\ UNCHANGED <<q, posted>>
            ELSE AskFor(list) /\ UNCHANGED state
  BY DEF add_remote_candidates
<1> DEFINE old == IF changed THEN <<>> ELSE remote
           u == Unresolved(o)
           list == Merge(old, u)
<1>2. old \in Seq(GoodRemote)
  BY DEF AwaitInv, MdnsInv
<1>3. u \in GoodRemote /\ ~u.asked
  BY UnresolvedType DEF Unresolved
<1>4. /\ state = "Waiting" => /\ remote' = list /\ UNCHANGED <<q, posted>>
                              /\ state' \in {"Waiting", "Checking"}
      /\ state # "Waiting" => AskFor(list) /\ UNCHANGED state
  BY <1>1
<1>5. \A i \in DOMAIN old : i \in DOMAIN remote /\ old[i] = remote[i]
  OBVIOUS
<1> HIDE DEF old, u
<1>6. list \in Seq(GoodRemote)
  BY <1>2, <1>3 DEF Merge
<1>7. \A i \in DOMAIN list : (i \in DOMAIN old /\ list[i] = old[i]) \/ list[i] = u
  <2>1. list = old \/ list = Append(old, u)
    BY DEF Merge
  <2> HIDE DEF list
  <2> QED BY <1>2, <2>1
<1> HIDE DEF list
<1>8. UNCHANGED failed
  BY DEF add_remote_candidates
<1>9. CASE state = "Waiting"
  <2>1. AnswerComes'
    <3> SUFFICES ASSUME ~failed', NEW i \in DOMAIN remote', remote'[i].asked,
                        remote'[i].type = "HostMdns"
                 PROVE  Awaited(i, remote[i].hostname)'
      BY DEF AnswerComes
    <3>1. i \in DOMAIN remote /\ remote'[i] = remote[i]
      BY <1>3, <1>4, <1>5, <1>7, <1>9
    <3>2. Awaited(i, remote[i].hostname)
      BY <1>8, <3>1 DEF AwaitInv, AnswerComes
    <3> QED BY <1>4, <1>9, <3>1, <3>2 DEF Awaited
  <2> QED BY <1>4, <1>9, <2>1 DEF AwaitInv
<1>10. CASE state # "Waiting"
  <2>1. /\ DOMAIN remote' = DOMAIN list
        /\ \A i \in DOMAIN list : remote'[i].type = "HostMdns" =>
              Awaited(i, remote[i].hostname)'
    BY <1>4, <1>6, <1>10, AskForAwaited DEF AwaitInv
  <2>2. AnswerComes'
    BY <2>1 DEF AnswerComes
  <2> QED BY <1>4, <1>8, <1>10, <2>2 DEF AwaitInv
<1> QED BY <1>9, <1>10

\* An answer that is for no candidate leaves those that wait; one that is for a
\* candidate settles it.
LEMMA AwaitRunPosted ==
    ASSUME AwaitInv, MdnsInv', RunPosted
    PROVE  AwaitInv'
<1> DEFINE m == Head(posted)
<1>1. posted \in Seq(GoodMessage) /\ posted # <<>> /\ posted' = Tail(posted)
  BY DEF AwaitInv, MdnsInv, RunPosted
<1>2. m \in GoodMessage /\ m = posted[1]
  BY <1>1
<1>3. \A k \in DOMAIN posted : k # 1 => k - 1 \in DOMAIN posted' /\ posted'[k - 1] = posted[k]
  BY <1>1
<1>4. UNCHANGED <<q, failed>>
  BY DEF RunPosted
<1>5. CASE state = "Failed"
  <2>1. failed /\ failed' /\ state' = "Failed"
    BY <1>4, <1>5 DEF AwaitInv, RunPosted
  <2> QED BY <2>1 DEF AwaitInv, AnswerComes
<1>6. CASE state # "Failed"
  <2>1. PICK port \in Ports : remote' = OnResolved(remote, m, port)
    BY <1>6 DEF RunPosted
  <2>2. state' # "Failed"
    BY <1>6 DEF RunPosted
  <2> HIDE DEF m
  <2>3. remote \in Seq(GoodRemote)
    BY DEF AwaitInv, MdnsInv
  <2>4. ASSUME ~failed', NEW i \in DOMAIN remote', remote'[i].asked,
               remote'[i].type = "HostMdns"
        PROVE  Awaited(i, remote[i].hostname)'
    <3>1. /\ i \in DOMAIN remote /\ remote'[i] = remote[i]
          /\ ~(m.idx = i /\ m.hostname = remote[i].hostname)
      BY <1>2, <2>1, <2>3, <2>4, OnResolvedLeaves
    <3>2. Awaited(i, remote[i].hostname)
      BY <1>4, <2>4, <3>1 DEF AwaitInv, AnswerComes
    <3>3. CASE \E n \in DOMAIN q : /\ q[n].pending /\ q[n].idx = i
                                   /\ q[n].hostname = remote[i].hostname
      BY <1>4, <3>1, <3>3 DEF Awaited
    <3>4. CASE \E k \in DOMAIN posted : /\ posted[k].idx = i
                                        /\ posted[k].hostname = remote[i].hostname
      <4>1. PICK k \in DOMAIN posted : /\ posted[k].idx = i
                                       /\ posted[k].hostname = remote[i].hostname
        BY <3>4
      <4>2. k # 1
        BY <1>2, <3>1, <4>1
      <4> QED BY <1>3, <3>1, <4>1, <4>2 DEF Awaited
    <3> QED BY <3>2, <3>3, <3>4 DEF Awaited
  <2>5. AnswerComes'
    BY <2>4 DEF AnswerComes
  <2> QED BY <2>2, <2>5 DEF AwaitInv
<1> QED BY <1>5, <1>6

\* Every step of the resolver and of the session keeps answers coming.
LEMMA AwaitStep == AwaitInv /\ [Next]_vars => AwaitInv'
<1> SUFFICES ASSUME AwaitInv, [Next]_vars PROVE AwaitInv'
  OBVIOUS
<1>1. MdnsInv'
  BY MdnsStep DEF AwaitInv
<1>2. CASE UNCHANGED vars
  BY <1>1, <1>2 DEF vars, session, AwaitInv, AnswerComes, Awaited
<1>3. CASE \E n \in Ids : TimerExpires(n) \/ TimerHandler(n)
  BY <1>1, <1>3, AwaitTimers
<1>4. CASE \/ start \/ stop \/ register_name \/ unregister_name \/ ReceiveEnds
  <2>1. UNCHANGED <<q, session>>
    BY <1>4 DEF start, stop, register_name, unregister_name, ReceiveEnds
  <2> QED BY <1>1, <2>1 DEF session, AwaitInv, AnswerComes, Awaited
<1>5. CASE restart
  <2>1. remote' = <<>> /\ state' # "Failed"
    BY <1>5 DEF restart
  <2>2. AnswerComes'
    BY <2>1 DEF AnswerComes
  <2> QED BY <1>1, <2>1, <2>2 DEF AwaitInv
<1>6. CASE fail
  BY <1>1, <1>6 DEF fail, AwaitInv, AnswerComes
<1>7. CASE Nominated
  <2>1. failed' /\ state' # "Failed"
    BY <1>7 DEF Nominated, AwaitInv
  <2> QED BY <1>1, <2>1 DEF AwaitInv, AnswerComes
<1> QED BY <1>1, <1>2, <1>3, <1>4, <1>5, <1>6, <1>7, AwaitCalled, AwaitAddRemote,
           AwaitRunPosted
        DEF Next

\* As long as the session has not failed, a candidate that was asked for and has
\* no address awaits an answer that will find it.  With the fairness of the
\* timers and of the strands this is why it does not stay unresolved.
THEOREM MdnsAnswerComes == Spec => []AnswerComes
<1>1. Init => AwaitInv
  <2> SUFFICES ASSUME Init PROVE AwaitInv
    OBVIOUS
  <2>1. remote = <<>> /\ state # "Failed"
    BY DEF Init
  <2>2. AnswerComes
    BY <2>1 DEF AnswerComes
  <2> QED BY <2>1, <2>2, MdnsInit DEF AwaitInv
<1>2. AwaitInv => AnswerComes
  BY DEF AwaitInv
<1> QED BY <1>1, <1>2, AwaitStep, PTL DEF Spec
=============================================================================
