--------------------------- MODULE PathMtuProofs ---------------------------
(***************************************************************************)
(* Proofs about PathMtu, for every floor, ladder, granularity, loss        *)
(* threshold, set of path widths and bound.  The last part bounds the      *)
(* number of probes a search takes (Funded).                               *)
(***************************************************************************)
EXTENDS PathMtu, WellFoundedInduction, TLAPS

\* A non-empty set of naturals has a least element, and Lowest picks it.
LEMMA LowestIsLeast ==
    ASSUME NEW S, S \subseteq Nat, S # {}
    PROVE  Lowest(S) \in S /\ \A t \in S : Lowest(S) <= t
<1>1. PICK s \in S : \A t \in S : ~ (<<t, s>> \in OpToRel(<, Nat))
  BY NatLessThanWellFounded, WFMin, Zenon
<1>2. \A a, b \in Nat : a < b => <<a, b>> \in OpToRel(<, Nat)
  BY Zenon DEF OpToRel
<1>3. \A t \in S : t \in Nat /\ s \in Nat
  OBVIOUS
<1>4. \A t \in S : ~ (t < s)
  BY <1>1, <1>2, <1>3, Zenon
<1>5. \A t \in S : s <= t
  BY <1>4
<1> QED
  BY <1>5 DEF Lowest

-----------------------------------------------------------------------------

ProbeType == [state: {"None", "Searching", "SearchComplete"}, effective: Nat,
              current: Nat, high: Nat, loss: Nat]

\* What holds of the search whatever happened to its probes.
ProbeInv(p) ==
    /\ p \in ProbeType
    /\ Base <= p.effective
    /\ p.state = "Searching" => /\ p.effective < p.current
                                /\ p.high # 0 => p.current < p.high
    /\ p.state = "SearchComplete" => \/ Above(p.effective) = {}
                                     \/ p.high - p.effective \in 1..Granularity

\* The rungs are naturals above the floor, the rungs above r are above r.
LEMMA LadderFacts ==
    /\ Ladder \subseteq Nat
    /\ \A s \in Ladder : s > Base
    /\ \A r \in Nat : Above(r) \subseteq Nat /\ \A s \in Above(r) : s > r
<1>1. SearchSteps \subseteq Int /\ Base \in Nat
  BY MtuAssumption
<1>2. \A s \in Ladder : s \in Nat /\ s > Base
  BY <1>1 DEF Ladder
<1> QED
  BY <1>2 DEF Above

\* The constructor of PathMtuProbe establishes the search invariant.
LEMMA NewProbeInv == ProbeInv(NewProbe) /\ NewProbe.state # "None" /\ NewProbe.effective = Base
<1>1. Ladder \subseteq Nat /\ \A s \in Ladder : s > Base
  BY LadderFacts
<1>2. Base \in Nat /\ NoProbe \in ProbeType /\ NoProbe.effective = Base /\ NoProbe.high = 0
  BY MtuAssumption DEF NoProbe, ProbeType
<1>3. CASE Ladder = {}
  <2>1. Above(Base) = {}
    BY <1>3 DEF Above
  <2>2. NewProbe = Complete(NoProbe)
    BY <1>3 DEF NewProbe
  <2>3. NewProbe \in ProbeType /\ NewProbe.state = "SearchComplete" /\ NewProbe.effective = Base
    BY <1>2, <2>2 DEF Complete, ProbeType
  <2> QED
    BY <1>2, <2>1, <2>3 DEF ProbeInv
<1>4. CASE Ladder # {}
  <2>1. Lowest(Ladder) \in Nat /\ Lowest(Ladder) > Base
    BY <1>1, <1>4, LowestIsLeast
  <2>2. NewProbe = [NoProbe EXCEPT !.state = "Searching", !.current = Lowest(Ladder)]
    BY <1>4 DEF NewProbe
  <2>3. /\ NewProbe \in ProbeType
        /\ NewProbe.state = "Searching"
        /\ NewProbe.effective = Base
        /\ NewProbe.current = Lowest(Ladder)
        /\ NewProbe.high = 0
    BY <1>2, <2>1, <2>2 DEF ProbeType
  <2> QED
    BY <1>2, <2>1, <2>3 DEF ProbeInv
<1> QED
  BY <1>3, <1>4

\* Bisecting a search whose failing size lies above its confirmed one keeps the
\* search invariant.
LEMMA BisectInv ==
    ASSUME NEW p \in ProbeType, Base <= p.effective, p.effective < p.high,
           p.state = "Searching"
    PROVE  ProbeInv(Bisect(p)) /\ Bisect(p).effective = p.effective /\ Bisect(p).state # "None"
<1>1. CASE p.high - p.effective <= Granularity
  <2>1. Bisect(p) = Complete(p)
    BY <1>1 DEF Bisect
  <2>2. Complete(p) \in ProbeType /\ Complete(p).state = "SearchComplete"
        /\ Complete(p).effective = p.effective /\ Complete(p).high = p.high
    BY DEF ProbeType, Complete
  <2>3. p.high - p.effective \in 1..Granularity
    BY <1>1, MtuAssumption DEF ProbeType
  <2> QED
    BY <2>1, <2>2, <2>3 DEF ProbeInv
<1>2. CASE ~ (p.high - p.effective <= Granularity)
  <2> DEFINE mid == (p.effective + p.high) \div 2
  <2>1. p.high >= p.effective + 2
    BY <1>2, MtuAssumption DEF ProbeType
  <2>2. mid \in Nat /\ p.effective < mid /\ mid < p.high
    BY <2>1, MtuAssumption DEF ProbeType
  <2> HIDE DEF mid
  <2>3. Bisect(p) = [p EXCEPT !.current = mid]
    BY <1>2 DEF Bisect, mid
  <2> QED
    BY <2>2, <2>3 DEF ProbeInv, ProbeType
<1> QED
  BY <1>1, <1>2

\* An answered probe confirms exactly the size under probe.
LEMMA AckInv ==
    ASSUME NEW p, ProbeInv(p), p.state = "Searching"
    PROVE  /\ ProbeInv(on_probe_ack(p))
           /\ on_probe_ack(p).effective = p.current
           /\ on_probe_ack(p).state # "None"
<1> DEFINE q == [p EXCEPT !.effective = p.current, !.loss = 0]
<1>1. q \in ProbeType /\ Base <= q.effective /\ q.effective = p.current
      /\ q.state = "Searching" /\ q.high = p.high
  <2>1. p \in ProbeType /\ Base <= p.effective /\ p.effective < p.current
    BY DEF ProbeInv
  <2>2. q \in ProbeType
    BY <2>1 DEF ProbeType
  <2>3. q.effective = p.current /\ q.state = "Searching" /\ q.high = p.high
    BY <2>1 DEF ProbeType
  <2>4. Base \in Nat
    BY MtuAssumption
  <2> QED
    BY <2>1, <2>2, <2>3, <2>4 DEF ProbeType
<1>2. CASE p.high # 0
  <2>1. on_probe_ack(p) = Bisect(q)
    BY <1>2 DEF on_probe_ack
  <2>2. q.effective < q.high
    BY <1>1, <1>2 DEF ProbeInv
  <2> HIDE DEF q
  <2> QED
    BY <1>1, <2>1, <2>2, BisectInv
<1>3. CASE p.high = 0 /\ Above(p.current) = {}
  <2>1. on_probe_ack(p) = Complete(q)
    BY <1>3 DEF on_probe_ack
  <2> HIDE DEF q
  <2> QED
    BY <1>1, <1>3, <2>1 DEF ProbeInv, ProbeType, Complete
<1>4. CASE p.high = 0 /\ Above(p.current) # {}
  <2>1. on_probe_ack(p) = [q EXCEPT !.current = Lowest(Above(p.current))]
    BY <1>4 DEF on_probe_ack
  <2>2. Above(p.current) \subseteq Nat /\ \A s \in Above(p.current) : s > p.current
    BY LadderFacts DEF ProbeInv, ProbeType
  <2>3. Lowest(Above(p.current)) \in Nat /\ Lowest(Above(p.current)) > p.current
    BY <1>4, <2>2, LowestIsLeast
  <2> HIDE DEF q
  <2> QED
    BY <1>1, <1>4, <2>1, <2>3 DEF ProbeInv, ProbeType
<1> QED
  BY <1>2, <1>3, <1>4

\* A lost probe never changes the confirmed size.
LEMMA LossInv ==
    ASSUME NEW p, ProbeInv(p), p.state = "Searching"
    PROVE  /\ ProbeInv(on_probe_loss(p))
           /\ on_probe_loss(p).effective = p.effective
           /\ on_probe_loss(p).state # "None"
<1>1. CASE p.loss + 1 < LossThreshold
  BY <1>1, MtuAssumption DEF ProbeInv, ProbeType, on_probe_loss
<1>2. CASE ~ (p.loss + 1 < LossThreshold)
  <2> DEFINE q == [p EXCEPT !.loss = 0, !.high = p.current]
  <2>1. q \in ProbeType /\ Base <= q.effective /\ q.effective < q.high
        /\ q.state = "Searching" /\ q.effective = p.effective
    BY DEF ProbeInv, ProbeType
  <2>2. on_probe_loss(p) = Bisect(q)
    BY <1>2 DEF on_probe_loss
  <2> HIDE DEF q
  <2> QED
    BY <2>1, <2>2, BisectInv
<1> QED
  BY <1>1, <1>2

-----------------------------------------------------------------------------

MessageType == [txn: Nat, size: Nat]

\* The inductive invariant.  SearchBracket, SearchIsTight and PublishedWasCarried
\* follow from it; what they miss is the link between the answers in flight and
\* the search: only an answer to the probe in flight carries its id, and then it
\* answers a probe of the size the search is at, which the path did carry.
MtuInv ==
    /\ TypeOK
    /\ ProbeInv(probe)
    /\ effective_mtu = probe.effective
    /\ effective_mtu <= widest
    /\ path <= widest
    /\ probe.state = "None" => probe.effective = Base
    /\ inflight => probe.state = "Searching"
    /\ \A m \in net : m.txn <= txn /\ m.size <= widest
    /\ \A m \in net : inflight /\ m.txn = txn => m.size = probe.current

\* Sending the next probe keeps the answers in flight linked to the search.
LEMMA StartInv ==
    ASSUME MtuInv, NEW q, ProbeInv(q), NEW up \in BOOLEAN, NEW p \in Nat,
           NEW rest, rest \subseteq net,
           widest' \in Nat, widest <= widest', p <= widest',
           start_path_mtu_probe(q, up, p, rest)
    PROVE  /\ inflight' \in BOOLEAN /\ txn' \in Nat /\ net' \subseteq MessageType
           /\ inflight' => q.state = "Searching"
           /\ \A m \in net' : m.txn <= txn' /\ m.size <= widest'
           /\ \A m \in net' : inflight' /\ m.txn = txn' => m.size = q.current
<1>1. /\ txn \in Nat /\ widest \in Nat /\ rest \subseteq MessageType /\ q.current \in Nat
      /\ \A m \in rest : m.txn \in Nat /\ m.size \in Nat /\ m.txn <= txn /\ m.size <= widest
  BY DEF MtuInv, TypeOK, ProbeInv, ProbeType, MessageType
<1>2. CASE up /\ q.state = "Searching"
  <2> DEFINE new == [txn |-> txn + 1, size |-> q.current]
  <2>1. /\ inflight' = TRUE
        /\ txn' = txn + 1
        /\ \A m \in net' : m \in rest \/ (m = new /\ new.size <= p)
    BY <1>2 DEF start_path_mtu_probe
  <2>2. new \in MessageType /\ new.txn = txn + 1 /\ new.size = q.current
    BY <1>1 DEF MessageType
  <2> HIDE DEF new
  <2>3. ASSUME NEW m \in net'
        PROVE  /\ m \in MessageType /\ m.txn <= txn' /\ m.size <= widest'
               /\ m.txn = txn' => m.size = q.current
    <3>1. CASE m \in rest
      BY <1>1, <2>1, <3>1
    <3>2. CASE m = new /\ new.size <= p
      BY <1>1, <2>1, <2>2, <3>2
    <3> QED
      BY <2>1, <3>1, <3>2
  <2>4. net' \subseteq MessageType
    BY <2>3
  <2>5. txn' \in Nat
    BY <1>1, <2>1
  <2> QED
    BY <1>2, <2>1, <2>3, <2>4, <2>5
<1>3. CASE ~ (up /\ q.state = "Searching")
  <2>1. inflight' = FALSE /\ txn' = txn /\ net' = rest
    BY <1>3 DEF start_path_mtu_probe
  <2>2. \A m \in net' : m.txn <= txn' /\ m.size <= widest'
    BY <1>1, <2>1
  <2>3. inflight' \in BOOLEAN /\ txn' \in Nat /\ net' \subseteq MessageType
    BY <1>1, <2>1
  <2> QED
    BY <2>1, <2>2, <2>3, Zenon
<1> QED
  BY <1>2, <1>3

\* A step in which the search moves to q and its result is published.
LEMMA PublishInv ==
    ASSUME MtuInv, NEW q, ProbeInv(q), q.state # "None", q.effective <= widest,
           NEW rest, rest \subseteq net, Publish(q, rest)
    PROVE  MtuInv'
<1>1. /\ probe' = q /\ effective_mtu' = q.effective
      /\ connected' = connected /\ path' = path /\ widest' = widest
      /\ carrier' = carrier /\ nominations' = nominations
      /\ start_path_mtu_probe(q, connected /\ carrier, path, rest)
  BY DEF Publish
<1>2. connected \in BOOLEAN /\ carrier \in BOOLEAN /\ path \in Nat /\ widest \in Nat /\ path <= widest
      /\ nominations \in Nat
  BY DEF MtuInv, TypeOK
<1>3. /\ inflight' \in BOOLEAN /\ txn' \in Nat /\ net' \subseteq MessageType
      /\ inflight' => q.state = "Searching"
      /\ \A m \in net' : m.txn <= txn' /\ m.size <= widest'
      /\ \A m \in net' : inflight' /\ m.txn = txn' => m.size = q.current
  BY <1>1, <1>2, StartInv
<1>5. q \in ProbeType
  BY DEF ProbeInv
<1>6. TypeOK'
  BY <1>1, <1>2, <1>3, <1>5 DEF TypeOK, ProbeType, MessageType
<1>7. ProbeInv(probe')
  BY <1>1
<1> QED
  BY <1>1, <1>2, <1>3, <1>6, <1>7 DEF MtuInv

\* A session starts with no search and the floor as its MTU.
LEMMA MtuInit == Init => MtuInv
<1> SUFFICES ASSUME Init PROVE MtuInv
  OBVIOUS
<1>1. /\ probe \in ProbeType /\ probe.state = "None" /\ probe.effective = Base
      /\ Base \in Nat
  BY MtuAssumption DEF Init, NoProbe, ProbeType
<1>2. ProbeInv(probe)
  BY <1>1 DEF ProbeInv
<1>3. TypeOK
  BY <1>1 DEF Init, TypeOK, ProbeType
<1> QED
  BY <1>1, <1>2, <1>3 DEF Init, MtuInv

\* Every step of the session keeps the invariant.
LEMMA MtuStep == MtuInv /\ [Next]_vars => MtuInv'
<1> SUFFICES ASSUME MtuInv, [Next]_vars PROVE MtuInv'
  OBVIOUS
<1>1. ASSUME NEW m \in PathMtus, NEW c \in BOOLEAN, on_nominated(m, c) PROVE MtuInv'
  <2>1. /\ m \in Nat /\ widest \in Nat /\ path' = m /\ connected' = TRUE /\ carrier' = c
        /\ nominations' \in Nat /\ effective_mtu' = effective_mtu
        /\ widest' \in Nat /\ widest <= widest' /\ m <= widest'
    BY <1>1, MtuAssumption DEF on_nominated, MtuInv, TypeOK
  <2>2. CASE probe.state = "None"
    <3>1. /\ probe' = NewProbe /\ start_path_mtu_probe(NewProbe, c, m, net)
          /\ effective_mtu = Base
      BY <1>1, <2>2 DEF on_nominated, MtuInv
    <3>2. /\ ProbeInv(NewProbe) /\ NewProbe.state # "None" /\ NewProbe.effective = Base
          /\ NewProbe \in ProbeType
      BY NewProbeInv DEF ProbeInv
    <3>3. /\ inflight' \in BOOLEAN /\ txn' \in Nat /\ net' \subseteq MessageType
          /\ inflight' => NewProbe.state = "Searching"
          /\ \A a \in net' : a.txn <= txn' /\ a.size <= widest'
          /\ \A a \in net' : inflight' /\ a.txn = txn' => a.size = NewProbe.current
      BY <2>1, <3>1, <3>2, StartInv
    <3>4. TypeOK'
      BY <2>1, <3>1, <3>2, <3>3 DEF MtuInv, TypeOK, ProbeType, MessageType
    <3>5. ProbeInv(probe') /\ effective_mtu' = probe'.effective /\ effective_mtu' <= widest'
      BY <2>1, <3>1, <3>2 DEF MtuInv, TypeOK
    <3> QED
      BY <2>1, <3>1, <3>2, <3>3, <3>4, <3>5 DEF MtuInv
  <2>3. CASE probe.state # "None"
    <3>1. UNCHANGED <<probe, inflight, txn, net>>
      BY <1>1, <2>3 DEF on_nominated
    <3>2. TypeOK'
      BY <2>1, <3>1 DEF MtuInv, TypeOK
    <3>3. \A a \in net' : a.txn <= txn' /\ a.size <= widest'
      BY <2>1, <3>1 DEF MtuInv, TypeOK
    <3>4. ProbeInv(probe') /\ effective_mtu' <= widest'
      BY <2>1, <3>1 DEF MtuInv, TypeOK
    <3> QED
      BY <2>1, <3>1, <3>2, <3>3, <3>4 DEF MtuInv
  <2> QED
    BY <2>2, <2>3
<1>2. CASE LeaveConnected
  <2>1. UNCHANGED <<probe, effective_mtu, inflight, txn, net, path, carrier, widest,
                    nominations>>
        /\ connected' = FALSE
    BY <1>2 DEF LeaveConnected
  <2> QED
    BY <2>1 DEF MtuInv, TypeOK, ProbeInv
<1>3. CASE on_path_mtu_probe_timeout
  <2>1. probe.state = "Searching" /\ ProbeInv(probe) /\ Publish(on_probe_loss(probe), net)
    BY <1>3 DEF on_path_mtu_probe_timeout, MtuInv
  <2>2. on_probe_loss(probe).effective <= widest
    BY <2>1, LossInv DEF MtuInv
  <2> QED
    BY <2>1, <2>2, LossInv, PublishInv
<1>4. ASSUME NEW m \in net, on_probe_response(m) PROVE MtuInv'
  <2>1. PICK rest \in {net, net \ {m}} :
          IF inflight /\ m.txn = txn
            THEN Publish(on_probe_ack(probe), rest)
            ELSE /\ net' = rest
                 /\ UNCHANGED <<probe, effective_mtu, inflight, txn, connected, path,
                                carrier, widest, nominations>>
    BY <1>4 DEF on_probe_response
  <2>2. rest \subseteq net
    BY <2>1
  <2>3. CASE inflight /\ m.txn = txn
    <3>1. probe.state = "Searching" /\ ProbeInv(probe) /\ probe.current <= widest
      BY <2>3 DEF MtuInv
    <3>2. on_probe_ack(probe).effective <= widest
      BY <3>1, AckInv
    <3> QED
      BY <2>1, <2>2, <2>3, <3>1, <3>2, AckInv, PublishInv
  <2>4. CASE ~ (inflight /\ m.txn = txn)
    BY <2>1, <2>2, <2>4 DEF MtuInv, TypeOK, ProbeInv
  <2> QED
    BY <2>3, <2>4
<1>5. CASE OpenCarrier
  <2>1. UNCHANGED <<probe, effective_mtu, inflight, txn, net, connected, path, widest,
                    nominations>>
        /\ carrier' = TRUE
    BY <1>5 DEF OpenCarrier
  <2> QED
    BY <2>1 DEF MtuInv, TypeOK, ProbeInv
<1>6. CASE UNCHANGED vars
  BY <1>6 DEF MtuInv, TypeOK, ProbeInv, vars
<1> QED
  BY <1>1, <1>2, <1>3, <1>4, <1>5, <1>6 DEF Next

\* The invariant holds in every reachable state.
THEOREM MtuInvariant == Spec => []MtuInv
<1> QED
  BY MtuInit, MtuStep, PTL DEF Spec

\* The variables of path-MTU discovery always have their types.
THEOREM MtuTypes == Spec => []TypeOK
<1>1. MtuInv => TypeOK
  BY DEF MtuInv
<1> QED
  BY <1>1, MtuInvariant, PTL

\* The search stays inside its bracket, so its unsigned subtraction never wraps,
\* and it never reports less than the floor.
THEOREM MtuBracket == Spec => []SearchBracket
<1>1. MtuInv => SearchBracket
  BY DEF MtuInv, ProbeInv, SearchBracket
<1> QED
  BY <1>1, MtuInvariant, PTL

\* The published MTU was carried by a path the session was nominated on, whatever
\* the network does to the probes and their answers.
THEOREM MtuCarried == Spec => []PublishedWasCarried
<1>1. MtuInv => PublishedWasCarried
  BY DEF MtuInv, PublishedWasCarried
<1> QED
  BY <1>1, MtuInvariant, PTL

\* A search that stops has confirmed the top rung or is within one granule of a
\* size that failed.
THEOREM MtuTight == Spec => []SearchIsTight
<1>1. MtuInv => SearchIsTight
  BY DEF MtuInv, ProbeInv, SearchIsTight
<1> QED
  BY <1>1, MtuInvariant, PTL

\* What effective_path_mtu() reports never shrinks while one pair stays nominated.
THEOREM MtuGrows == Spec => PublishedGrows
<1>1. ASSUME MtuInv, [Next]_vars
       PROVE  [nominations' = nominations => effective_mtu' >= effective_mtu]_vars
  <2>1. effective_mtu \in Nat /\ effective_mtu = probe.effective /\ ProbeInv(probe)
    BY <1>1 DEF MtuInv, TypeOK
  <2>2. CASE on_path_mtu_probe_timeout
    <3>1. probe.state = "Searching" /\ effective_mtu' = on_probe_loss(probe).effective
      BY <1>1, <2>2 DEF on_path_mtu_probe_timeout, Publish, MtuInv
    <3> QED
      BY <2>1, <3>1, LossInv
  <2>3. ASSUME NEW m \in net, on_probe_response(m)
        PROVE  effective_mtu' = effective_mtu \/ effective_mtu' >= effective_mtu
    <3>1. CASE inflight /\ m.txn = txn
      <4>1. probe.state = "Searching" /\ effective_mtu' = on_probe_ack(probe).effective
        BY <1>1, <2>3, <3>1 DEF on_probe_response, Publish, MtuInv
      <4> QED
        BY <2>1, <4>1, AckInv DEF ProbeInv, ProbeType
    <3>2. CASE ~ (inflight /\ m.txn = txn)
      BY <2>3, <3>2 DEF on_probe_response
    <3> QED
      BY <3>1, <3>2
  <2> QED
    BY <1>1, <2>1, <2>2, <2>3 DEF Next, on_nominated, LeaveConnected, OpenCarrier, vars
<1> QED
  BY <1>1, MtuInvariant, PTL DEF Spec, PublishedGrows

-----------------------------------------------------------------------------

\* No rung of the ladder is above top.
IsTop(top) == top \in Nat /\ Base <= top /\ \A s \in Ladder : s <= top

\* How many sizes the search p has not decided yet.
Open(p, top) == (IF p.high # 0 THEN p.high ELSE top + 1) - p.effective

\* How many more probes the search can take.
Left(p, top) == LossThreshold * Open(p, top) - p.loss

\* The sizes of the search p are within the ladder, its losses within the
\* threshold.
Within(p, top) ==
    /\ p.loss < LossThreshold /\ p.current <= top /\ p.effective <= top
    /\ p.high # 0 => p.effective < p.high /\ p.high <= top

\* Deciding one size pays for all the losses of a size.
LEMMA Paid ==
    ASSUME NEW t \in Nat, NEW a \in Int, NEW b \in Int, b < a
    PROVE  t * b <= t * a - t
<1>1. PICK d \in Nat : a = b + 1 + d
  <2>1. a - b - 1 \in Nat /\ a = b + 1 + (a - b - 1)
    OBVIOUS
  <2> QED BY <2>1
<1>2. t * a = t * b + t + t * d
  BY <1>1
<1>3. t * d >= 0 /\ t * d \in Int /\ t * b \in Int /\ t * a \in Int
  OBVIOUS
<1> QED BY <1>2, <1>3

\* A search that decided a size, and counts its losses anew, has less left.
LEMMA LessLeft ==
    ASSUME NEW p \in ProbeType, NEW q \in ProbeType, NEW top \in Nat,
           p.loss < LossThreshold, q.loss = 0, Open(q, top) < Open(p, top)
    PROVE  Left(q, top) < Left(p, top)
<1>1. Open(p, top) \in Int /\ Open(q, top) \in Int /\ p.loss \in Nat
  BY DEF Open, ProbeType
<1>2. LossThreshold \in Nat
  BY MtuAssumption
<1>3. LossThreshold * Open(q, top) <= LossThreshold * Open(p, top) - LossThreshold
  BY <1>1, <1>2, Paid
<1>4. LossThreshold * Open(q, top) \in Int /\ LossThreshold * Open(p, top) \in Int
  BY <1>1, <1>2
<1> DEFINE x == LossThreshold * Open(q, top)
           y == LossThreshold * Open(p, top)
<1>5. Left(q, top) = x - 0 /\ Left(p, top) = y - p.loss
  BY DEF Left
<1>6. x \in Int /\ y \in Int /\ x <= y - LossThreshold
  BY <1>3, <1>4
<1> HIDE DEF x, y
<1> QED BY <1>1, <1>2, <1>5, <1>6

\* Bisecting decides no size and counts no loss.
LEMMA BisectKeeps ==
    ASSUME NEW p \in ProbeType, NEW top \in Nat, Within(p, top), p.high # 0
    PROVE  /\ Within(Bisect(p), top)
           /\ Bisect(p).loss = p.loss /\ Open(Bisect(p), top) = Open(p, top)
<1>1. CASE p.high - p.effective <= Granularity
  <2> DEFINE c == Complete(p)
  <2>1. /\ c.loss = p.loss /\ c.high = p.high /\ c.effective = p.effective
        /\ c.current = 0 /\ Bisect(p) = c
    BY <1>1 DEF Bisect, Complete, ProbeType
  <2> HIDE DEF c
  <2> QED BY <2>1 DEF Within, Open
<1>2. CASE ~ (p.high - p.effective <= Granularity)
  <2> DEFINE mid == (p.effective + p.high) \div 2
             c == [p EXCEPT !.current = mid]
  <2>1. mid <= p.high /\ p.high <= top /\ mid \in Nat
    BY DEF ProbeType, Within
  <2>2. mid <= top
    BY <2>1 DEF ProbeType
  <2>3. Bisect(p) = c
    BY <1>2 DEF Bisect
  <2> HIDE DEF mid
  <2>4. /\ c.loss = p.loss /\ c.high = p.high /\ c.effective = p.effective
        /\ c.current = mid
    BY DEF ProbeType
  <2> HIDE DEF c
  <2> QED BY <2>2, <2>3, <2>4 DEF Within, Open
<1> QED BY <1>1, <1>2

\* An answer confirms the size under probe: less is left.
LEMMA AckLess ==
    ASSUME NEW p, ProbeInv(p), p.state = "Searching", NEW top, IsTop(top), Within(p, top)
    PROVE  Within(on_probe_ack(p), top) /\ Left(on_probe_ack(p), top) < Left(p, top)
<1> DEFINE q == [p EXCEPT !.effective = p.current, !.loss = 0]
<1>1. /\ p \in ProbeType /\ p.effective < p.current /\ p.current <= top
      /\ p.high # 0 => p.current < p.high /\ p.high <= top
      /\ top \in Nat /\ LossThreshold \in Nat \ {0}
  BY MtuAssumption DEF ProbeInv, IsTop, Within
<1>2. /\ q \in ProbeType /\ q.effective = p.current /\ q.loss = 0 /\ q.high = p.high
      /\ q.current = p.current
  BY <1>1 DEF ProbeType
<1>3. on_probe_ack(p) \in ProbeType
  BY AckInv DEF ProbeInv
<1> HIDE DEF q
<1>4. Within(q, top)
  BY <1>1, <1>2 DEF Within, ProbeType
<1>5. Open(q, top) < Open(p, top)
  BY <1>1, <1>2 DEF Open, ProbeType
<1>6. CASE p.high # 0
  <2>1. on_probe_ack(p) = Bisect(q)
    BY <1>6 DEF on_probe_ack, q
  <2>2. /\ Within(Bisect(q), top) /\ Bisect(q).loss = 0
        /\ Open(Bisect(q), top) = Open(q, top)
    BY <1>1, <1>2, <1>4, <1>6, BisectKeeps
  <2> QED BY <1>1, <1>3, <1>5, <2>1, <2>2, LessLeft DEF Within
<1>7. CASE p.high = 0 /\ Above(p.current) = {}
  <2> DEFINE c == Complete(q)
  <2>1. on_probe_ack(p) = c
    BY <1>7 DEF on_probe_ack, q
  <2>2. /\ c.loss = 0 /\ c.high = q.high /\ c.effective = q.effective
        /\ c.current = 0
    BY <1>2 DEF Complete, ProbeType
  <2> HIDE DEF c
  <2>3. Within(c, top) /\ Open(c, top) < Open(p, top)
    BY <1>1, <1>2, <1>4, <1>5, <2>2 DEF Within, Open
  <2> QED BY <1>1, <1>3, <2>1, <2>2, <2>3, LessLeft DEF Within
<1>8. CASE p.high = 0 /\ Above(p.current) # {}
  <2> DEFINE r == Lowest(Above(p.current))
             c == [q EXCEPT !.current = r]
  <2>1. on_probe_ack(p) = c
    BY <1>8 DEF on_probe_ack, q
  <2>2. Above(p.current) \subseteq Nat
    BY <1>1, LadderFacts DEF ProbeType
  <2>3. r \in Above(p.current)
    BY <1>8, <2>2, LowestIsLeast
  <2>4. r <= top
    BY <2>3 DEF Above, IsTop
  <2> HIDE DEF r
  <2>5. c.loss = 0 /\ c.high = q.high /\ c.effective = q.effective /\ c.current = r
    BY <1>2 DEF ProbeType
  <2> HIDE DEF c
  <2>6. Within(c, top) /\ Open(c, top) < Open(p, top)
    BY <1>1, <1>2, <1>4, <1>5, <2>4, <2>5 DEF Within, Open
  <2> QED BY <1>1, <1>3, <2>1, <2>5, <2>6, LessLeft DEF Within
<1> QED BY <1>6, <1>7, <1>8

\* A loss is counted, or condemns the size under probe: less is left.
LEMMA LossLess ==
    ASSUME NEW p, ProbeInv(p), p.state = "Searching", NEW top, IsTop(top), Within(p, top)
    PROVE  Within(on_probe_loss(p), top) /\ Left(on_probe_loss(p), top) < Left(p, top)
<1>1. /\ p \in ProbeType /\ p.effective < p.current /\ p.current <= top
      /\ p.high # 0 => p.current < p.high /\ p.high <= top
      /\ top \in Nat /\ LossThreshold \in Nat \ {0}
  BY MtuAssumption DEF ProbeInv, IsTop, Within
<1>2. on_probe_loss(p) \in ProbeType
  BY LossInv DEF ProbeInv
<1>3. CASE p.loss + 1 < LossThreshold
  <2> DEFINE c == [p EXCEPT !.loss = p.loss + 1]
  <2>1. on_probe_loss(p) = c
    BY <1>3 DEF on_probe_loss
  <2>2. /\ c.loss = p.loss + 1 /\ c.high = p.high /\ c.effective = p.effective
        /\ c.current = p.current
    BY <1>1 DEF ProbeType
  <2> HIDE DEF c
  <2>3. Within(c, top)
    BY <1>3, <2>2 DEF Within
  <2> DEFINE y == LossThreshold * Open(p, top)
  <2>4. Left(c, top) = y - (p.loss + 1) /\ Left(p, top) = y - p.loss
    BY <2>2 DEF Left, Open
  <2>5. y \in Int /\ p.loss \in Nat
    BY <1>1 DEF Open, ProbeType
  <2> HIDE DEF y
  <2>6. Left(c, top) < Left(p, top)
    BY <2>4, <2>5
  <2> QED BY <2>1, <2>3, <2>6
<1>4. CASE ~ (p.loss + 1 < LossThreshold)
  <2> DEFINE q == [p EXCEPT !.loss = 0, !.high = p.current]
  <2>1. /\ q \in ProbeType /\ q.effective = p.effective /\ q.loss = 0
        /\ q.high = p.current /\ q.current = p.current
    BY <1>1 DEF ProbeType
  <2>2. on_probe_loss(p) = Bisect(q)
    BY <1>4 DEF on_probe_loss
  <2> HIDE DEF q
  <2>3. Within(q, top) /\ Open(q, top) < Open(p, top) /\ q.high # 0
    BY <1>1, <2>1 DEF Within, Open, ProbeType
  <2>4. /\ Within(Bisect(q), top) /\ Bisect(q).loss = 0
        /\ Open(Bisect(q), top) = Open(q, top)
    BY <1>1, <2>1, <2>3, BisectKeeps
  <2> QED BY <1>1, <1>2, <2>2, <2>3, <2>4, LessLeft DEF Within
<1> QED BY <1>3, <1>4

\* Every probe that was sent is paid for by what the search has decided since.
Funded(top) ==
    /\ probe.state = "None" => txn = 0
    /\ probe.state # "None" =>
          /\ Within(probe, top)
          /\ txn + Left(probe, top) <= LossThreshold * (top + 1 - Base) + 1

\* A step in which the search moves to q with less left.
LEMMA PublishFunded ==
    ASSUME MtuInv, NEW top, IsTop(top), Funded(top), probe.state = "Searching",
           NEW q, ProbeInv(q), q.state # "None", Within(q, top),
           Left(q, top) < Left(probe, top), NEW rest, Publish(q, rest)
    PROVE  Funded(top)'
<1>1. probe' = q /\ (txn' = txn \/ txn' = txn + 1)
  BY DEF Publish, start_path_mtu_probe
<1>2. txn + Left(probe, top) <= LossThreshold * (top + 1 - Base) + 1
  BY DEF Funded
<1>3. /\ txn \in Nat /\ LossThreshold * (top + 1 - Base) \in Int
      /\ \A p \in ProbeType : Left(p, top) \in Int
  <2>1. LossThreshold \in Nat /\ Base \in Nat /\ top \in Nat /\ txn \in Nat
    BY MtuAssumption DEF IsTop, MtuInv, TypeOK
  <2>2. \A p \in ProbeType : Open(p, top) \in Int /\ p.loss \in Nat
    BY <2>1 DEF Open, ProbeType
  <2>3. \A p \in ProbeType : Left(p, top) \in Int
    BY <2>1, <2>2 DEF Left
  <2> QED BY <2>1, <2>3
<1>4. probe \in ProbeType /\ q \in ProbeType
  BY DEF MtuInv, ProbeInv
<1> DEFINE a == Left(probe, top)
           b == Left(q, top)
           z == LossThreshold * (top + 1 - Base)
<1>5. a \in Int /\ b \in Int /\ z \in Int /\ b < a /\ txn + a <= z + 1
  BY <1>2, <1>3, <1>4
<1>6. Left(probe, top)' = b
  BY <1>1 DEF Left, Open
<1> HIDE DEF a, b, z
<1>7. txn' + b <= z + 1
  BY <1>1, <1>3, <1>5
<1>8. Within(probe, top)'
  BY <1>1 DEF Within
<1> QED BY <1>1, <1>6, <1>7, <1>8 DEF Funded, z

\* Every step of the session keeps its probes paid for.
LEMMA FundedStep ==
    ASSUME NEW top, IsTop(top), MtuInv, Funded(top), [Next]_vars
    PROVE  Funded(top)'
<1>1. ASSUME UNCHANGED <<probe, txn>> PROVE Funded(top)'
  BY <1>1 DEF Funded, Within, Left, Open
<1>2. ASSUME NEW m \in PathMtus, NEW c \in BOOLEAN, on_nominated(m, c)
      PROVE  Funded(top)'
  <2>1. CASE probe.state = "None"
    <3>1. txn = 0 /\ probe' = NewProbe /\ (txn' = txn \/ txn' = txn + 1)
      BY <1>2, <2>1 DEF on_nominated, start_path_mtu_probe, Funded
    <3>2. /\ LossThreshold \in Nat \ {0} /\ Base \in Nat /\ Base # 0 /\ top \in Nat
          /\ Base <= top
      BY MtuAssumption DEF IsTop
    <3>3. /\ NewProbe.high = 0 /\ NewProbe.loss = 0 /\ NewProbe.effective = Base
          /\ NewProbe.current <= top /\ NewProbe.state # "None"
      <4>1. CASE Ladder = {}
        BY <3>2, <4>1 DEF NewProbe, Complete, NoProbe
      <4>2. CASE Ladder # {}
        <5>1. Lowest(Ladder) \in Ladder
          BY <4>2, LadderFacts, LowestIsLeast
        <5>2. Lowest(Ladder) <= top
          BY <5>1 DEF IsTop
        <5> QED BY <4>2, <5>2 DEF NewProbe, NoProbe
      <4> QED BY <4>1, <4>2
    <3>4. Within(NewProbe, top)
      BY <3>2, <3>3 DEF Within
    <3> DEFINE z == LossThreshold * (top + 1 - Base)
    <3>5. Left(NewProbe, top) = z - 0 /\ z \in Int
      BY <3>2, <3>3 DEF Left, Open
    <3> HIDE DEF z
    <3>6. txn' + Left(NewProbe, top) <= z + 1
      BY <3>1, <3>5
    <3>7. Left(probe, top)' = Left(NewProbe, top) /\ Within(probe, top)'
      BY <3>1, <3>4 DEF Left, Open, Within
    <3> QED BY <3>1, <3>3, <3>6, <3>7 DEF Funded, z
  <2>2. CASE probe.state # "None"
    BY <1>1, <1>2, <2>2 DEF on_nominated
  <2> QED BY <2>1, <2>2
<1>3. CASE LeaveConnected
  BY <1>1, <1>3 DEF LeaveConnected
<1>4. CASE on_path_mtu_probe_timeout
  <2>1. probe.state = "Searching" /\ ProbeInv(probe) /\ Publish(on_probe_loss(probe), net)
    BY <1>4 DEF on_path_mtu_probe_timeout, MtuInv
  <2>2. Within(probe, top)
    BY <2>1 DEF Funded
  <2> QED BY <2>1, <2>2, LossInv, LossLess, PublishFunded
<1>5. ASSUME NEW m \in net, on_probe_response(m) PROVE Funded(top)'
  <2>1. CASE inflight /\ m.txn = txn
    <3>1. PICK rest : Publish(on_probe_ack(probe), rest)
      BY <1>5, <2>1 DEF on_probe_response
    <3>2. probe.state = "Searching" /\ ProbeInv(probe)
      BY <2>1 DEF MtuInv
    <3>3. Within(probe, top)
      BY <3>2 DEF Funded
    <3> QED BY <3>1, <3>2, <3>3, AckInv, AckLess, PublishFunded
  <2>2. CASE ~ (inflight /\ m.txn = txn)
    BY <1>1, <1>5, <2>2 DEF on_probe_response
  <2> QED BY <2>1, <2>2
<1>6. CASE OpenCarrier
  BY <1>1, <1>6 DEF OpenCarrier
<1>7. CASE UNCHANGED vars
  BY <1>1, <1>7 DEF vars
<1> QED BY <1>2, <1>3, <1>4, <1>5, <1>6, <1>7 DEF Next

\* A session sends at most LossThreshold probes for each size from the floor to
\* the top rung, however often it is nominated and whichever answers are lost,
\* late or repeated: the search it starts cannot go on for ever.
THEOREM MtuProbesBounded ==
    ASSUME NEW top, IsTop(top)
    PROVE  Spec => [](txn <= LossThreshold * (top + 1 - Base))
<1>1. Init => Funded(top)
  BY DEF Init, NoProbe, Funded
<1>2. MtuInv /\ Funded(top) /\ [Next]_vars => Funded(top)'
  BY FundedStep
<1>3. MtuInv /\ Funded(top) => txn <= LossThreshold * (top + 1 - Base)
  <2> SUFFICES ASSUME MtuInv, Funded(top)
               PROVE  txn <= LossThreshold * (top + 1 - Base)
    OBVIOUS
  <2>1. LossThreshold \in Nat /\ Base \in Nat /\ top \in Nat /\ Base <= top /\ txn \in Nat
    BY MtuAssumption DEF IsTop, MtuInv, TypeOK
  <2> DEFINE z == LossThreshold * (top + 1 - Base)
  <2>2. z \in Nat
    <3>1. top + 1 - Base \in Nat
      BY <2>1
    <3> QED BY <2>1, <3>1
  <2>3. CASE probe.state = "None"
    BY <2>2, <2>3 DEF Funded
  <2>4. CASE probe.state # "None"
    <3>1. Within(probe, top) /\ txn + Left(probe, top) <= z + 1
      BY <2>4 DEF Funded
    <3>2. probe.loss \in Nat /\ Open(probe, top) \in Int /\ Open(probe, top) > 0
      BY <2>1, <3>1 DEF MtuInv, TypeOK, Within, Open
    <3> DEFINE y == LossThreshold * Open(probe, top)
    <3>3. y \in Int /\ LossThreshold * 0 <= y - LossThreshold
      BY <2>1, <3>2, Paid
    <3>4. Left(probe, top) = y - probe.loss /\ probe.loss < LossThreshold
      BY <3>1 DEF Left, Within
    <3> HIDE DEF y, z
    <3>5. y >= LossThreshold
      BY <2>1, <3>3
    <3> QED BY <2>1, <2>2, <3>1, <3>2, <3>3, <3>4, <3>5 DEF z
  <2> QED BY <2>3, <2>4
<1> QED BY <1>1, <1>2, <1>3, MtuInvariant, PTL DEF Spec
=============================================================================
