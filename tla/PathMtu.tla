------------------------------ MODULE PathMtu ------------------------------
(***************************************************************************)
(* Path-MTU discovery of one ICE session: the search of PathMtuProbe       *)
(* (path_mtu.cpp) and the part of IceSession that drives it: the probe in  *)
(* flight, its timeout, the answers of the peer, and the nominations that  *)
(* start it (session.cpp).                                                 *)
(*                                                                         *)
(* The path of the nominated pair carries datagrams of at most `path`      *)
(* bytes.  A larger probe is lost; a smaller one may be lost, answered     *)
(* late, or answered twice.  Transaction ids are fresh naturals.  The      *)
(* timeout is armed exactly while a probe is in flight: sending arms it,   *)
(* and an answer moves pmtu_probe_gen_ on, which disarms it.  The          *)
(* constructor sorts and deduplicates the ladder, so the ladder is a set,  *)
(* and the rung after r is its next element.  The member low_ always       *)
(* equals effective_ where it is read.                                     *)
(***************************************************************************)
EXTENDS Integers, FiniteSets

CONSTANTS Base,            \* cfg.path_mtu
          SearchSteps,     \* cfg.pmtu_search_steps, as a set
          Granularity,     \* kProbeGranularity
          LossThreshold,   \* kProbeLossThreshold
          PathMtus,        \* what the path of a nominated pair may carry
          MaxNominations,  \* bound: how often the session is nominated
          MaxLate          \* bound: answers in flight beside the newest one

ASSUME MtuAssumption ==
    /\ Base \in Nat \ {0}
    /\ SearchSteps \subseteq Int
    /\ IsFiniteSet(SearchSteps)
    /\ Granularity \in Nat \ {0}
    /\ LossThreshold \in Nat \ {0}
    /\ PathMtus \subseteq Nat
    /\ MaxNominations \in Nat
    /\ MaxLate \in Nat

VARIABLES probe,        \* pmtu_probe_: the search
          effective_mtu,\* effective_mtu_: what effective_path_mtu() reports
          inflight,     \* pmtu_inflight_; the probe timeout is then armed
          txn,          \* pmtu_inflight_txn_: the newest probe's id
          net,          \* answers on their way to the session
          connected,    \* state_ = Connected
          path,         \* what the nominated pair's path carries
          carrier,      \* carrier_ is set and nominated_cid_ is not 0
          widest,       \* history: the widest path nominated so far
          nominations   \* history: how often on_nominated ran

vars == <<probe, effective_mtu, inflight, txn, net, connected, path,
          carrier, widest, nominations>>

Ladder == {s \in SearchSteps : s > Base}

\* The rungs above r, and the lowest of them.
Above(r) == {s \in Ladder : s > r}
Lowest(S) == CHOOSE s \in S : \A t \in S : s <= t

NoProbe == [state |-> "None", effective |-> Base, current |-> 0, high |-> 0,
            loss |-> 0]

Complete(p) == [p EXCEPT !.state = "SearchComplete", !.current = 0]

\* The constructor of PathMtuProbe.
NewProbe ==
    IF Ladder = {}
      THEN Complete(NoProbe)
      ELSE [NoProbe EXCEPT !.state = "Searching", !.current = Lowest(Ladder)]

\* Faulty variant of Bisect: the difference instead of the sum.
BisectDifference(p) ==
    IF p.high - p.effective <= Granularity
      THEN Complete(p)
      ELSE [p EXCEPT !.current = (p.effective - p.high) \div 2]

\* Faulty variant of Bisect: no granularity ends it.
BisectForever(p) == [p EXCEPT !.current = (p.effective + p.high) \div 2]

\* Faulty variant of Bisect: it ends too early.
BisectCoarsely(p) ==
    IF p.high - p.effective <= 4 * Granularity
      THEN Complete(p)
      ELSE [p EXCEPT !.current = (p.effective + p.high) \div 2]

\* Bisect between the known-good and the known-bad size, or stop.
Bisect(p) ==
    IF p.high - p.effective <= Granularity
      THEN Complete(p)
      ELSE [p EXCEPT !.current = (p.effective + p.high) \div 2]

\* PathMtuProbe::on_probe_ack: the size travelled; bisect further, or climb.
on_probe_ack(p) ==
    LET q == [p EXCEPT !.effective = p.current, !.loss = 0]
        climbed == IF Above(p.current) = {}
                     THEN Complete(q)
                     ELSE [q EXCEPT !.current = Lowest(Above(p.current))]
    IN  IF p.state = "SearchComplete" THEN p
        ELSE IF p.high # 0 THEN Bisect(q) ELSE climbed

\* Faulty variant of on_probe_loss: the search falls back to the floor.
LossToFloor(p) ==
    IF p.state = "SearchComplete" THEN p
    ELSE IF p.loss + 1 < LossThreshold
           THEN [p EXCEPT !.loss = p.loss + 1]
           ELSE Bisect([p EXCEPT !.loss = 0, !.high = p.current,
                                 !.effective = Base])

\* PathMtuProbe::on_probe_loss: LossThreshold losses in a row condemn the size.
on_probe_loss(p) ==
    IF p.state = "SearchComplete" THEN p
    ELSE IF p.loss + 1 < LossThreshold
           THEN [p EXCEPT !.loss = p.loss + 1]
           ELSE Bisect([p EXCEPT !.loss = 0, !.high = p.current])

-----------------------------------------------------------------------------

\* start_path_mtu_probe for a session with the search q over a path that
\* carries p bytes, when `rest` are the answers on their way: if it is connected
\* and can send on its UDP carrier (up), send the next probe under a fresh id,
\* and otherwise do nothing.  The network keeps at most MaxLate of the older
\* answers.
start_path_mtu_probe(q, up, p, rest) ==
    IF up /\ q.state = "Searching"
      THEN /\ inflight' = TRUE
           /\ txn' = txn + 1
           /\ \E late \in SUBSET rest :
                /\ Cardinality(late) <= MaxLate
                /\ net' = late \union {m \in {[txn |-> txn + 1, size |-> q.current]} :
                                         m.size <= p}
      ELSE /\ inflight' = FALSE
           /\ txn' = txn
           /\ net' = rest

Init ==
    /\ probe = NoProbe
    /\ effective_mtu = Base
    /\ inflight = FALSE
    /\ txn = 0
    /\ net = {}
    /\ connected = FALSE
    /\ path = 0
    /\ carrier = FALSE
    /\ widest = Base
    /\ nominations = 0

\* on_nominated: a pair whose path carries m bytes is nominated, with or without
\* an id on the UDP carrier (c).  The search starts with the first nomination
\* only: later ones find pmtu_probe_ set.
on_nominated(m, c) ==
    /\ nominations < MaxNominations
    /\ nominations' = nominations + 1
    /\ connected' = TRUE
    /\ path' = m
    /\ carrier' = c
    /\ widest' = IF m > widest THEN m ELSE widest
    /\ IF probe.state = "None"
         THEN probe' = NewProbe /\ start_path_mtu_probe(NewProbe, c, m, net)
         ELSE UNCHANGED <<probe, inflight, txn, net>>
    /\ UNCHANGED effective_mtu

\* Consent loss, restart() or close(): the session leaves Connected.  None of
\* them touches the search, the probe in flight or its timeout.
LeaveConnected ==
    /\ connected
    /\ nominations < MaxNominations
    /\ connected' = FALSE
    /\ UNCHANGED <<probe, effective_mtu, inflight, txn, net, path, carrier, widest,
                   nominations>>

\* send_on_strand opens the carrier id that the nomination did not have.  It
\* does not start the search.
OpenCarrier ==
    /\ connected /\ ~carrier
    /\ carrier' = TRUE
    /\ UNCHANGED <<probe, effective_mtu, inflight, txn, net, connected, path, widest,
                   nominations>>

\* The search has moved to q: publish its result, and go on unless it is over.
Publish(q, rest) ==
    /\ probe' = q
    /\ effective_mtu' = q.effective
    /\ start_path_mtu_probe(q, connected /\ carrier, path, rest)
    /\ UNCHANGED <<connected, path, carrier, widest, nominations>>

\* Faulty variant of on_path_mtu_probe_timeout: no probe follows a lost one.
TimeoutGivesUp ==
    /\ inflight
    /\ probe' = on_probe_loss(probe)
    /\ effective_mtu' = probe'.effective
    /\ inflight' = FALSE
    /\ UNCHANGED <<txn, net, connected, path, carrier, widest, nominations>>

\* on_path_mtu_probe_timeout.
on_path_mtu_probe_timeout ==
    /\ inflight
    /\ Publish(on_probe_loss(probe), net)

\* Faulty variant of on_probe_response: any answer acknowledges the probe.
AnyResponse(m) ==
    \E rest \in {net, net \ {m}} :
       IF inflight
         THEN Publish(on_probe_ack(probe), rest)
         ELSE /\ net' = rest
              /\ UNCHANGED <<probe, effective_mtu, inflight, txn, connected, path,
                             carrier, widest, nominations>>

\* on_carrier_data with a binding response: the answer to the newest probe
\* advances the search, any other leaves it alone.  The network may hold a
\* second copy of the answer.
on_probe_response(m) ==
    \E rest \in {net, net \ {m}} :
       IF inflight /\ m.txn = txn
         THEN Publish(on_probe_ack(probe), rest)
         ELSE /\ net' = rest
              /\ UNCHANGED <<probe, effective_mtu, inflight, txn, connected, path,
                             carrier, widest, nominations>>

Next ==
    \/ \E m \in PathMtus, c \in BOOLEAN : on_nominated(m, c)
    \/ LeaveConnected
    \/ OpenCarrier
    \/ on_path_mtu_probe_timeout
    \/ \E m \in net : on_probe_response(m)

\* The timer thread runs as long as the plugin does, so an armed timeout fires.
Spec == Init /\ [][Next]_vars /\ WF_vars(on_path_mtu_probe_timeout)

-----------------------------------------------------------------------------

\* The variables have their types.
TypeOK ==
    /\ probe \in [state: {"None", "Searching", "SearchComplete"}, effective: Nat,
                  current: Nat, high: Nat, loss: Nat]
    /\ effective_mtu \in Nat
    /\ inflight \in BOOLEAN
    /\ txn \in Nat
    /\ net \subseteq [txn: Nat, size: Nat]
    /\ connected \in BOOLEAN
    /\ path \in Nat
    /\ carrier \in BOOLEAN
    /\ widest \in Nat
    /\ nominations \in Nat

\* While the search runs, the size under probe lies strictly between the size
\* known to work and the size known to fail, and the search never falls below
\* the configured floor.  The subtraction high_ - low_ of two size_t values in
\* on_probe_ack and on_probe_loss therefore never wraps around.
SearchBracket ==
    probe.state = "Searching" =>
       /\ Base <= probe.effective
       /\ probe.effective < probe.current
       /\ probe.high # 0 => probe.current < probe.high

\* The MTU the session publishes never exceeds the widest path it was ever
\* nominated on (or the floor), however late, lost or repeated the answers are:
\* no answer is credited to a size other than the one its probe had.
PublishedWasCarried == effective_mtu <= widest

\* When the search stops, it has confirmed the top rung, or the size it reports
\* is within kProbeGranularity of a size that failed.
SearchIsTight ==
    probe.state = "SearchComplete" =>
       \/ Above(probe.effective) = {}
       \/ probe.high - probe.effective \in 1..Granularity

\* As long as no other pair is nominated, what effective_path_mtu() reports never
\* shrinks.  (The value of one pair is kept for the next, which may carry less.)
PublishedGrows == [][nominations' = nominations
                        => effective_mtu' >= effective_mtu]_vars

\* A search with a probe in flight comes to its end, whichever probes and answers
\* are lost, unless the session leaves Connected or is nominated on a pair
\* without a carrier id.
SearchFinishes == inflight /\ connected /\ carrier
                      ~> ~connected \/ ~carrier \/ probe.state = "SearchComplete"
=============================================================================
