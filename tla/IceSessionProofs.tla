-------------------------- MODULE IceSessionProofs --------------------------
(***************************************************************************)
(* The invariants of one ICE session, for every set of candidates, every   *)
(* limit and any number of inputs.                                         *)
(*                                                                         *)
(* First, what the operations on the check list keep: the list stays well  *)
(* formed, every Frozen pair keeps a sibling that will complete (Led), and *)
(* only select_nominee marks a nominee.  Then each handler is shown to     *)
(* keep Safe and to leave the session watched by a timer; an action is a   *)
(* handler.                                                                *)
(***************************************************************************)
EXTENDS IceSession, WellFoundedInduction, TLAPS

\* Zenon proves most of the leaves, and does so faster than SMT.
USE ZenonT(4), SMTT(20), ZenonT(20)

\* A list that is well formed and led, and two lists with the same nominee.
Sound(cl) == cl \in CheckLists /\ Led(cl)

SameNominee(cl, dl) == \A p \in Pairs : dl[p].nominee = cl[p].nominee

\* Every set of naturals has a least element.
LEMMA LeastNat ==
    ASSUME NEW S, S \subseteq Nat, S # {}
    PROVE  \E m \in S : \A n \in S : m <= n
<1>1. PICK m \in S : \A n \in S : ~ (<<n, m>> \in OpToRel(<, Nat))
  BY NatLessThanWellFounded, WFMin, Zenon
<1>2. \A a, b \in Nat : a < b => <<a, b>> \in OpToRel(<, Nat)
  BY Zenon DEF OpToRel
<1>3. \A n \in S : n \in Nat /\ m \in Nat
  OBVIOUS
<1>4. \A n \in S : ~ (n < m)
  BY <1>1, <1>2, <1>3, Zenon
<1> QED BY <1>3, <1>4

\* A set of pairs has a first one: CHOOSE in First is never arbitrary.
LEMMA FirstIn ==
    ASSUME NEW S \in SUBSET Pairs, S # {}
    PROVE  First(S) \in S
<1>1. Order \in [Pairs -> Nat]
  BY CheckAssumption DEF CheckAssumption
<1> DEFINE T == {Order[p] : p \in S}
<1>2. T \subseteq Nat /\ T # {}
  BY <1>1
<1>3. \E m \in T : \A n \in T : m <= n
  BY <1>2, LeastNat
<1>4. \E p \in S : \A q \in S : Order[p] <= Order[q]
  BY <1>3
<1> QED BY <1>4 DEF First

\* The same for the local candidates.
LEMMA FirstLocalIn ==
    ASSUME NEW S \in SUBSET Locals, S # {}
    PROVE  FirstLocal(S) \in S
<1>1. LocalOrder \in [Locals -> Nat]
  BY CheckAssumption DEF CheckAssumption
<1> DEFINE T == {LocalOrder[p] : p \in S}
<1>2. T \subseteq Nat /\ T # {}
  BY <1>1
<1>3. \E m \in T : \A n \in T : m <= n
  BY <1>2, LeastNat
<1>4. \E p \in S : \A q \in S : LocalOrder[p] <= LocalOrder[q]
  BY <1>3
<1> QED BY <1>4 DEF FirstLocal

\* unfreeze_siblings changes nothing but the state of Frozen pairs.
LEMMA UnfreezeFacts ==
    ASSUME NEW cl \in CheckLists, NEW F \in SUBSET Pairs
    PROVE  /\ unfreeze_siblings(cl, F) \in CheckLists
           /\ SameNominee(cl, unfreeze_siblings(cl, F))
BY DEF CheckLists, CheckPair, PairStates, unfreeze_siblings, SameNominee

\* A pair that completes leaves a sound list: its Frozen siblings are now
\* Waiting, the other Frozen pairs have the leaders they had.
LEMMA CompleteFacts ==
    ASSUME NEW cl, Sound(cl), NEW p \in Pairs,
           NEW state \in {"Failed", "Succeeded"}
    PROVE  /\ Sound(Complete(cl, p, state))
           /\ SameNominee(cl, Complete(cl, p, state))
<1> DEFINE dl == [cl EXCEPT ![p].state = state]
           el == unfreeze_siblings(dl, {p})
<1>1. cl \in CheckLists
  BY DEF Sound
<1>2. dl \in CheckLists /\ SameNominee(cl, dl)
  BY <1>1 DEF CheckLists, CheckPair, PairStates, SameNominee
<1>3. el \in CheckLists /\ SameNominee(cl, el)
  <2> HIDE DEF dl
  <2> QED BY <1>2, UnfreezeFacts DEF SameNominee
<1>4. \A q \in Pairs : el[q].triggered = cl[q].triggered
  BY <1>1 DEF CheckLists, CheckPair, unfreeze_siblings
<1>5. ASSUME NEW q \in In(el, {"Frozen"})
      PROVE  \E r \in In(el, {"Waiting", "InProgress"}) : Siblings(el, q, r)
  <2>1. q \in Pairs /\ q # p /\ cl[q].state = "Frozen" /\ ~Siblings(cl, p, q)
    BY <1>1, <1>5 DEF CheckLists, CheckPair, unfreeze_siblings, In, Siblings
  <2>2. PICK r \in In(cl, {"Waiting", "InProgress"}) : Siblings(cl, q, r)
    BY <2>1 DEF Sound, Led, In
  <2>3. r \in Pairs /\ r # p
    BY <2>1, <2>2 DEF Siblings, In
  <2>4. el[r].state = cl[r].state
    BY <1>1, <2>2, <2>3 DEF CheckLists, CheckPair, unfreeze_siblings, In
  <2>5. Siblings(el, q, r)
    BY <1>4, <2>1, <2>2, <2>3 DEF Siblings
  <2> QED BY <2>2, <2>3, <2>4, <2>5 DEF In
<1> QED BY <1>3, <1>5 DEF Complete, Sound, Led

\* unfreeze_stuck_pairs finds nothing to do in a list that is led.
LEMMA StuckIdle ==
    ASSUME NEW cl, Sound(cl)
    PROVE  unfreeze_stuck_pairs(cl) = cl
<1>1. CASE In(cl, {"Waiting", "InProgress"}) # {}
  BY <1>1 DEF unfreeze_stuck_pairs
<1>2. CASE In(cl, {"Waiting", "InProgress"}) = {}
  <2>1. \A q \in Pairs : cl[q].state # "Frozen"
    BY <1>2 DEF Sound, Led, In
  <2>2. cl = [q \in Pairs |-> cl[q]]
    BY DEF Sound, CheckLists
  <2> QED BY <1>2, <2>1, <2>2 DEF unfreeze_stuck_pairs
<1> QED BY <1>1, <1>2

\* send_check counts a transmission, or fails the pair whose retries are
\* used up.
LEMMA SendCheckFacts ==
    ASSUME NEW cl, Sound(cl), NEW p \in Pairs
    PROVE  /\ Sound(send_check(cl, p))
           /\ SameNominee(cl, send_check(cl, p))
<1> DEFINE dl == [cl EXCEPT ![p].retries = @ + 1]
<1>1. CASE cl[p].retries >= MaxRetries
  BY <1>1, CompleteFacts DEF send_check
<1>2. CASE ~(cl[p].retries >= MaxRetries)
  <2>1. MaxRetries \in Nat
    BY CheckAssumption DEF CheckAssumption
  <2>2. cl \in CheckLists
    BY DEF Sound
  <2>3. cl[p].retries \in 0..MaxRetries
    BY <2>2 DEF CheckLists, CheckPair
  <2>4. cl[p].retries + 1 \in 0..MaxRetries
    BY <1>2, <2>1, <2>3
  <2>5. dl \in CheckLists /\ SameNominee(cl, dl)
    BY <2>2, <2>4 DEF CheckLists, CheckPair, SameNominee
  <2>6. \A q \in Pairs : /\ dl[q].state = cl[q].state
                         /\ dl[q].triggered = cl[q].triggered
    BY <2>2 DEF CheckLists, CheckPair
  <2>7. Led(dl)
    <3> HIDE DEF dl
    <3> QED BY <2>6 DEF Sound, Led, In, Siblings
  <2> QED BY <1>2, <2>5, <2>7 DEF send_check, Sound
<1> QED BY <1>1, <1>2
\* A pass of run_next_check keeps the list sound: a Frozen pair whose leader
\* used up its retries is thawed in the same pass.
LEMMA WalkFacts ==
    ASSUME NEW cl, Sound(cl), NEW elapsed
    PROVE  /\ Sound(Walk(cl, elapsed))
           /\ SameNominee(cl, Walk(cl, elapsed))
<1> DEFINE dead == Spent(cl, elapsed)
           thawed == Thawed(cl, dead)
           sent == Started(cl, dead)
                       \cup ((In(cl, {"InProgress"}) \cap elapsed) \ dead)
           dl == Walk(cl, elapsed)
<1>1. cl \in CheckLists /\ MaxRetries \in Nat
  BY CheckAssumption DEF Sound, CheckAssumption
<1>2. dead \subseteq In(cl, {"InProgress"}) /\ thawed \subseteq In(cl, {"Frozen"})
  BY DEF Spent, Thawed
<1>3. /\ sent \subseteq Pairs /\ sent \cap dead = {}
      /\ \A p \in sent : cl[p].retries < MaxRetries
      /\ \A p \in sent : p \in In(cl, {"Waiting", "InProgress"}) \/ p \in thawed
  <2>1. ASSUME NEW p \in Started(cl, dead)
        PROVE  /\ p \in Pairs /\ cl[p].retries < MaxRetries
               /\ p \in In(cl, {"Waiting"}) \/ p \in thawed
    BY <2>1 DEF Started, In, Thawed
  <2>2. ASSUME NEW p \in (In(cl, {"InProgress"}) \cap elapsed) \ dead
        PROVE  p \in Pairs /\ p \in In(cl, {"InProgress"}) /\ cl[p].retries < MaxRetries
    BY <1>1, <2>2 DEF Spent, In, CheckLists, CheckPair
  <2>3. Started(cl, dead) \cap dead = {}
    BY <1>2, <2>1 DEF In
  <2> QED BY <2>1, <2>2, <2>3 DEF In
<1>4. dl = [p \in Pairs |->
          IF p \in dead THEN [cl[p] EXCEPT !.state = "Failed"]
          ELSE IF p \in sent THEN [cl[p] EXCEPT !.state = "InProgress",
                                                !.retries = @ + 1]
          ELSE IF p \in thawed THEN [cl[p] EXCEPT !.state = "Waiting"]
          ELSE cl[p]]
  BY DEF Walk
<1> HIDE DEF dead, thawed, sent, dl
<1>5. ASSUME NEW p \in Pairs
      PROVE  /\ dl[p] \in CheckPair
             /\ dl[p].nominee = cl[p].nominee
             /\ dl[p].triggered = cl[p].triggered
             /\ dl[p].state = IF p \in dead THEN "Failed"
                              ELSE IF p \in sent THEN "InProgress"
                              ELSE IF p \in thawed THEN "Waiting"
                              ELSE cl[p].state
  <2>1. cl[p] \in CheckPair
    BY <1>1 DEF CheckLists
  <2>2. CASE p \in dead
    BY <1>4, <2>1, <2>2 DEF CheckPair, PairStates
  <2>3. CASE p \notin dead /\ p \in sent
    <3>1. cl[p].retries + 1 \in 0..MaxRetries
      BY <1>1, <1>3, <2>1, <2>3 DEF CheckPair
    <3> QED BY <1>4, <2>1, <2>3, <3>1 DEF CheckPair, PairStates
  <2>4. CASE p \notin dead /\ p \notin sent /\ p \in thawed
    BY <1>4, <2>1, <2>4 DEF CheckPair, PairStates
  <2>5. CASE p \notin dead /\ p \notin sent /\ p \notin thawed
    BY <1>4, <2>1, <2>5
  <2> QED BY <2>2, <2>3, <2>4, <2>5
<1>6. dl \in CheckLists /\ SameNominee(cl, dl)
  BY <1>4, <1>5 DEF CheckLists, SameNominee
<1>7. ASSUME NEW q \in In(dl, {"Frozen"})
      PROVE  \E r \in In(dl, {"Waiting", "InProgress"}) : Siblings(dl, q, r)
  <2>1. /\ q \in Pairs /\ q \notin dead /\ q \notin sent /\ q \notin thawed
        /\ cl[q].state = "Frozen"
    BY <1>5, <1>7 DEF In
  <2>2. PICK r \in In(cl, {"Waiting", "InProgress"}) : Siblings(cl, q, r)
    BY <2>1 DEF Sound, Led, In
  <2>3. r \in Pairs /\ r \notin dead
    BY <2>1, <2>2 DEF thawed, Thawed, In, Siblings
  <2>4. dl[r].state \in {"Waiting", "InProgress"}
    BY <1>5, <2>2, <2>3 DEF In
  <2>5. Siblings(dl, q, r)
    BY <1>5, <2>1, <2>2, <2>3 DEF Siblings
  <2> QED BY <2>3, <2>4, <2>5 DEF In
<1> QED BY <1>6, <1>7 DEF Sound, Led, dl

\* A list that was just built is sound, has no nominee and nothing was sent.
LEMMA InitialFacts ==
    ASSUME NEW B \in SUBSET Pairs
    PROVE  /\ Sound(assign_initial_pair_states(B))
           /\ \A p \in Pairs : /\ ~assign_initial_pair_states(B)[p].nominee
                               /\ assign_initial_pair_states(B)[p].retries = 0
<1> DEFINE leaders == {p \in B :
                      p = First({q \in B : Foundation[q] = Foundation[p]})}
           cl == assign_initial_pair_states(B)
<1>1. cl = [p \in Pairs |->
          IF p \in leaders THEN [NoPair EXCEPT !.state = "Waiting"]
          ELSE IF p \in B THEN [NoPair EXCEPT !.state = "Frozen"]
          ELSE NoPair]
  BY DEF assign_initial_pair_states
<1>2. NoPair \in CheckPair
  BY CheckAssumption DEF NoPair, CheckPair, PairStates, CheckAssumption
<1> HIDE DEF cl, leaders
<1>3. ASSUME NEW p \in Pairs
      PROVE  /\ cl[p] \in CheckPair /\ ~cl[p].nominee /\ ~cl[p].triggered
             /\ cl[p].retries = 0
             /\ cl[p].state = IF p \in leaders THEN "Waiting"
                              ELSE IF p \in B THEN "Frozen" ELSE "Absent"
  <2>1. NoPair.nominee = FALSE /\ NoPair.triggered = FALSE /\ NoPair.retries = 0
        /\ NoPair.state = "Absent"
    BY DEF NoPair
  <2>2. CASE p \in leaders
    BY <1>1, <1>2, <2>1, <2>2 DEF CheckPair, PairStates
  <2>3. CASE p \notin leaders /\ p \in B
    BY <1>1, <1>2, <2>1, <2>3 DEF CheckPair, PairStates
  <2>4. CASE p \notin leaders /\ p \notin B
    BY <1>1, <1>2, <2>1, <2>4
  <2> QED BY <2>2, <2>3, <2>4
<1>4. cl \in CheckLists
  BY <1>1, <1>3 DEF CheckLists
<1>5. ASSUME NEW p \in In(cl, {"Frozen"})
      PROVE  \E q \in In(cl, {"Waiting", "InProgress"}) : Siblings(cl, p, q)
  <2>1. p \in B
    BY <1>3, <1>5 DEF In
  <2> DEFINE G == {q \in B : Foundation[q] = Foundation[p]}
             q == First(G)
  <2>2. q \in G
    <3>1. G \in SUBSET Pairs /\ G # {}
      BY <2>1
    <3> HIDE DEF G
    <3> QED BY <3>1, FirstIn
  <2>3. G = {r \in B : Foundation[r] = Foundation[q]}
    BY <2>2
  <2>4. q \in leaders
    BY <2>2, <2>3 DEF leaders
  <2>5. p \in Pairs /\ q \in Pairs
    BY <2>1, <2>2
  <2> HIDE DEF q
  <2> QED BY <1>3, <2>2, <2>4, <2>5 DEF In, Siblings
<1> QED BY <1>3, <1>4, <1>5 DEF Sound, Led, cl

\* Sending Waiting pairs that have transmissions left keeps the list sound.
LEMMA TransmitFacts ==
    ASSUME NEW cl, Sound(cl), NEW P, P \subseteq In(cl, {"Waiting"}),
           \A p \in P : cl[p].retries < MaxRetries
    PROVE  /\ Sound(Transmit(cl, P))
           /\ SameNominee(cl, Transmit(cl, P))
<1> DEFINE dl == Transmit(cl, P)
<1>1. cl \in CheckLists /\ MaxRetries \in Nat
  BY CheckAssumption DEF Sound, CheckAssumption
<1>2. ASSUME NEW p \in Pairs
      PROVE  /\ dl[p] \in CheckPair
             /\ dl[p].nominee = cl[p].nominee
             /\ dl[p].triggered = cl[p].triggered
             /\ dl[p].state = IF p \in P THEN "InProgress" ELSE cl[p].state
  <2>1. cl[p] \in CheckPair
    BY <1>1 DEF CheckLists
  <2>2. CASE p \in P
    <3>1. cl[p].retries + 1 \in 0..MaxRetries
      BY <1>1, <2>1, <2>2 DEF CheckPair
    <3> QED BY <2>1, <2>2, <3>1 DEF CheckPair, PairStates, Transmit
  <2>3. CASE p \notin P
    BY <2>1, <2>3 DEF Transmit
  <2> QED BY <2>2, <2>3
<1>3. dl \in CheckLists /\ SameNominee(cl, dl)
  BY <1>2 DEF CheckLists, SameNominee, Transmit
<1> HIDE DEF dl
<1>4. Led(dl)
  <2> SUFFICES ASSUME NEW q \in In(dl, {"Frozen"})
               PROVE  \E r \in In(dl, {"Waiting", "InProgress"}) : Siblings(dl, q, r)
    BY DEF Led
  <2>1. q \in Pairs /\ cl[q].state = "Frozen"
    BY <1>2 DEF In
  <2>2. PICK r \in In(cl, {"Waiting", "InProgress"}) : Siblings(cl, q, r)
    BY <2>1 DEF Sound, Led, In
  <2> QED BY <1>2, <2>1, <2>2 DEF In, Siblings
<1> QED BY <1>3, <1>4 DEF Sound, dl

-----------------------------------------------------------------------------

\* The nominee is the pair the controller selected.
Committed(t) == /\ Sole(t.check_list)
                /\ \A p \in Pairs : t.check_list[p].nominee => t.nominee_selected

\* A TURN attempt under way is one of the servers, and at most one restart
\* was made without a nomination.
Budgets(t) == /\ t.turn_timer => t.turn_attempt < TurnServers
              /\ t.attempts <= 1

\* A connected session has consent misses left and its whole auto-restart
\* budget.
Renewed(t) == t.state = "Connected" => /\ t.consent_missed < ConsentMax
                                       /\ t.attempts = 0
                                       /\ ~t.backoff

Stable(t) == /\ t \in SessionType
             /\ Led(t.check_list)
             /\ Committed(t)
             /\ Budgets(t)

Safe(t) == Stable(t) /\ Renewed(t)

\* A checking session has a timer that drives it, a connected one its
\* consent timer.
Driven(t) == t.state = "Checking" /\ ~Lite => t.check_timer \/ t.wait_timer

Kept(t) == t.state = "Connected" /\ ~Lite => t.keepalive_timer

Watched(t) == Driven(t) /\ Kept(t)

\* After close() has run, its timers are gone and nothing is watched.
Good(t) == Safe(t) /\ (Subscribed => Watched(t))

\* The inductive invariant.
SessionInv == /\ Good(s)
              /\ closing \in {"No", "marked", "closed"}
              /\ inputs \in 0..MaxInputs

-----------------------------------------------------------------------------

\* The values handlers store are of their members' types.
LEMMA Values ==
    /\ TRUE \in BOOLEAN /\ FALSE \in BOOLEAN
    /\ "New" \in States /\ "Gathering" \in States
    /\ "WaitingRemote" \in States /\ "Checking" \in States
    /\ "Connected" \in States /\ "Failed" \in States
    /\ 0 \in 0..ConsentMax /\ 0 \in 0..MaxRecovery /\ 0 \in 0..MaxAttempts
    /\ 0 \in 0..TurnServers /\ 0 \in Ufrags \cup {0}
    /\ "None" \in {"None", "Allocating", "Allocated"}
    /\ "Allocating" \in {"None", "Allocating", "Allocated"}
    /\ "Allocated" \in {"None", "Allocating", "Allocated"}
    /\ {} \in SUBSET Locals /\ {} \in SUBSET Endpoints
    /\ NoNom \in Contexts
BY SessionAssumption DEF SessionAssumption, States, Contexts

\* Storing a value of a member's type leaves a well formed session.
LEMMA Upd ==
    \A t \in SessionType :
      /\ \A x \in States :
           /\ [t EXCEPT !.state = x] \in SessionType
      /\ \A x \in BOOLEAN :
           /\ [t EXCEPT !.controlling = x] \in SessionType
           /\ [t EXCEPT !.symmetric = x] \in SessionType
           /\ [t EXCEPT !.nominee_selected = x] \in SessionType
           /\ [t EXCEPT !.check_timer = x] \in SessionType
           /\ [t EXCEPT !.wait_timer = x] \in SessionType
           /\ [t EXCEPT !.wait_armed = x] \in SessionType
           /\ [t EXCEPT !.keepalive_timer = x] \in SessionType
           /\ [t EXCEPT !.backoff = x] \in SessionType
           /\ [t EXCEPT !.stun_posted = x] \in SessionType
           /\ [t EXCEPT !.probes = x] \in SessionType
           /\ [t EXCEPT !.gather_timer = x] \in SessionType
           /\ [t EXCEPT !.stun_gathered = x] \in SessionType
           /\ [t EXCEPT !.turn_gathering = x] \in SessionType
           /\ [t EXCEPT !.turn_timer = x] \in SessionType
           /\ [t EXCEPT !.turn_posted = x] \in SessionType
           /\ [t EXCEPT !.alloc_posted = x] \in SessionType
      /\ \A x \in SUBSET Locals :
           /\ [t EXCEPT !.local = x] \in SessionType
           /\ [t EXCEPT !.signalled = x] \in SessionType
      /\ \A x \in SUBSET Endpoints :
           /\ [t EXCEPT !.remote = x] \in SessionType
      /\ \A x \in Ufrags \cup {0} :
           /\ [t EXCEPT !.ufrag = x] \in SessionType
      /\ \A x \in CheckLists :
           /\ [t EXCEPT !.check_list = x] \in SessionType
      /\ \A x \in Contexts :
           /\ [t EXCEPT !.pending_nom = x] \in SessionType
           /\ [t EXCEPT !.nominated = x] \in SessionType
      /\ \A x \in 0..ConsentMax :
           /\ [t EXCEPT !.consent_missed = x] \in SessionType
      /\ \A x \in 0..MaxRecovery :
           /\ [t EXCEPT !.recovery = x] \in SessionType
      /\ \A x \in 0..MaxAttempts :
           /\ [t EXCEPT !.attempts = x] \in SessionType
      /\ \A x \in {"None", "Allocating", "Allocated"} :
           /\ [t EXCEPT !.turn = x] \in SessionType
      /\ \A x \in 0..TurnServers :
           /\ [t EXCEPT !.turn_attempt = x] \in SessionType
<1> USE DEF SessionType
<1> TAKE t \in SessionType
<1>1. ASSUME NEW x \in States PROVE [t EXCEPT !.state = x] \in SessionType
  OBVIOUS
<1>2. ASSUME NEW x \in BOOLEAN PROVE [t EXCEPT !.controlling = x] \in SessionType
  OBVIOUS
<1>3. ASSUME NEW x \in SUBSET Locals PROVE [t EXCEPT !.local = x] \in SessionType
  OBVIOUS
<1>4. ASSUME NEW x \in SUBSET Endpoints PROVE [t EXCEPT !.remote = x] \in SessionType
  OBVIOUS
<1>5. ASSUME NEW x \in Ufrags \cup {0} PROVE [t EXCEPT !.ufrag = x] \in SessionType
  OBVIOUS
<1>6. ASSUME NEW x \in BOOLEAN PROVE [t EXCEPT !.symmetric = x] \in SessionType
  OBVIOUS
<1>7. ASSUME NEW x \in CheckLists PROVE [t EXCEPT !.check_list = x] \in SessionType
  OBVIOUS
<1>8. ASSUME NEW x \in BOOLEAN PROVE [t EXCEPT !.nominee_selected = x] \in SessionType
  OBVIOUS
<1>9. ASSUME NEW x \in Contexts PROVE [t EXCEPT !.pending_nom = x] \in SessionType
  OBVIOUS
<1>10. ASSUME NEW x \in Contexts PROVE [t EXCEPT !.nominated = x] \in SessionType
  OBVIOUS
<1>11. ASSUME NEW x \in BOOLEAN PROVE [t EXCEPT !.check_timer = x] \in SessionType
  OBVIOUS
<1>12. ASSUME NEW x \in BOOLEAN PROVE [t EXCEPT !.wait_timer = x] \in SessionType
  OBVIOUS
<1>13. ASSUME NEW x \in BOOLEAN PROVE [t EXCEPT !.wait_armed = x] \in SessionType
  OBVIOUS
<1>14. ASSUME NEW x \in BOOLEAN PROVE [t EXCEPT !.keepalive_timer = x] \in SessionType
  OBVIOUS
<1>15. ASSUME NEW x \in 0..ConsentMax PROVE [t EXCEPT !.consent_missed = x] \in SessionType
  OBVIOUS
<1>16. ASSUME NEW x \in 0..MaxRecovery PROVE [t EXCEPT !.recovery = x] \in SessionType
  OBVIOUS
<1>17. ASSUME NEW x \in 0..MaxAttempts PROVE [t EXCEPT !.attempts = x] \in SessionType
  OBVIOUS
<1>18. ASSUME NEW x \in BOOLEAN PROVE [t EXCEPT !.backoff = x] \in SessionType
  OBVIOUS
<1>19. ASSUME NEW x \in BOOLEAN PROVE [t EXCEPT !.stun_posted = x] \in SessionType
  OBVIOUS
<1>20. ASSUME NEW x \in BOOLEAN PROVE [t EXCEPT !.probes = x] \in SessionType
  OBVIOUS
<1>21. ASSUME NEW x \in BOOLEAN PROVE [t EXCEPT !.gather_timer = x] \in SessionType
  OBVIOUS
<1>22. ASSUME NEW x \in BOOLEAN PROVE [t EXCEPT !.stun_gathered = x] \in SessionType
  OBVIOUS
<1>23. ASSUME NEW x \in BOOLEAN PROVE [t EXCEPT !.turn_gathering = x] \in SessionType
  OBVIOUS
<1>24. ASSUME NEW x \in {"None", "Allocating", "Allocated"} PROVE [t EXCEPT !.turn = x] \in SessionType
  OBVIOUS
<1>25. ASSUME NEW x \in 0..TurnServers PROVE [t EXCEPT !.turn_attempt = x] \in SessionType
  OBVIOUS
<1>26. ASSUME NEW x \in BOOLEAN PROVE [t EXCEPT !.turn_timer = x] \in SessionType
  OBVIOUS
<1>27. ASSUME NEW x \in BOOLEAN PROVE [t EXCEPT !.turn_posted = x] \in SessionType
  OBVIOUS
<1>28. ASSUME NEW x \in BOOLEAN PROVE [t EXCEPT !.alloc_posted = x] \in SessionType
  OBVIOUS
<1>29. ASSUME NEW x \in SUBSET Locals PROVE [t EXCEPT !.signalled = x] \in SessionType
  OBVIOUS
<1> HIDE DEF SessionType
<1> QED BY <1>1, <1>2, <1>3, <1>4, <1>5, <1>6, <1>7, <1>8, <1>9, <1>10, <1>11, <1>12, <1>13, <1>14, <1>15, <1>16, <1>17, <1>18, <1>19, <1>20, <1>21, <1>22, <1>23, <1>24, <1>25, <1>26, <1>27, <1>28, <1>29, Zenon

\* The members Safe depends on are these.
Frame(t, u) == /\ u.state = t.state
               /\ u.check_list = t.check_list
               /\ u.nominee_selected = t.nominee_selected
               /\ u.turn_timer => \/ t.turn_timer /\ u.turn_attempt = t.turn_attempt
                                  \/ u.turn_attempt < TurnServers
               /\ u.attempts = t.attempts
               /\ u.backoff = t.backoff
               /\ u.consent_missed = t.consent_missed

\* The members Watched depends on.
Timers(t, u) == /\ u.check_timer = t.check_timer
                /\ u.wait_timer = t.wait_timer
                /\ u.keepalive_timer = t.keepalive_timer

\* A step that leaves those members alone keeps Safe.
LEMMA FrameSafe ==
    ASSUME NEW t, Safe(t), NEW u \in SessionType, Frame(t, u)
    PROVE  Safe(u)
BY DEF Safe, Stable, Renewed, Committed, Budgets, Frame

\* A step that leaves the timers alone too keeps Watched.
LEMMA FrameGood ==
    ASSUME NEW t, Good(t), NEW u \in SessionType, Frame(t, u), Timers(t, u)
    PROVE  Good(u)
<1>1. Safe(u)
  BY FrameSafe DEF Good
<1> QED BY <1>1 DEF Good, Watched, Driven, Kept, Frame, Timers

\* A session that neither checks nor is connected needs no timer.
LEMMA IdleGood ==
    ASSUME NEW t, Stable(t), NEW u \in SessionType,
           u.state \notin {"Checking", "Connected"},
           u.check_list = t.check_list, u.nominee_selected = t.nominee_selected,
           u.turn_timer = t.turn_timer, u.turn_attempt = t.turn_attempt,
           u.attempts = t.attempts
    PROVE  Good(u)
BY DEF Safe, Stable, Renewed, Committed, Budgets, Good, Watched, Driven, Kept

\* A new check list that is sound and names no other nominee keeps Safe.
LEMMA NewList ==
    ASSUME NEW t, Safe(t), NEW dl, Sound(dl),
           SameNominee(t.check_list, dl) \/ \A p \in Pairs : ~dl[p].nominee
    PROVE  /\ Safe([t EXCEPT !.check_list = dl])
           /\ [t EXCEPT !.check_list = dl].state = t.state
           /\ [t EXCEPT !.check_list = dl].check_list = dl
           /\ [t EXCEPT !.check_list = dl].check_timer = t.check_timer
           /\ [t EXCEPT !.check_list = dl].wait_timer = t.wait_timer
           /\ [t EXCEPT !.check_list = dl].keepalive_timer = t.keepalive_timer
<1> DEFINE u == [t EXCEPT !.check_list = dl]
<1>1. t \in SessionType /\ dl \in CheckLists /\ Led(dl)
  BY DEF Safe, Stable, Sound
<1>2. u \in SessionType
  BY <1>1, Upd, Zenon
<1>3. /\ u.state = t.state /\ u.check_list = dl
      /\ u.check_timer = t.check_timer /\ u.wait_timer = t.wait_timer
      /\ u.keepalive_timer = t.keepalive_timer
      /\ u.nominee_selected = t.nominee_selected
      /\ u.turn_timer = t.turn_timer /\ u.turn_attempt = t.turn_attempt
      /\ u.attempts = t.attempts /\ u.backoff = t.backoff
      /\ u.consent_missed = t.consent_missed
  BY <1>1 DEF SessionType
<1> HIDE DEF u
<1>4. Committed(u)
  <2>1. Committed(t)
    BY DEF Safe, Stable
  <2> QED BY <1>3, <2>1 DEF Committed, Sole, SameNominee
<1>5. Budgets(u) /\ Renewed(u)
  BY <1>3 DEF Safe, Stable, Budgets, Renewed
<1>6. Safe(u)
  BY <1>1, <1>2, <1>3, <1>4, <1>5 DEF Safe, Stable
<1> QED BY <1>3, <1>6 DEF u

\* A session that fails waits for no timer.
LEMMA FailFacts ==
    ASSUME NEW t, Stable(t)
    PROVE  Good(Fail(t))
<1> DEFINE u == Fail(t)
<1>1. t \in SessionType
  BY DEF Stable
<1>2. u \in SessionType
  BY <1>1, Upd, Values, Zenon DEF Fail
<1>3. /\ u.state = "Failed" /\ u.check_list = t.check_list
      /\ u.nominee_selected = t.nominee_selected
      /\ u.turn_timer = t.turn_timer /\ u.turn_attempt = t.turn_attempt
      /\ u.attempts = t.attempts
  BY <1>1 DEF SessionType, Fail
<1> HIDE DEF u
<1>4. Good(u)
  BY <1>2, <1>3, IdleGood
<1> QED BY <1>4 DEF u

\* run_next_check leaves a checking session with its check timer, or with
\* the nomination wait, or failed.
LEMMA RunNextFacts ==
    ASSUME NEW t, Safe(t), Subscribed => Kept(t), NEW elapsed
    PROVE  Good(run_next_check(t, elapsed))
<1> DEFINE cl == t.check_list
           dl == Walk(cl, elapsed)
           next == [t EXCEPT !.check_list = dl]
<1>1. t \in SessionType /\ Sound(cl)
  BY DEF Safe, Stable, Sound, SessionType
<1>2. Safe(next) /\ next.state = t.state
  <2>1. Sound(dl) /\ SameNominee(cl, dl)
    BY <1>1, WalkFacts
  <2> HIDE DEF dl
  <2> QED BY <2>1, NewList
<1>3. unfreeze_stuck_pairs(cl) = cl
  BY <1>1, StuckIdle
<1>4. run_next_check(t, elapsed) \in
        IF t.state # "Checking" THEN {t}
        ELSE {[next EXCEPT !.check_timer = TRUE],
              [next EXCEPT !.wait_armed = TRUE, !.wait_timer = TRUE],
              Fail(next)}
  BY <1>3 DEF run_next_check
<1> HIDE DEF next
<1>5. CASE t.state # "Checking"
  BY <1>4, <1>5 DEF Good, Watched, Driven
<1>6. CASE t.state = "Checking"
  <2>1. next \in SessionType
    BY <1>2 DEF Safe, Stable
  <2>2. ASSUME NEW u \in SessionType, Frame(next, u), u.check_timer \/ u.wait_timer
        PROVE  Safe(u) /\ Watched(u)
    <3>1. Safe(u)
      BY <1>2, <2>2, FrameSafe
    <3> QED BY <1>2, <1>6, <2>2, <3>1 DEF Frame, Watched, Driven, Kept
  <2>3. /\ Safe([next EXCEPT !.check_timer = TRUE])
        /\ Watched([next EXCEPT !.check_timer = TRUE])
    <3> DEFINE u == [next EXCEPT !.check_timer = TRUE]
    <3>1. u \in SessionType
      BY <2>1, Upd, Values, Zenon
    <3>2. Frame(next, u) /\ u.check_timer
      BY <2>1 DEF SessionType, Frame
    <3> HIDE DEF u
    <3>3. Safe(u) /\ Watched(u)
      BY <2>2, <3>1, <3>2
    <3> QED BY <3>3 DEF u
  <2>4. /\ Safe([next EXCEPT !.wait_armed = TRUE, !.wait_timer = TRUE])
        /\ Watched([next EXCEPT !.wait_armed = TRUE, !.wait_timer = TRUE])
    <3> DEFINE u == [next EXCEPT !.wait_armed = TRUE, !.wait_timer = TRUE]
    <3>1. u \in SessionType
      BY <2>1, Upd, Values, Zenon
    <3>2. Frame(next, u) /\ u.wait_timer
      BY <2>1 DEF SessionType, Frame
    <3> HIDE DEF u
    <3>3. Safe(u) /\ Watched(u)
      BY <2>2, <3>1, <3>2
    <3> QED BY <3>3 DEF u
  <2> QED BY <1>2, <1>4, <1>6, <2>3, <2>4, FailFacts DEF Good, Safe
<1> QED BY <1>5, <1>6

\* The pairing formed from the candidates is a set of pairs, so the list
\* that build_check_list makes is sound and names no nominee.
LEMMA BuildFacts ==
    ASSUME NEW t, Safe(t)
    PROVE  /\ Safe(build_check_list(t))
           /\ build_check_list(t).state = t.state
           /\ build_check_list(t).keepalive_timer = t.keepalive_timer
           /\ \A p \in Pairs : build_check_list(t).check_list[p].retries = 0
<1> DEFINE B == Pairing(t)
           dl == assign_initial_pair_states(B)
<1>1. B \in SUBSET Pairs
  BY CheckAssumption DEF Pairing, CheckAssumption
<1>2. Sound(dl) /\ \A p \in Pairs : ~dl[p].nominee /\ dl[p].retries = 0
  BY <1>1, InitialFacts
<1>3. build_check_list(t) = [t EXCEPT !.check_list = dl]
  BY DEF build_check_list
<1> HIDE DEF dl
<1> QED BY <1>2, <1>3, NewList

\* A session that starts checking is driven by a timer, or fails at once.
LEMMA StartCheckingFacts ==
    ASSUME NEW t, Stable(t)
    PROVE  Good(StartChecking(t))
<1> DEFINE u == [t EXCEPT !.state = "Checking"]
           v == build_check_list(u)
           cl == v.check_list
           waiting == In(cl, {"Waiting"})
           ofFamily(f) == {p \in waiting : FamilyOf[p[1]] = f}
           early == {p \in waiting : p = First(ofFamily(FamilyOf[p[1]]))}
           dl == Transmit(cl, early)
           w == [v EXCEPT !.check_list = dl]
<1>1. t \in SessionType
  BY DEF Stable
<1>2. u \in SessionType
  BY <1>1, Upd, Values, Zenon
<1>3. /\ u.state = "Checking" /\ u.check_list = t.check_list
      /\ u.nominee_selected = t.nominee_selected
      /\ u.turn_timer = t.turn_timer /\ u.turn_attempt = t.turn_attempt
      /\ u.attempts = t.attempts
  BY <1>1 DEF SessionType
<1> HIDE DEF u
<1>4. Safe(u)
  BY <1>2, <1>3 DEF Safe, Stable, Renewed, Committed, Budgets
<1>5. /\ Safe(v) /\ v.state = "Checking"
      /\ \A p \in Pairs : cl[p].retries = 0
  BY <1>3, <1>4, BuildFacts
<1> HIDE DEF v
<1>6. Sound(dl) /\ SameNominee(cl, dl)
  <2>1. Sound(cl)
    BY <1>5 DEF Safe, Stable, Sound, SessionType
  <2>2. MaxRetries \in Nat \ {0}
    BY CheckAssumption DEF CheckAssumption
  <2>3. early \subseteq waiting /\ \A p \in early : cl[p].retries < MaxRetries
    BY <1>5, <2>2 DEF In
  <2> HIDE DEF early, cl
  <2> QED BY <2>1, <2>3, TransmitFacts
<1>7. StartChecking(t) = IF Lite THEN v ELSE run_next_check(w, {})
  BY DEF StartChecking, begin_checks, u, v
<1> HIDE DEF dl
<1>8. Safe(w) /\ Kept(w)
  BY <1>5, <1>6, NewList DEF Kept
<1> HIDE DEF w
<1>9. CASE Lite
  BY <1>5, <1>7, <1>9 DEF Good, Watched, Driven, Kept
<1>10. CASE ~Lite
  BY <1>7, <1>8, <1>10, RunNextFacts DEF Good
<1> QED BY <1>9, <1>10
-----------------------------------------------------------------------------

\* Signalling changes only what was signalled.
LEMMA GatheredGood ==
    ASSUME NEW t, Good(t)
    PROVE  Good(on_gathered(t))
<1> DEFINE u == on_gathered(t)
<1>1. t \in SessionType
  BY DEF Good, Safe, Stable
<1>2. t.local \in SUBSET Locals
  BY <1>1 DEF SessionType
<1>3. u \in SessionType
  BY <1>1, <1>2, Upd, Zenon DEF on_gathered
<1>4. Frame(t, u) /\ Timers(t, u)
  BY <1>1 DEF SessionType, on_gathered, Frame, Timers
<1> HIDE DEF u
<1>5. Good(u)
  BY <1>3, <1>4, FrameGood
<1> QED BY <1>5 DEF u

\* Gathering that completes leaves a checking session driven.
LEMMA GatheringCompleteGood ==
    ASSUME NEW t, Good(t)
    PROVE  Good(on_gathering_complete(t))
<1> DEFINE quiet == [t EXCEPT !.probes = FALSE, !.gather_timer = FALSE]
           idle == [quiet EXCEPT !.state = "WaitingRemote"]
<1>1. t \in SessionType
  BY DEF Good, Safe, Stable
<1>2. quiet \in SessionType
  BY <1>1, Upd, Values, Zenon
<1>3. Frame(t, quiet) /\ Timers(t, quiet)
  BY <1>1 DEF SessionType, Frame, Timers
<1>4. on_gathering_complete(t) \in {on_gathered(quiet), on_gathered(idle),
                                    on_gathered(StartChecking(quiet))}
  BY DEF on_gathering_complete
<1> HIDE DEF quiet
<1>5. Good(quiet)
  BY <1>2, <1>3, FrameGood
<1>6. Good(idle)
  <2>1. idle \in SessionType
    BY <1>2, Upd, Values, Zenon
  <2>2. /\ idle.state = "WaitingRemote" /\ idle.check_list = quiet.check_list
        /\ idle.nominee_selected = quiet.nominee_selected
        /\ idle.turn_timer = quiet.turn_timer
        /\ idle.turn_attempt = quiet.turn_attempt
        /\ idle.attempts = quiet.attempts
    BY <1>2 DEF SessionType
  <2> HIDE DEF idle
  <2> QED BY <1>5, <2>1, <2>2, IdleGood DEF Good, Safe
<1>7. Good(StartChecking(quiet))
  BY <1>5, StartCheckingFacts DEF Good, Safe
<1> QED BY <1>4, <1>5, <1>6, <1>7, GatheredGood

\* When TURN is settled gathering goes on or completes.
LEMMA TurnSettledGood ==
    ASSUME NEW t, Good(t)
    PROVE  Good(TurnSettled(t))
<1> DEFINE settled == [t EXCEPT !.turn_gathering = FALSE]
<1>1. t \in SessionType
  BY DEF Good, Safe, Stable
<1>2. settled \in SessionType
  BY <1>1, Upd, Values, Zenon
<1>3. Frame(t, settled) /\ Timers(t, settled)
  BY <1>1 DEF SessionType, Frame, Timers
<1>4. TurnSettled(t) \in {settled, on_gathering_complete(settled)}
  BY DEF TurnSettled
<1> HIDE DEF settled
<1>5. Good(settled)
  BY <1>2, <1>3, FrameGood
<1> QED BY <1>4, <1>5, GatheringCompleteGood

\* A TURN attempt names a server that exists: the index is tested before it
\* is used and is advanced only below the number of servers.
LEMMA TurnAttemptGood ==
    ASSUME NEW t, Good(t), NEW built
    PROVE  Good(try_next_turn_attempt(t, built))
<1> DEFINE idle == [t EXCEPT !.turn = "None", !.turn_timer = FALSE,
                             !.turn_posted = FALSE]
           trying == [idle EXCEPT !.turn = "Allocating", !.turn_timer = TRUE]
           next == [idle EXCEPT !.turn_attempt = @ + 1, !.turn_posted = TRUE]
<1>1. t \in SessionType
  BY DEF Good, Safe, Stable
<1>2. idle \in SessionType
  BY <1>1, Upd, Values, Zenon
<1>3. Frame(t, idle) /\ Timers(t, idle) /\ idle.turn_attempt = t.turn_attempt
      /\ ~idle.turn_timer
  BY <1>1 DEF SessionType, Frame, Timers
<1>4. try_next_turn_attempt(t, built) \in
        IF t.turn_attempt >= TurnServers THEN {TurnSettled(idle)}
        ELSE {trying, next}
  BY DEF try_next_turn_attempt
<1>5. /\ TurnServers \in Nat /\ t.turn_attempt \in 0..TurnServers
  BY <1>1, SessionAssumption DEF SessionType, SessionAssumption
<1> HIDE DEF idle
<1>6. Good(idle)
  BY <1>2, <1>3, FrameGood
<1>7. CASE t.turn_attempt >= TurnServers
  BY <1>4, <1>6, <1>7, TurnSettledGood
<1>8. CASE ~(t.turn_attempt >= TurnServers)
  <2>1. idle.turn_attempt < TurnServers /\ idle.turn_attempt + 1 \in 0..TurnServers
    BY <1>3, <1>5, <1>8
  <2>2. trying \in SessionType
    BY <1>2, Upd, Values, Zenon
  <2>3. next \in SessionType
    BY <1>2, <2>1, Upd, Values, Zenon
  <2>4. Frame(idle, trying) /\ Timers(idle, trying)
    BY <1>2, <2>1 DEF SessionType, Frame, Timers
  <2>5. Frame(idle, next) /\ Timers(idle, next)
    BY <1>2, <1>3 DEF SessionType, Frame, Timers
  <2> HIDE DEF trying, next
  <2>6. Good(trying) /\ Good(next)
    BY <1>6, <2>2, <2>3, <2>4, <2>5, FrameGood
  <2> QED BY <1>4, <1>8, <2>6
<1> QED BY <1>7, <1>8

\* Gathering relay candidates starts with the first server, if there is one.
LEMMA GatherRelayGood ==
    ASSUME NEW t, Good(t), NEW built
    PROVE  Good(gather_relay(t, built))
<1> DEFINE u == [t EXCEPT !.turn_gathering = TRUE, !.turn_attempt = 0]
<1>1. CASE TurnServers = 0
  BY <1>1 DEF gather_relay
<1>2. CASE TurnServers # 0
  <2>1. t \in SessionType
    BY DEF Good, Safe, Stable
  <2>2. u \in SessionType
    BY <2>1, Upd, Values, Zenon
  <2>3. 0 < TurnServers
    BY <1>2, SessionAssumption DEF SessionAssumption
  <2>4. Frame(t, u) /\ Timers(t, u)
    BY <2>1, <2>3 DEF SessionType, Frame, Timers
  <2>5. gather_relay(t, built) = try_next_turn_attempt(u, built)
    BY <1>2 DEF gather_relay
  <2> HIDE DEF u
  <2>6. Good(u)
    BY <2>2, <2>4, FrameGood
  <2> QED BY <2>5, <2>6, TurnAttemptGood
<1> QED BY <1>1, <1>2

\* gather() leaves a session that gathers, or whose gathering completed.
LEMMA GatherGood ==
    ASSUME NEW t, Safe(t), NEW built
    PROVE  Good(gather(t, built))
<1> DEFINE begun == [t EXCEPT !.state = "Gathering"]
           u == gather_host_candidates(begun)
           relayed == gather_relay(u, built)
           asked == [relayed EXCEPT !.stun_posted = TRUE]
<1>1. t \in SessionType
  BY DEF Safe, Stable
<1>2. begun \in SessionType
  BY <1>1, Upd, Values, Zenon
<1>3. u \in SessionType
  <2>1. begun.local \cup HostCands \in SUBSET Locals
    BY <1>2, SessionAssumption DEF SessionType, SessionAssumption
  <2> HIDE DEF begun
  <2> QED BY <1>2, <2>1, Upd, Values, Zenon DEF gather_host_candidates
<1>4. /\ u.state = "Gathering" /\ u.check_list = t.check_list
      /\ u.nominee_selected = t.nominee_selected
      /\ u.turn_timer = t.turn_timer /\ u.turn_attempt = t.turn_attempt
      /\ u.attempts = t.attempts
  BY <1>1 DEF SessionType, gather_host_candidates
<1>5. gather(t, built) \in {asked, relayed, on_gathering_complete(relayed)}
  BY DEF gather
<1> HIDE DEF u
<1>6. Good(u)
  BY <1>3, <1>4, IdleGood DEF Safe
<1>7. Good(relayed)
  BY <1>6, GatherRelayGood
<1> HIDE DEF relayed
<1>8. Good(asked)
  <2>1. relayed \in SessionType
    BY <1>7 DEF Good, Safe, Stable
  <2>2. asked \in SessionType
    BY <2>1, Upd, Values, Zenon
  <2>3. Frame(relayed, asked) /\ Timers(relayed, asked)
    BY <2>1 DEF SessionType, Frame, Timers
  <2> HIDE DEF asked
  <2> QED BY <1>7, <2>2, <2>3, FrameGood
<1>9. Good(on_gathering_complete(relayed))
  BY <1>7, GatheringCompleteGood
<1> HIDE DEF asked
<1> QED BY <1>5, <1>7, <1>8, <1>9

\* The STUN probes start, or gathering completes when no server is reached.
LEMMA StunProbesGood ==
    ASSUME NEW t, Good(t), NEW reached \in BOOLEAN
    PROVE  Good(start_multi_stun_probes(t, reached))
<1> DEFINE begun == [t EXCEPT !.stun_posted = FALSE, !.probes = reached]
           armed == [begun EXCEPT !.gather_timer = TRUE]
<1>1. t \in SessionType
  BY DEF Good, Safe, Stable
<1>2. begun \in SessionType
  BY <1>1, Upd, Values, Zenon
<1>3. Frame(t, begun) /\ Timers(t, begun)
  BY <1>1 DEF SessionType, Frame, Timers
<1>4. start_multi_stun_probes(t, reached) \in {armed, on_gathering_complete(begun)}
  BY DEF start_multi_stun_probes
<1> HIDE DEF begun
<1>5. Good(begun)
  BY <1>2, <1>3, FrameGood
<1>6. armed \in SessionType
  BY <1>2, Upd, Values, Zenon
<1>7. Frame(begun, armed) /\ Timers(begun, armed)
  BY <1>2 DEF SessionType, Frame, Timers
<1> HIDE DEF armed
<1>8. Good(armed)
  BY <1>5, <1>6, <1>7, FrameGood
<1> QED BY <1>4, <1>5, <1>8, GatheringCompleteGood

\* A STUN answer adds its candidate and may complete gathering.
LEMMA GatherResponseGood ==
    ASSUME NEW t, Good(t)
    PROVE  Good(handle_gather_response(t))
<1> DEFINE heard == [t EXCEPT !.probes = FALSE, !.stun_gathered = TRUE,
                              !.local = t.local \cup {SrflxCand}]
           armed == [heard EXCEPT !.gather_timer = TRUE]
<1>1. t \in SessionType
  BY DEF Good, Safe, Stable
<1>2. t.local \cup {SrflxCand} \in SUBSET Locals
  BY <1>1, SessionAssumption DEF SessionType, SessionAssumption
<1>3. heard \in SessionType
  BY <1>1, <1>2, Upd, Values, Zenon
<1>4. Frame(t, heard) /\ Timers(t, heard)
  BY <1>1 DEF SessionType, Frame, Timers
<1>5. handle_gather_response(t) \in {heard, armed, on_gathering_complete(heard)}
  BY DEF handle_gather_response
<1> HIDE DEF heard
<1>6. Good(heard)
  BY <1>3, <1>4, FrameGood
<1>7. armed \in SessionType
  BY <1>3, Upd, Values, Zenon
<1>8. Frame(heard, armed) /\ Timers(heard, armed)
  BY <1>3 DEF SessionType, Frame, Timers
<1> HIDE DEF armed
<1>9. Good(armed)
  BY <1>6, <1>7, <1>8, FrameGood
<1> QED BY <1>5, <1>6, <1>9, GatheringCompleteGood

\* The list may be rebuilt in any state: run_next_check follows.
LEMMA RebuildGood ==
    ASSUME NEW t, Good(t)
    PROVE  Good(run_next_check(build_check_list(t), {}))
<1>1. Safe(t) /\ (Subscribed => Kept(t))
  BY DEF Good, Watched
<1>2. Safe(build_check_list(t)) /\ (Subscribed => Kept(build_check_list(t)))
  BY <1>1, BuildFacts DEF Kept
<1> QED BY <1>2, RunNextFacts

\* A relay candidate that joins while checks run rebuilds the list.
LEMMA OnAllocGood ==
    ASSUME NEW t, Good(t)
    PROVE  Good(on_alloc(t))
<1> DEFINE taken == [t EXCEPT !.alloc_posted = FALSE, !.turn_timer = FALSE]
           wider == [taken EXCEPT !.local = @ \cup {RelayCand}]
           joined == TurnSettled(wider)
           rebuilt == run_next_check(build_check_list(joined), {})
<1>1. t \in SessionType
  BY DEF Good, Safe, Stable
<1>2. taken \in SessionType
  BY <1>1, Upd, Values, Zenon
<1>3. Frame(t, taken) /\ Timers(t, taken)
  BY <1>1 DEF SessionType, Frame, Timers
<1>4. on_alloc(t) \in {taken, joined, rebuilt, on_gathered(rebuilt)}
  BY DEF on_alloc
<1> HIDE DEF taken
<1>5. Good(taken)
  BY <1>2, <1>3, FrameGood
<1>6. taken.local \cup {RelayCand} \in SUBSET Locals
  BY <1>2, SessionAssumption DEF SessionType, SessionAssumption
<1>7. wider \in SessionType
  BY <1>2, <1>6, Upd, Zenon
<1>8. Frame(taken, wider) /\ Timers(taken, wider)
  BY <1>2 DEF SessionType, Frame, Timers
<1> HIDE DEF wider
<1>9. Good(joined)
  BY <1>5, <1>7, <1>8, FrameGood, TurnSettledGood
<1> HIDE DEF joined
<1>10. Good(rebuilt)
  BY <1>9, RebuildGood
<1> QED BY <1>4, <1>5, <1>9, <1>10, GatheredGood

-----------------------------------------------------------------------------

\* An empty check list is sound.
LEMMA NoPairsSound == Sound(NoPairs) /\ \A p \in Pairs : ~NoPairs[p].nominee
<1>1. NoPair \in CheckPair /\ NoPair.state = "Absent" /\ ~NoPair.nominee
  BY CheckAssumption DEF CheckAssumption, NoPair, CheckPair, PairStates
<1>2. NoPairs \in CheckLists /\ \A p \in Pairs : NoPairs[p] = NoPair
  BY <1>1 DEF NoPairs, CheckLists
<1> QED BY <1>1, <1>2 DEF Sound, Led, In

\* A new session is well formed.
LEMMA NewSessionType ==
    ASSUME NEW r \in BOOLEAN PROVE NewSession(r) \in SessionType
<1>1. NoPairs \in CheckLists
  BY NoPairsSound DEF Sound
<1>2. (r /\ ~Lite) \in BOOLEAN
  BY CheckAssumption DEF CheckAssumption
<1> QED BY <1>1, <1>2, Values DEF NewSession, SessionType

\* restart() starts over with what it leaves alone.
LEMMA RestartGood ==
    ASSUME NEW t, Good(t) \/ (Stable(t) /\ t.state # "Failed"), NEW built
    PROVE  Good(restart(t, built))
<1> DEFINE fresh == [NewSession(t.controlling) EXCEPT
                       !.controlling = t.controlling,
                       !.pending_nom = t.pending_nom,
                       !.attempts = t.attempts, !.backoff = t.backoff]
           u == [fresh EXCEPT !.stun_posted = t.stun_posted,
                              !.turn_posted = t.turn_posted,
                              !.alloc_posted = t.alloc_posted]
<1>1. Stable(t) /\ t \in SessionType
  BY DEF Good, Safe, Stable
<1>2. CASE t.state = "Failed"
  BY <1>2 DEF restart
<1>3. CASE t.state # "Failed"
  <2>1. /\ t.controlling \in BOOLEAN /\ t.pending_nom \in Contexts
        /\ t.attempts \in 0..MaxAttempts /\ t.backoff \in BOOLEAN
        /\ t.stun_posted \in BOOLEAN /\ t.turn_posted \in BOOLEAN
        /\ t.alloc_posted \in BOOLEAN
    BY <1>1 DEF SessionType
  <2>2. restart(t, built) = gather(u, built)
    BY <1>3 DEF restart
  <2>3. fresh \in SessionType
    BY <2>1, NewSessionType, Upd, Zenon
  <2>4. /\ fresh.state = "New" /\ fresh.check_list = NoPairs
        /\ fresh.turn_timer = FALSE /\ fresh.attempts = t.attempts
    BY DEF NewSession
  <2> HIDE DEF fresh
  <2>5. u \in SessionType
    BY <2>1, <2>3, Upd, Zenon
  <2>6. /\ u.state = "New" /\ u.check_list = NoPairs
        /\ u.turn_timer = FALSE /\ u.attempts = t.attempts
    BY <2>3, <2>4 DEF SessionType
  <2> HIDE DEF u
  <2>7. t.attempts <= 1
    BY <1>1 DEF Stable, Budgets
  <2>8. Safe(u)
    BY <2>5, <2>6, <2>7, NoPairsSound
       DEF Safe, Stable, Renewed, Committed, Sole, Budgets, Sound
  <2> QED BY <2>2, <2>8, GatherGood
<1> QED BY <1>2, <1>3

\* Consent that is lost for good fails the session or restarts it.
LEMMA ConsentLossGood ==
    ASSUME NEW t, Stable(t), t.state = "Connected", t.attempts = 0, ~t.backoff,
           NEW early, NEW built
    PROVE  Good(notify_consent_loss(t, early, built))
<1> DEFINE u == [t EXCEPT !.attempts = @ + 1, !.backoff = TRUE,
                          !.consent_missed = 0]
<1>1. CASE t.attempts >= MaxAttempts
  BY <1>1, FailFacts DEF notify_consent_loss
<1>2. CASE ~(t.attempts >= MaxAttempts)
  <2>1. notify_consent_loss(t, early, built) = restart(u, built)
    BY <1>2 DEF notify_consent_loss
  <2>2. t \in SessionType
    BY DEF Stable
  <2>3. t.attempts + 1 \in 0..MaxAttempts
    BY <1>2, SessionAssumption DEF SessionAssumption
  <2>4. u \in SessionType
    BY <2>2, <2>3, Upd, Values, Zenon
  <2>5. /\ u.state = t.state /\ u.check_list = t.check_list
        /\ u.nominee_selected = t.nominee_selected
        /\ u.turn_timer = t.turn_timer /\ u.turn_attempt = t.turn_attempt
        /\ u.attempts = t.attempts + 1
    BY <2>2 DEF SessionType
  <2> HIDE DEF u
  <2>6. Stable(u) /\ u.state # "Failed"
    BY <2>4, <2>5 DEF Stable, Committed, Budgets
  <2> QED BY <2>1, <2>6, RestartGood
<1> QED BY <1>1, <1>2

\* Whatever on_keepalive decides, a session that stays connected has its
\* next consent check scheduled.
LEMMA KeepaliveGood ==
    ASSUME NEW t, Safe(t), Subscribed => Driven(t), NEW early, NEW built
    PROVE  Good(on_keepalive(t, early, built))
<1> DEFINE missed == [t EXCEPT !.consent_missed = @ + 1]
           again == [missed EXCEPT !.keepalive_timer = TRUE]
           recovering == [missed EXCEPT !.recovery = @ + 1, !.consent_missed = 0]
<1>1. CASE t.state # "Connected" \/ Lite
  BY <1>1 DEF on_keepalive, Good, Watched, Kept
<1>2. CASE t.state = "Connected" /\ ~Lite
  <2>1. /\ t \in SessionType /\ t.consent_missed < ConsentMax
        /\ t.attempts = 0 /\ ~t.backoff
    BY <1>2 DEF Safe, Stable, Renewed
  <2>2. ConsentMax \in Nat /\ MaxRecovery \in Nat
    BY SessionAssumption DEF SessionAssumption
  <2>3. t.consent_missed \in 0..ConsentMax /\ t.recovery \in 0..MaxRecovery
    BY <2>1 DEF SessionType
  <2>4. t.consent_missed + 1 \in 0..ConsentMax
    BY <2>1, <2>2, <2>3
  <2>5. missed \in SessionType
    BY <2>1, <2>4, Upd, Zenon
  <2>6. /\ missed.state = t.state /\ missed.check_list = t.check_list
        /\ missed.nominee_selected = t.nominee_selected
        /\ missed.turn_timer = t.turn_timer
        /\ missed.turn_attempt = t.turn_attempt
        /\ missed.attempts = t.attempts /\ missed.backoff = t.backoff
        /\ missed.recovery = t.recovery
    BY <2>1 DEF SessionType
  <2>7. on_keepalive(t, early, built) =
          IF missed.consent_missed < ConsentMax THEN again
          ELSE IF t.recovery < MaxRecovery THEN StartChecking(recovering)
          ELSE notify_consent_loss(missed, early, built)
    BY <1>2, Zenon DEF on_keepalive
  <2> HIDE DEF missed
  <2>8. Stable(missed)
    BY <2>5, <2>6 DEF Safe, Stable, Committed, Budgets
  <2>9. ASSUME missed.consent_missed < ConsentMax
        PROVE  Good(again)
    <3>1. again \in SessionType
      BY <2>5, Upd, Values, Zenon
    <3>2. Frame(missed, again) /\ again.keepalive_timer
      BY <2>5 DEF SessionType, Frame
    <3> HIDE DEF again
    <3>3. Safe(missed)
      BY <2>1, <2>6, <2>8, <2>9 DEF Safe, Renewed
    <3>4. Safe(again)
      BY <3>1, <3>2, <3>3, FrameSafe
    <3> QED BY <1>2, <2>6, <3>2, <3>4 DEF Good, Watched, Driven, Kept, Frame
  <2>10. ASSUME t.recovery < MaxRecovery
         PROVE  Good(StartChecking(recovering))
    <3>1. missed.recovery + 1 \in 0..MaxRecovery
      BY <2>2, <2>3, <2>6, <2>10
    <3>2. recovering \in SessionType
      BY <2>5, <3>1, Upd, Values, Zenon
    <3>3. /\ recovering.check_list = missed.check_list
          /\ recovering.nominee_selected = missed.nominee_selected
          /\ recovering.turn_timer = missed.turn_timer
          /\ recovering.turn_attempt = missed.turn_attempt
          /\ recovering.attempts = missed.attempts
      BY <2>5 DEF SessionType
    <3> HIDE DEF recovering
    <3>4. Stable(recovering)
      BY <2>8, <3>2, <3>3 DEF Stable, Committed, Budgets
    <3> QED BY <3>4, StartCheckingFacts
  <2>11. Good(notify_consent_loss(missed, early, built))
    BY <1>2, <2>1, <2>6, <2>8, ConsentLossGood
  <2> HIDE DEF again, recovering
  <2> QED BY <2>7, <2>9, <2>10, <2>11
<1> QED BY <1>1, <1>2

\* A nomination renews the budgets and schedules the first consent check.
LEMMA NominatedGood ==
    ASSUME NEW t, Stable(t), NEW context \in Contexts, NEW built
    PROVE  Good(on_nominated(t, context, built))
<1> DEFINE u == [t EXCEPT !.state = "Connected", !.nominated = context,
                  !.check_timer = FALSE, !.wait_timer = FALSE,
                  !.wait_armed = FALSE, !.consent_missed = 0,
                  !.recovery = 0, !.attempts = 0, !.backoff = FALSE]
<1>1. t \in SessionType
  BY DEF Stable
<1>2. u \in SessionType
  BY <1>1, Upd, Values, Zenon
<1>3. /\ u.state = "Connected" /\ u.check_list = t.check_list
      /\ u.nominee_selected = t.nominee_selected
      /\ u.turn_timer = t.turn_timer /\ u.turn_attempt = t.turn_attempt
      /\ u.attempts = 0 /\ u.consent_missed = 0 /\ u.backoff = FALSE
  BY <1>1 DEF SessionType
<1>4. on_nominated(t, context, built) = on_keepalive(u, FALSE, built)
  BY DEF on_nominated
<1> HIDE DEF u
<1>5. 0 < ConsentMax
  BY SessionAssumption DEF SessionAssumption
<1>6. Safe(u) /\ Driven(u)
  BY <1>2, <1>3, <1>5 DEF Safe, Stable, Renewed, Committed, Budgets, Driven
<1> QED BY <1>4, <1>6, KeepaliveGood

-----------------------------------------------------------------------------

\* Led depends on the states and on which pairs are triggered.
LEMMA SameStates ==
    ASSUME NEW cl, Sound(cl), NEW dl \in CheckLists,
           \A p \in Pairs : /\ dl[p].state = cl[p].state
                            /\ dl[p].triggered = cl[p].triggered
    PROVE  Sound(dl)
BY DEF Sound, Led, In, Siblings

\* A good session's list is sound.
LEMMA GoodList ==
    ASSUME NEW t, Good(t)
    PROVE  t \in SessionType /\ t.check_list \in CheckLists /\ Sound(t.check_list)
BY DEF Good, Safe, Stable, Sound, SessionType

\* A new list that is sound and names no other nominee leaves a good session.
LEMMA NewListGood ==
    ASSUME NEW t, Good(t), NEW dl, Sound(dl),
           SameNominee(t.check_list, dl) \/ \A p \in Pairs : ~dl[p].nominee
    PROVE  Good([t EXCEPT !.check_list = dl])
<1> DEFINE u == [t EXCEPT !.check_list = dl]
<1>1. Safe(u) /\ u.state = t.state /\ Timers(t, u)
  BY NewList DEF Good, Timers
<1> HIDE DEF u
<1>2. Good(u)
  BY <1>1 DEF Good, Watched, Driven, Kept, Timers
<1> QED BY <1>2 DEF u

\* The controller that has not committed yet commits to one valid pair.
LEMMA SelectNomineeGood ==
    ASSUME NEW t, Good(t), ~t.nominee_selected
    PROVE  Good(select_nominee(t))
<1> DEFINE cl == t.check_list
           best == First(Valid(cl))
           dl == [cl EXCEPT ![best].nominee = TRUE]
           el == send_check(dl, best)
           u == [t EXCEPT !.nominee_selected = TRUE, !.check_list = el]
<1>1. CASE Valid(cl) = {}
  BY <1>1 DEF select_nominee
<1>2. CASE Valid(cl) # {}
  <2>1. cl \in CheckLists /\ Sound(cl) /\ t \in SessionType
    BY GoodList
  <2>2. best \in Pairs
    <3>1. Valid(cl) \in SUBSET Pairs
      BY DEF Valid
    <3> QED BY <1>2, <3>1, FirstIn
  <2>3. select_nominee(t) = u
    BY <1>2 DEF select_nominee
  <2> HIDE DEF best
  <2>4. /\ dl \in CheckLists
        /\ \A p \in Pairs : /\ dl[p].state = cl[p].state
                             /\ dl[p].triggered = cl[p].triggered
    BY <2>1, <2>2 DEF CheckLists, CheckPair
  <2>5. \A p \in Pairs : dl[p].nominee => p = best
    <3>1. \A p \in Pairs : ~cl[p].nominee
      BY DEF Good, Safe, Stable, Committed
    <3> QED BY <2>1, <2>2, <3>1 DEF CheckLists, CheckPair
  <2> HIDE DEF dl, cl
  <2>6. Sound(el) /\ SameNominee(dl, el)
    <3>1. Sound(dl)
      BY <2>1, <2>4, SameStates
    <3> QED BY <2>2, <3>1, SendCheckFacts
  <2> HIDE DEF el
  <2>7. el \in CheckLists /\ Led(el)
    BY <2>6 DEF Sound
  <2>8. \A p \in Pairs : el[p].nominee => p = best
    BY <2>5, <2>6 DEF SameNominee
  <2>9. u \in SessionType
    BY <2>1, <2>7, Upd, Values, Zenon
  <2>10. /\ u.check_list = el /\ u.nominee_selected = TRUE
         /\ u.state = t.state /\ Timers(t, u)
         /\ u.turn_timer = t.turn_timer /\ u.turn_attempt = t.turn_attempt
         /\ u.attempts = t.attempts /\ u.backoff = t.backoff
         /\ u.consent_missed = t.consent_missed
    BY <2>1 DEF SessionType, Timers
  <2> HIDE DEF u
  <2>11. Committed(u)
    BY <2>8, <2>10 DEF Committed, Sole
  <2>12. Budgets(u) /\ Renewed(u)
    BY <2>10 DEF Good, Safe, Stable, Budgets, Renewed
  <2>13. Subscribed => Watched(u)
    BY <2>10 DEF Good, Watched, Driven, Kept, Timers
  <2> QED BY <2>3, <2>7, <2>9, <2>10, <2>11, <2>12, <2>13 DEF Good, Safe, Stable
<1> QED BY <1>1, <1>2

\* The answer to a check completes its pair; it may nominate the pair, carry
\* out a deferred nomination, or make the controller commit.
LEMMA CheckResponseGood ==
    ASSUME NEW t, Good(t), NEW p \in Pairs, NEW built
    PROVE  Good(handle_check_response(t, p, built))
<1> DEFINE cl == t.check_list
           dl == [cl EXCEPT ![p].valid = TRUE]
           list == Complete(dl, p, "Succeeded")
           good == [t EXCEPT !.check_list = list]
           cleared == [list EXCEPT ![p].pending = FALSE]
           deferred == [t EXCEPT !.check_list = cleared]
           own == [end |-> p[2],
                   relay |-> p[1] \in RelayLocals \/ p[2] \in RelayEnds]
<1>1. cl \in CheckLists /\ Sound(cl) /\ t \in SessionType
  BY GoodList
<1>2. /\ dl \in CheckLists /\ SameNominee(cl, dl)
      /\ \A q \in Pairs : /\ dl[q].state = cl[q].state
                           /\ dl[q].triggered = cl[q].triggered
  BY <1>1 DEF CheckLists, CheckPair, SameNominee
<1>3. handle_check_response(t, p, built) \in
        {t, on_nominated(deferred, t.pending_nom, built), good,
         on_nominated(good, own, built),
         IF t.nominee_selected \/ cl[p].valid THEN good ELSE select_nominee(good)}
  BY DEF handle_check_response
<1> HIDE DEF dl
<1>4. Sound(list) /\ SameNominee(cl, list)
  <2>1. Sound(dl)
    BY <1>1, <1>2, SameStates
  <2> QED BY <1>2, <2>1, CompleteFacts DEF SameNominee
<1> HIDE DEF list
<1>5. Good(good)
  BY <1>4, NewListGood
<1>6. good.nominee_selected = t.nominee_selected
  BY <1>1 DEF SessionType
<1>7. /\ cleared \in CheckLists /\ SameNominee(list, cleared)
      /\ \A q \in Pairs : /\ cleared[q].state = list[q].state
                           /\ cleared[q].triggered = list[q].triggered
  BY <1>4 DEF CheckLists, CheckPair, SameNominee, Sound
<1> HIDE DEF cleared
<1>8. Sound(cleared) /\ SameNominee(cl, cleared)
  BY <1>4, <1>7, SameStates DEF SameNominee
<1>9. Good(deferred)
  BY <1>8, NewListGood
<1>10. t.pending_nom \in Contexts
  BY <1>1 DEF SessionType
<1>11. own \in Contexts
  BY DEF Contexts, Pairs
<1> HIDE DEF good, deferred, own
<1>12. /\ Good(on_nominated(deferred, t.pending_nom, built))
       /\ Good(on_nominated(good, own, built))
  BY <1>5, <1>9, <1>10, <1>11, NominatedGood DEF Good, Safe
<1>13. CASE t.nominee_selected \/ cl[p].valid
  BY <1>3, <1>5, <1>12, <1>13
<1>14. CASE ~(t.nominee_selected \/ cl[p].valid)
  <2>1. Good(select_nominee(good))
    BY <1>5, <1>6, <1>14, SelectNomineeGood
  <2> QED BY <1>3, <1>5, <1>12, <1>14, <2>1
<1> QED BY <1>13, <1>14

\* A deferred nomination thaws the pair it names, at most.
LEMMA UseCandidateGood ==
    ASSUME NEW t, Good(t), NEW context \in [end : Endpoints, relay : BOOLEAN],
           NEW elapsed, NEW built
    PROVE  Good(use_candidate(t, context, elapsed, built))
<1> DEFINE cl == t.check_list
           match == {p \in Listed(cl) : p[2] = context.end}
           p == First(match)
           pair == cl[p]
           noted == [t EXCEPT !.pending_nom = context]
           dl == [cl EXCEPT ![p] =
                     [pair EXCEPT !.pending = TRUE,
                                  !.state = IF pair.state = "Frozen"
                                            THEN "Waiting" ELSE pair.state]]
           marked == [noted EXCEPT !.check_list = dl]
<1>1. cl \in CheckLists /\ Sound(cl) /\ t \in SessionType
  BY GoodList
<1>2. context \in Contexts
  BY DEF Contexts
<1>3. noted \in SessionType
  BY <1>1, <1>2, Upd, Zenon
<1>4. Frame(t, noted) /\ Timers(t, noted) /\ noted.check_list = cl
  BY <1>1 DEF SessionType, Frame, Timers
<1>5. use_candidate(t, context, elapsed, built) =
        IF match = {} THEN run_next_check(noted, elapsed)
        ELSE IF pair.state = "Succeeded" THEN on_nominated(t, context, built)
        ELSE run_next_check(marked, elapsed)
  BY DEF use_candidate
<1> HIDE DEF noted
<1>6. Good(noted)
  BY <1>3, <1>4, FrameGood
<1>7. ASSUME match # {} PROVE Good(marked)
  <2>1. p \in Pairs
    <3>1. match \in SUBSET Pairs
      BY DEF Listed
    <3>2. p \in match
      BY <1>7, <3>1, FirstIn
    <3> QED BY <3>1, <3>2
  <2> HIDE DEF p, cl
  <2>2. pair \in CheckPair
    BY <1>1, <2>1 DEF CheckLists
  <2> DEFINE new == [pair EXCEPT !.pending = TRUE,
                                 !.state = IF pair.state = "Frozen"
                                           THEN "Waiting" ELSE pair.state]
  <2>3. /\ new \in CheckPair
        /\ new.nominee = pair.nominee
        /\ new.triggered = pair.triggered
        /\ \/ new.state = pair.state
           \/ pair.state = "Frozen" /\ new.state = "Waiting"
    <3> HIDE DEF pair
    <3> QED BY <2>2 DEF CheckPair, PairStates
  <2>4. dl = [cl EXCEPT ![p] = new]
    OBVIOUS
  <2> HIDE DEF new
  <2>5. ASSUME NEW q \in Pairs
        PROVE  /\ dl[q] \in CheckPair
               /\ dl[q].nominee = cl[q].nominee
               /\ dl[q].triggered = cl[q].triggered
               /\ \/ dl[q].state = cl[q].state
                  \/ cl[q].state = "Frozen" /\ dl[q].state = "Waiting"
    <3>1. cl[q] \in CheckPair
      BY <1>1 DEF CheckLists
    <3>2. CASE q # p
      <4>1. dl[q] = cl[q]
        BY <1>1, <2>4, <3>2 DEF CheckLists
      <4> QED BY <3>1, <4>1
    <3>3. CASE q = p
      <4>1. dl[q] = new
        BY <1>1, <2>1, <2>4, <3>3 DEF CheckLists
      <4> QED BY <2>3, <3>3, <4>1
    <3> QED BY <3>2, <3>3
  <2>6. dl \in CheckLists /\ SameNominee(cl, dl)
    BY <1>1, <2>5 DEF CheckLists, SameNominee
  <2> HIDE DEF dl
  <2>7. Led(dl)
    <3> SUFFICES ASSUME NEW q \in In(dl, {"Frozen"})
                 PROVE  \E r \in In(dl, {"Waiting", "InProgress"}) : Siblings(dl, q, r)
      BY DEF Led
    <3>1. q \in Pairs /\ cl[q].state = "Frozen"
      BY <2>5 DEF In
    <3>2. PICK r \in In(cl, {"Waiting", "InProgress"}) : Siblings(cl, q, r)
      BY <1>1, <3>1 DEF Sound, Led, In
    <3> QED BY <2>5, <3>1, <3>2 DEF In, Siblings
  <2> QED BY <1>4, <1>6, <2>6, <2>7, NewListGood DEF Sound
<1>8. ASSUME NEW u, Good(u) PROVE Good(run_next_check(u, elapsed))
  BY <1>8, RunNextFacts DEF Good, Watched
<1>9. Good(on_nominated(t, context, built))
  BY <1>2, NominatedGood DEF Good, Safe
<1> HIDE DEF marked, match
<1> QED BY <1>5, <1>6, <1>7, <1>8, <1>9

\* A pair added for a peer's request was absent: it leads no Frozen pair and
\* replaces none.
LEMMA TriggerGood ==
    ASSUME NEW t, Good(t), NEW e \in Endpoints
    PROVE  Good(maybe_trigger_check_from_peer(t, e))
<1> DEFINE cl == t.check_list
           family == {l \in t.local : FamilyOf[l] = FamilyOf[e]}
           covered == \E p \in Listed(cl) : p[2] = e
           nominated == /\ ~t.controlling
                        /\ t.pending_nom # NoNom
                        /\ t.pending_nom.end = e
           pair == [state |-> "InProgress",
                    retries |-> IF t.state \in {"Checking", "Connected"}
                                THEN 1 ELSE 0,
                    valid |-> FALSE, nominee |-> FALSE,
                    pending |-> nominated, triggered |-> TRUE]
           key == <<FirstLocal(family), e>>
           dl == [cl EXCEPT ![key] = pair]
<1>1. cl \in CheckLists /\ Sound(cl) /\ t \in SessionType
  BY GoodList
<1>2. maybe_trigger_check_from_peer(t, e) =
        IF Lite \/ covered \/ family = {} THEN t ELSE [t EXCEPT !.check_list = dl]
  BY DEF maybe_trigger_check_from_peer
<1>3. CASE Lite \/ covered \/ family = {}
  BY <1>2, <1>3
<1>4. CASE ~(Lite \/ covered \/ family = {})
  <2>1. FirstLocal(family) \in Locals
    <3>1. family \in SUBSET Locals
      BY <1>1 DEF SessionType
    <3>2. FirstLocal(family) \in family
      BY <1>4, <3>1, FirstLocalIn
    <3> QED BY <3>1, <3>2
  <2>2. key \in Pairs /\ key[2] = e
    BY <2>1 DEF Pairs
  <2>3. cl[key].state = "Absent"
    BY <1>4, <2>2 DEF Listed
  <2>4. nominated \in BOOLEAN
    BY Zenon
  <2>5. 1 \in 0..MaxRetries /\ 0 \in 0..MaxRetries
    BY CheckAssumption DEF CheckAssumption
  <2> HIDE DEF nominated, key
  <2>6. pair \in CheckPair /\ pair.state = "InProgress" /\ ~pair.nominee
    BY <2>4, <2>5 DEF CheckPair, PairStates
  <2> HIDE DEF pair, cl
  <2>7. /\ dl \in CheckLists
        /\ \A q \in Pairs : dl[q] = IF q = key THEN pair ELSE cl[q]
    BY <1>1, <2>2, <2>6 DEF CheckLists
  <2> HIDE DEF dl
  <2>8. Led(dl)
    <3> SUFFICES ASSUME NEW q \in In(dl, {"Frozen"})
                 PROVE  \E r \in In(dl, {"Waiting", "InProgress"}) : Siblings(dl, q, r)
      BY DEF Led
    <3>1. q \in Pairs /\ q # key /\ cl[q].state = "Frozen"
      BY <2>6, <2>7 DEF In
    <3>2. PICK r \in In(cl, {"Waiting", "InProgress"}) : Siblings(cl, q, r)
      BY <1>1, <3>1 DEF Sound, Led, In
    <3>3. r \in Pairs /\ r # key
      BY <2>3, <3>2 DEF In
    <3> QED BY <2>7, <3>1, <3>2, <3>3 DEF In, Siblings
  <2>9. \A q \in Pairs : dl[q].nominee => cl[q].nominee
    BY <2>6, <2>7
  <2>10. Good([t EXCEPT !.check_list = dl])
    <3> DEFINE u == [t EXCEPT !.check_list = dl]
    <3>1. u \in SessionType
      BY <1>1, <2>7, Upd, Zenon
    <3>2. /\ u.check_list = dl /\ u.nominee_selected = t.nominee_selected
          /\ u.state = t.state /\ Timers(t, u)
          /\ u.turn_timer = t.turn_timer /\ u.turn_attempt = t.turn_attempt
          /\ u.attempts = t.attempts /\ u.backoff = t.backoff
          /\ u.consent_missed = t.consent_missed
      BY <1>1 DEF SessionType, Timers
    <3> HIDE DEF u
    <3>3. Committed(u)
      BY <2>9, <3>2 DEF Good, Safe, Stable, Committed, Sole, cl
    <3>4. Budgets(u) /\ Renewed(u)
      BY <3>2 DEF Good, Safe, Stable, Budgets, Renewed
    <3>5. Subscribed => Watched(u)
      BY <3>2 DEF Good, Watched, Driven, Kept, Timers
    <3>6. Good(u)
      BY <2>8, <3>1, <3>2, <3>3, <3>4, <3>5 DEF Good, Safe, Stable
    <3> QED BY <3>6 DEF u
  <2> HIDE DEF covered, family
  <2> QED BY <1>2, <1>4, <2>10
<1> QED BY <1>3, <1>4

\* A list that is rebuilt under way leaves the session driven.
LEMMA RebuildIfCheckingGood ==
    ASSUME NEW t, Good(t)
    PROVE  Good(RebuildIfChecking(t))
BY RebuildGood DEF RebuildIfChecking

\* A role switch, with its rebuilt list, leaves a good session.
LEMMA SwitchRoleGood ==
    ASSUME NEW t, Good(t)
    PROVE  Good(switch_role(t))
<1> DEFINE u == [t EXCEPT !.controlling = ~t.controlling]
<1>1. t \in SessionType
  BY GoodList
<1>2. (~t.controlling) \in BOOLEAN
  BY <1>1 DEF SessionType
<1>3. u \in SessionType
  BY <1>1, <1>2, Upd, Zenon
<1>4. Frame(t, u) /\ Timers(t, u)
  BY <1>1 DEF SessionType, Frame, Timers
<1>5. switch_role(t) = RebuildIfChecking(u)
  BY DEF switch_role
<1> HIDE DEF u
<1> QED BY <1>3, <1>4, <1>5, FrameGood, RebuildIfCheckingGood

\* A peer's request leaves a good session, whatever it asks for.
LEMMA BindingRequestGood ==
    ASSUME NEW t, Good(t), NEW context \in [end : Endpoints, relay : BOOLEAN],
           NEW peerControls, NEW useCandidate, NEW elapsed, NEW built
    PROVE  Good(handle_binding_request(t, context, peerControls, useCandidate,
                                       elapsed, built))
<1> DEFINE conflict == peerControls = t.controlling
           played == IF conflict THEN switch_role(t) ELSE t
           since == IF conflict THEN {} ELSE elapsed
           used == use_candidate(played, context, since, built)
           named == IF useCandidate /\ ~played.controlling THEN used ELSE played
<1>1. handle_binding_request(t, context, peerControls, useCandidate, elapsed,
                             built)
        = IF conflict /\ WinsTie THEN t
          ELSE maybe_trigger_check_from_peer(named, context.end)
  BY DEF handle_binding_request
<1>2. context.end \in Endpoints
  OBVIOUS
<1>3. Good(played)
  BY SwitchRoleGood
<1> HIDE DEF played, since
<1>4. Good(used)
  BY <1>3, UseCandidateGood
<1> HIDE DEF used
<1>5. Good(named)
  BY <1>3, <1>4
<1> HIDE DEF named, conflict
<1> QED BY <1>1, <1>2, <1>5, TriggerGood

\* The peer's candidates leave a good session, in every state they may meet.
LEMMA RemoteCandidatesGood ==
    ASSUME NEW t, Good(t), NEW ufrag \in Ufrags, NEW ends \in SUBSET Signalled,
           NEW eoc
    PROVE  Good(add_remote_candidates(t, ufrag, ends, eoc))
<1> DEFINE changed == t.ufrag # 0 /\ t.ufrag # ufrag
           list == IF changed THEN NoPairs ELSE t.check_list
           known == [t EXCEPT !.ufrag = ufrag]
           fresh == [t EXCEPT !.ufrag = ufrag, !.check_list = list]
           selects == eoc /\ t.controlling /\ ~Aggressive /\ ~t.nominee_selected
           picked == IF selects THEN select_nominee(fresh) ELSE fresh
           remote == IF changed THEN ends ELSE picked.remote \cup ends
           merged == [picked EXCEPT !.remote = remote]
<1>1. t \in SessionType
  BY GoodList
<1>2. known \in SessionType
  BY <1>1, Upd, Zenon
<1>3. /\ Frame(t, known) /\ Timers(t, known)
      /\ known.check_list = t.check_list
      /\ known.nominee_selected = t.nominee_selected
  BY <1>1 DEF SessionType, Frame, Timers
<1>4. fresh = [known EXCEPT !.check_list = list]
  OBVIOUS
<1>5. add_remote_candidates(t, ufrag, ends, eoc) \in
        {merged, StartChecking(merged), StartChecking(on_gathered(merged)),
         run_next_check(build_check_list(merged), {})}
  <2>1. add_remote_candidates(t, ufrag, ends, eoc) =
          IF remote = {} THEN merged
          ELSE IF t.state \in {"WaitingRemote", "Gathering"}
          THEN IF t.local = {} THEN merged
               ELSE StartChecking(IF t.controlling THEN merged
                                  ELSE on_gathered(merged))
          ELSE IF t.state = "Checking"
          THEN run_next_check(build_check_list(merged), {})
          ELSE merged
    BY Zenon DEF add_remote_candidates
  <2> HIDE DEF merged, remote
  <2> QED BY <2>1
<1> HIDE DEF known
<1>6. Good(known)
  BY <1>2, <1>3, FrameGood
<1>7. Sound(list) /\ (SameNominee(known.check_list, list)
                        \/ \A p \in Pairs : ~list[p].nominee)
  BY <1>3, GoodList, NoPairsSound DEF SameNominee
<1> HIDE DEF list
<1>8. Good([known EXCEPT !.check_list = list])
  BY <1>6, <1>7, NewListGood
<1>9. Good(fresh)
  BY <1>4, <1>8
<1>10. fresh.nominee_selected = t.nominee_selected
  BY <1>1 DEF SessionType
<1> HIDE DEF fresh
<1>11. Good(picked)
  <2>1. CASE selects
    BY <1>9, <1>10, <2>1, SelectNomineeGood
  <2>2. CASE ~selects
    BY <1>9, <2>2
  <2> QED BY <2>1, <2>2
<1> HIDE DEF picked
<1>12. picked \in SessionType
  BY <1>11, GoodList
<1>13. remote \in SUBSET Endpoints
  BY <1>12, SessionAssumption DEF SessionType, SessionAssumption
<1> HIDE DEF remote
<1>14. merged \in SessionType
  BY <1>12, <1>13, Upd, Zenon
<1>15. Frame(picked, merged) /\ Timers(picked, merged)
  BY <1>12 DEF SessionType, Frame, Timers
<1> HIDE DEF merged
<1>16. Good(merged)
  BY <1>11, <1>14, <1>15, FrameGood
<1>17. Good(on_gathered(merged))
  BY <1>16, GatheredGood
<1>18. Good(StartChecking(merged)) /\ Good(StartChecking(on_gathered(merged)))
  BY <1>16, <1>17, StartCheckingFacts DEF Good, Safe
<1> QED BY <1>5, <1>16, <1>18, RebuildGood

\* The peer's flags leave a good session.
LEMMA PeerFlagsGood ==
    ASSUME NEW t, Good(t), NEW symmetric \in BOOLEAN
    PROVE  Good(set_peer_signal_flags(t, symmetric))
<1> DEFINE u == [t EXCEPT !.symmetric = symmetric]
<1>1. t \in SessionType
  BY GoodList
<1>2. u \in SessionType
  BY <1>1, Upd, Zenon
<1>3. Frame(t, u) /\ Timers(t, u)
  BY <1>1 DEF SessionType, Frame, Timers
<1>4. set_peer_signal_flags(t, symmetric) \in {t, RebuildIfChecking(u)}
  BY DEF set_peer_signal_flags
<1> HIDE DEF u
<1> QED BY <1>2, <1>3, <1>4, FrameGood, RebuildIfCheckingGood

\* close()'s task cancels the timers; the rest of the session is as it was.
LEMMA CloseSafe ==
    ASSUME NEW t, Safe(t)
    PROVE  Safe(CloseTask(t))
<1> DEFINE u == CloseTask(t)
<1>1. t \in SessionType
  BY DEF Safe, Stable
<1>2. u \in SessionType
  BY <1>1, Upd, Values, Zenon DEF CloseTask
<1>3. Frame(t, u)
  BY <1>1 DEF SessionType, Frame, CloseTask
<1> HIDE DEF u
<1>4. Safe(u)
  BY <1>2, <1>3, FrameSafe
<1> QED BY <1>4 DEF u

\* A check that is answered by an error completes its pair.
LEMMA CheckErrorGood ==
    ASSUME NEW t, Good(t), NEW p \in Pairs
    PROVE  Good(on_check_error(t, p))
<1> DEFINE dl == Complete(t.check_list, p, "Failed")
<1>1. Sound(dl) /\ SameNominee(t.check_list, dl)
  BY GoodList, CompleteFacts
<1>2. on_check_error(t, p) = [t EXCEPT !.check_list = dl]
  BY DEF on_check_error
<1> HIDE DEF dl
<1> QED BY <1>1, <1>2, NewListGood

-----------------------------------------------------------------------------

\* A handler's outcome, with or without a close() marked meanwhile.
LEMMA OutcomeInv ==
    ASSUME SessionInv, NEW t, Good(t), Outcome(t), inputs' \in 0..MaxInputs
    PROVE  SessionInv'
<1>1. s' = t /\ closing' \in {closing, "marked"} /\ (closing = "closed" => closing' = closing)
  BY DEF Outcome
<1>2. closing' \in {"No", "marked", "closed"}
  BY <1>1 DEF SessionInv
<1>3. Safe(s') /\ (Subscribed' => Watched(s'))
  BY <1>1 DEF Good, Subscribed
<1> QED BY <1>2, <1>3 DEF SessionInv, Good

\* A new session is good.
LEMMA SessionInit == Init => SessionInv
<1> SUFFICES ASSUME Init PROVE SessionInv
  OBVIOUS
<1> PICK r \in BOOLEAN : s = NewSession(r) /\ closing = "No" /\ inputs = 0
  BY SessionAssumption DEF Init, SessionAssumption
<1>1. NewSession(r) \in SessionType
  BY NewSessionType
<1>2. /\ NewSession(r).state = "New" /\ NewSession(r).check_list = NoPairs
      /\ NewSession(r).turn_timer = FALSE /\ NewSession(r).attempts = 0
  BY DEF NewSession
<1>3. Stable(NewSession(r))
  BY <1>1, <1>2, NoPairsSound DEF Stable, Committed, Sole, Budgets, Sound
<1>4. Good(NewSession(r))
  BY <1>2, <1>3 DEF Good, Safe, Renewed, Watched, Driven, Kept
<1>5. 0 \in 0..MaxInputs
  BY SessionAssumption DEF SessionAssumption
<1> QED BY <1>4, <1>5 DEF SessionInv

\* Every action leaves a good session.
LEMMA SessionStep == SessionInv /\ [Next]_vars => SessionInv'
<1> SUFFICES ASSUME SessionInv, [Next]_vars PROVE SessionInv'
  OBVIOUS
<1>1. Good(s) /\ inputs \in 0..MaxInputs /\ MaxInputs \in Nat /\ s \in SessionType
  BY SessionAssumption, GoodList DEF SessionInv, SessionAssumption
<1>2. ASSUME NEW t, Good(t), Handle(t) PROVE SessionInv'
  BY <1>1, <1>2, OutcomeInv DEF Handle
<1>3. ASSUME NEW t, Good(t), Input(t) PROVE SessionInv'
  <2>1. inputs' \in 0..MaxInputs
    BY <1>1, <1>3 DEF Input
  <2> QED BY <1>3, <2>1, OutcomeInv DEF Input
<1>4. CASE Gather
  BY <1>1, <1>2, <1>4, GatherGood DEF Gather, Good
<1>5. CASE StunStart
  BY <1>1, <1>2, <1>5, StunProbesGood DEF StunStart
<1>6. CASE StunAnswer
  BY <1>1, <1>2, <1>6, GatherResponseGood DEF StunAnswer
<1>7. CASE GatherTimeout
  BY <1>1, <1>2, <1>7, GatheringCompleteGood DEF GatherTimeout
<1>8. CASE TurnNext
  BY <1>1, <1>2, <1>8, TurnAttemptGood DEF TurnNext
<1>9. CASE TurnTimeout
  <2> DEFINE done == [s EXCEPT !.turn_timer = FALSE]
             next == [s EXCEPT !.turn_timer = FALSE,
                               !.turn_attempt = s.turn_attempt + 1]
  <2>1. Good(done)
    <3>1. done \in SessionType
      BY <1>1, Upd, Values, Zenon
    <3>2. Frame(s, done) /\ Timers(s, done)
      BY <1>1 DEF SessionType, Frame, Timers
    <3> HIDE DEF done
    <3> QED BY <1>1, <3>1, <3>2, FrameGood
  <2>2. Good(next)
    <3>1. /\ s.turn_attempt < TurnServers /\ TurnServers \in Nat
          /\ s.turn_attempt \in 0..TurnServers
      BY <1>1, <1>9, SessionAssumption
         DEF TurnTimeout, Good, Safe, Stable, Budgets, SessionType, SessionAssumption
    <3>2. s.turn_attempt + 1 \in 0..TurnServers
      BY <3>1
    <3>3. next \in SessionType
      BY <1>1, <3>2, Upd, Values, Zenon
    <3>4. Frame(s, next) /\ Timers(s, next)
      BY <1>1 DEF SessionType, Frame, Timers
    <3> HIDE DEF next
    <3> QED BY <1>1, <3>3, <3>4, FrameGood
  <2>3. Handle(done) \/ \E built \in Built : Handle(try_next_turn_attempt(next, built))
    BY <1>9 DEF TurnTimeout
  <2> HIDE DEF done, next
  <2> QED BY <1>2, <2>1, <2>2, <2>3, TurnAttemptGood
<1>10. CASE TurnAllocated
  <2> DEFINE u == [s EXCEPT !.turn = "Allocated", !.alloc_posted = TRUE]
  <2>1. u \in SessionType
    BY <1>1, Upd, Values, Zenon
  <2>2. Frame(s, u) /\ Timers(s, u)
    BY <1>1 DEF SessionType, Frame, Timers
  <2>3. Handle(u)
    BY <1>10 DEF TurnAllocated
  <2> HIDE DEF u
  <2> QED BY <1>1, <1>2, <2>1, <2>2, <2>3, FrameGood
<1>11. CASE OnAlloc
  BY <1>1, <1>2, <1>11, OnAllocGood DEF OnAlloc
<1>12. ASSUME NEW elapsed, CheckTick(elapsed) PROVE SessionInv'
  <2> DEFINE u == [s EXCEPT !.check_timer = FALSE]
  <2>1. u \in SessionType
    BY <1>1, Upd, Values, Zenon
  <2>2. Frame(s, u) /\ u.keepalive_timer = s.keepalive_timer
    BY <1>1 DEF SessionType, Frame
  <2>3. Handle(run_next_check(u, elapsed))
    BY <1>12 DEF CheckTick
  <2> HIDE DEF u
  <2>4. Safe(u) /\ (Subscribed => Kept(u))
    BY <1>1, <2>1, <2>2, FrameSafe DEF Good, Watched, Kept, Frame
  <2> QED BY <1>2, <2>3, <2>4, RunNextFacts
<1>13. CASE WaitExpires
  <2> DEFINE u == [s EXCEPT !.wait_timer = FALSE]
  <2>1. u \in SessionType
    BY <1>1, Upd, Values, Zenon
  <2>2. Frame(s, u) /\ u.keepalive_timer = s.keepalive_timer
    BY <1>1 DEF SessionType, Frame
  <2>3. Handle(IF s.state = "Connected" THEN u ELSE Fail(u))
    BY <1>13 DEF WaitExpires
  <2> HIDE DEF u
  <2>4. Safe(u) /\ (Subscribed => Kept(u))
    BY <1>1, <2>1, <2>2, FrameSafe DEF Good, Watched, Kept, Frame
  <2>5. CASE s.state = "Connected"
    <3>1. Good(u)
      BY <2>2, <2>4, <2>5 DEF Good, Watched, Driven, Frame
    <3> QED BY <1>2, <2>3, <2>5, <3>1
  <2>6. CASE s.state # "Connected"
    <3>1. Good(Fail(u))
      BY <2>4, FailFacts DEF Safe
    <3> QED BY <1>2, <2>3, <2>6, <3>1
  <2> QED BY <2>5, <2>6
<1>14. CASE KeepaliveTick
  <2> DEFINE u == [s EXCEPT !.keepalive_timer = FALSE]
  <2>1. u \in SessionType
    BY <1>1, Upd, Values, Zenon
  <2>2. /\ Frame(s, u) /\ u.check_timer = s.check_timer
        /\ u.wait_timer = s.wait_timer
    BY <1>1 DEF SessionType, Frame
  <2>3. \E early \in BOOLEAN, built \in Built : Handle(on_keepalive(u, early, built))
    BY <1>14 DEF KeepaliveTick
  <2> HIDE DEF u
  <2>4. Safe(u) /\ (Subscribed => Driven(u))
    BY <1>1, <2>1, <2>2, FrameSafe DEF Good, Watched, Driven, Frame
  <2> QED BY <1>2, <2>3, <2>4, KeepaliveGood
<1>15. ASSUME NEW p \in Pairs, CheckAnswer(p) PROVE SessionInv'
  BY <1>1, <1>2, <1>15, CheckResponseGood DEF CheckAnswer
<1>16. ASSUME NEW p \in Pairs, CheckError(p) PROVE SessionInv'
  BY <1>1, <1>3, <1>16, CheckErrorGood DEF CheckError
<1>17. CASE ConsentAnswer
  <2> DEFINE u == [s EXCEPT !.consent_missed = 0]
  <2>1. u \in SessionType
    BY <1>1, Upd, Values, Zenon
  <2>2. /\ u.state = s.state /\ u.check_list = s.check_list
        /\ u.nominee_selected = s.nominee_selected
        /\ u.turn_timer = s.turn_timer /\ u.turn_attempt = s.turn_attempt
        /\ u.attempts = s.attempts /\ u.backoff = s.backoff
        /\ u.consent_missed = 0 /\ Timers(s, u)
    BY <1>1 DEF SessionType, Timers
  <2>3. Handle(u)
    BY <1>17 DEF ConsentAnswer
  <2> HIDE DEF u
  <2>4. 0 < ConsentMax
    BY SessionAssumption DEF SessionAssumption
  <2>5. Safe(u)
    BY <1>1, <2>1, <2>2, <2>4
       DEF Good, Safe, Stable, Renewed, Committed, Budgets
  <2>6. Good(u)
    BY <1>1, <2>2, <2>5 DEF Good, Watched, Driven, Kept, Timers
  <2> QED BY <1>2, <2>3, <2>6
<1>18. CASE RoleConflictAnswer
  BY <1>1, <1>3, <1>18, SwitchRoleGood DEF RoleConflictAnswer
<1>19. CASE BindingRequest
  <2>1. PICK e \in Endpoints, relay \in BOOLEAN, peerControls \in BOOLEAN,
             useCandidate \in BOOLEAN, elapsed \in SUBSET InFlight, built \in Built :
          Input(handle_binding_request(s, [end |-> e, relay |-> relay],
                       peerControls, useCandidate, elapsed, built))
    BY <1>19 DEF BindingRequest
  <2>2. [end |-> e, relay |-> relay] \in [end : Endpoints, relay : BOOLEAN]
    OBVIOUS
  <2> QED BY <1>1, <1>3, <2>1, <2>2, BindingRequestGood
<1>20. CASE RemoteCandidates
  BY <1>1, <1>3, <1>20, RemoteCandidatesGood DEF RemoteCandidates
<1>21. CASE PeerFlags
  BY <1>1, <1>3, <1>21, PeerFlagsGood DEF PeerFlags
<1>22. CASE Restart
  BY <1>1, <1>3, <1>22, RestartGood DEF Restart
<1>23. CASE Close
  <2>1. s' = Fail(s) /\ closing' = "marked" /\ inputs' = inputs /\ closing = "No"
    BY <1>23 DEF Close
  <2>2. Good(Fail(s))
    BY <1>1, FailFacts DEF Good, Safe
  <2>3. Safe(s') /\ Watched(s')
    BY <2>1, <2>2 DEF Good, Subscribed
  <2> QED BY <1>1, <2>1, <2>3 DEF SessionInv, Good
<1>24. CASE CloseTaskRuns
  <2>1. s' = CloseTask(s) /\ closing' = "closed" /\ inputs' = inputs
    BY <1>24 DEF CloseTaskRuns
  <2>2. Safe(s')
    BY <1>1, <2>1, CloseSafe DEF Good
  <2> QED BY <1>1, <2>1, <2>2 DEF SessionInv, Good, Subscribed
<1>25. CASE UNCHANGED vars
  <2>1. s' = s /\ closing' = closing /\ inputs' = inputs
    BY <1>25 DEF vars
  <2>2. Safe(s') /\ (Subscribed' => Watched(s'))
    BY <1>1, <2>1 DEF Good, Subscribed
  <2> QED BY <2>1, <2>2 DEF SessionInv, Good
<1> QED
  BY <1>4, <1>5, <1>6, <1>7, <1>8, <1>9, <1>10, <1>11, <1>12, <1>13, <1>14,
     <1>15, <1>16, <1>17, <1>18, <1>19, <1>20, <1>21, <1>22, <1>23, <1>24,
     <1>25 DEF Next

\* The invariant holds in every reachable state.
THEOREM SessionInvariant == Spec => []SessionInv
<1> QED BY SessionInit, SessionStep, PTL DEF Spec

\* The session's members always have their types: consent misses, recovery
\* and restart counters and the TURN server index stay within their limits,
\* and no pair is sent more often than max_check_retries.
THEOREM SessionTypes == Spec => []TypeOK
<1>1. SessionInv => TypeOK
  BY DEF SessionInv, Good, Safe, Stable, TypeOK
<1> QED BY <1>1, SessionInvariant, PTL

\* A checking session is never left without a timer that moves it on.
THEOREM WakeupNeverLost == Spec => []NoLostWakeup
<1>1. SessionInv => NoLostWakeup
  BY DEF SessionInv, Good, Watched, Driven, NoLostWakeup
<1> QED BY <1>1, SessionInvariant, PTL

\* A connected session always has its next consent check scheduled.
THEOREM ConsentAlwaysWatched == Spec => []ConsentWatched
<1>1. SessionInv => ConsentWatched
  BY DEF SessionInv, Good, Watched, Kept, ConsentWatched
<1> QED BY <1>1, SessionInvariant, PTL

\* Every Frozen pair has a sibling that will complete and thaw it, so no
\* pair is ever stuck.
THEOREM NoPairStuck == Spec => []FrozenHasLeader
<1>1. SessionInv => FrozenHasLeader
  BY DEF SessionInv, Good, Safe, Stable, FrozenHasLeader
<1> QED BY <1>1, SessionInvariant, PTL

\* A check list has at most one nominee, and none before the controller
\* committed.
THEOREM NomineeUnique == Spec => []OneNominee
<1>1. SessionInv => OneNominee
  BY DEF SessionInv, Good, Safe, Stable, Committed, OneNominee
<1> QED BY <1>1, SessionInvariant, PTL

\* Every nomination renews the whole auto-restart budget and ends the backoff,
\* and nothing that a connected session does uses any of it up.
THEOREM BudgetRenewed == Spec => []RestartBudget
<1>1. SessionInv => RestartBudget
  BY DEF SessionInv, Good, Safe, Renewed, RestartBudget
<1> QED BY <1>1, SessionInvariant, PTL
=============================================================================
