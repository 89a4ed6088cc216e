----------------------------- MODULE IceChecks -----------------------------
(***************************************************************************)
(* The check list of one ICE session and the code that drives it           *)
(* (session.cpp): building the list, the Frozen / Waiting / InProgress     *)
(* pacing, retransmission, triggered checks and nomination.                *)
(*                                                                         *)
(* Every operator is one member function.  It maps the session record s    *)
(* (the members of IceSession that control reads) to the record after the  *)
(* call, so that a handler is the composition of the calls it makes, in    *)
(* the order in which it makes them.                                       *)
(*                                                                         *)
(* A pair is <<local candidate, remote endpoint>>; s.check_list maps every *)
(* pair to its CheckPair, "Absent" when the list has none.  A list that is *)
(* rebuilt has fresh transaction ids, so an answer can only match a pair   *)
(* with retries > 0.  Order is the position in the sorted list.  A timer   *)
(* is TRUE while a callback with the current generation is outstanding.    *)
(***************************************************************************)
EXTENDS Integers, FiniteSets

CONSTANTS Locals,        \* local candidates that may be gathered
          Endpoints,     \* remote endpoints, signalled or only seen
          RelayLocals,   \* the local candidates of type Relay
          RelayEnds,     \* the remote candidates of type Relay
          Pairable,      \* pairs of one family and matching transport
          Foundation,    \* pair -> its foundation tuple
          Order,         \* pair -> its place in priority order, 0 first
          FamilyOf,      \* local candidate or endpoint -> address family
          LocalOrder,    \* local candidate -> its place in gathering order
          Predicted,     \* endpoint -> the endpoints port prediction adds
          MaxRetries,    \* cfg_.max_check_retries
          Cap,           \* kCheckConcurrencyCap
          Lite,          \* cfg_.lite_mode
          Aggressive,    \* cfg_.aggressive_nomination
          NominationWait,\* cfg_.nomination_wait_ms > 0
          NoNom          \* no nomination context

Pairs == Locals \X Endpoints

ASSUME CheckAssumption ==
    /\ RelayLocals \subseteq Locals
    /\ RelayEnds \subseteq Endpoints
    /\ Pairable \subseteq Pairs
    /\ Order \in [Pairs -> Nat]
    /\ \A p, q \in Pairs : Order[p] = Order[q] => p = q
    /\ LocalOrder \in [Locals -> Nat]
    /\ Predicted \in [Endpoints -> SUBSET Endpoints]
    /\ MaxRetries \in Nat \ {0}
    /\ Cap \in Nat \ {0}
    /\ Lite \in BOOLEAN
    /\ Aggressive \in BOOLEAN
    /\ NominationWait \in BOOLEAN
    /\ NoNom \notin [end : Endpoints, relay : BOOLEAN]

PairStates == {"Absent", "Frozen", "Waiting", "InProgress", "Succeeded",
               "Failed"}

CheckPair == [state : PairStates, retries : 0..MaxRetries, valid : BOOLEAN,
              nominee : BOOLEAN, pending : BOOLEAN, triggered : BOOLEAN]

CheckLists == [Pairs -> CheckPair]

NoPair == [state |-> "Absent", retries |-> 0, valid |-> FALSE,
           nominee |-> FALSE, pending |-> FALSE, triggered |-> FALSE]

NoPairs == [p \in Pairs |-> NoPair]

In(cl, states) == {p \in Pairs : cl[p].state \in states}

Listed(cl) == {p \in Pairs : cl[p].state # "Absent"}

Pending(cl) == In(cl, {"Frozen", "Waiting", "InProgress"})

Valid(cl) == {p \in Pairs : cl[p].valid}

\* The first of some pairs in list order, and of some local candidates in
\* the order in which they were gathered.
First(S) == CHOOSE p \in S : \A q \in S : Order[p] <= Order[q]

FirstLocal(S) == CHOOSE l \in S : \A m \in S : LocalOrder[l] <= LocalOrder[m]

(***************************************************************************)
(* Pair states                                                             *)
(***************************************************************************)
\* A triggered pair has a foundation of its own: it has no siblings.
Siblings(cl, p, q) == /\ Foundation[p] = Foundation[q]
                      /\ ~cl[p].triggered /\ ~cl[q].triggered

\* unfreeze_siblings, after every pair of F completed
unfreeze_siblings(cl, F) ==
    [q \in Pairs |-> IF /\ cl[q].state = "Frozen"
                        /\ \E p \in F : Siblings(cl, p, q)
                     THEN [cl[q] EXCEPT !.state = "Waiting"]
                     ELSE cl[q]]

unfreeze_stuck_pairs(cl) ==
    IF In(cl, {"Waiting", "InProgress"}) # {} THEN cl
    ELSE [q \in Pairs |->
            IF /\ cl[q].state = "Frozen"
               /\ q = First({p \in In(cl, {"Frozen"}) :
                                    Foundation[p] = Foundation[q]})
            THEN [cl[q] EXCEPT !.state = "Waiting"]
            ELSE cl[q]]

\* Every Frozen pair has a sibling that is still to complete.
Led(cl) == \A p \in In(cl, {"Frozen"}) :
               \E q \in In(cl, {"Waiting", "InProgress"}) : Siblings(cl, p, q)

\* At most one pair carries the USE-CANDIDATE check.
Sole(cl) == \A p, q \in Pairs : cl[p].nominee /\ cl[q].nominee => p = q

\* A pair that is over: its state, and its siblings unfrozen.
Complete(cl, p, state) ==
    unfreeze_siblings([cl EXCEPT ![p].state = state], {p})

\* Faulty variant of send_check: no retry budget.
SendUnlimited(cl, p) == [cl EXCEPT ![p].retries = @ + 1]

send_check(cl, p) ==
    IF cl[p].retries >= MaxRetries THEN Complete(cl, p, "Failed")
    ELSE [cl EXCEPT ![p].retries = @ + 1]

\* Port prediction adds endpoints when the peer's NAT is symmetric.
Targets(s) == IF s.symmetric
              THEN s.remote \cup UNION {Predicted[e] : e \in s.remote}
              ELSE s.remote

Pairing(s) == (s.local \X Targets(s)) \cap Pairable

assign_initial_pair_states(B) ==
    LET leaders == {p \in B :
                      p = First({q \in B : Foundation[q] = Foundation[p]})}
    IN [p \in Pairs |->
          IF p \in leaders THEN [NoPair EXCEPT !.state = "Waiting"]
          ELSE IF p \in B THEN [NoPair EXCEPT !.state = "Frozen"]
          ELSE NoPair]

build_check_list(s) ==
    [s EXCEPT !.check_list = assign_initial_pair_states(Pairing(s))]

(***************************************************************************)
(* The check driver.  `elapsed` is the set of pairs whose retransmission   *)
(* timeout has passed when run_next_check runs.                            *)
(***************************************************************************)
Fail(s) == [s EXCEPT !.state = "Failed"]

\* The pairs of P go, or stay, on the wire: one more transmission each.
Transmit(cl, P) ==
    [p \in Pairs |-> IF p \in P
                     THEN [cl[p] EXCEPT !.state = "InProgress",
                                        !.retries = @ + 1]
                     ELSE cl[p]]

\* The first pass of run_next_check ends checks that were sent MaxRetries
\* times and repeats the others; the second starts Waiting pairs, in order,
\* while the cap leaves room.
Spent(cl, elapsed) == {p \in In(cl, {"InProgress"}) \cap elapsed :
                          cl[p].retries >= MaxRetries}

\* Faulty variant of Thawed: a pair that times out unfreezes nobody.
ThawedNever(cl, dead) == {}

Thawed(cl, dead) == {q \in In(cl, {"Frozen"}) :
                        \E p \in dead : Siblings(cl, p, q)}

\* Faulty variant of Started: the cap is off by one.
StartedOneMore(cl, dead) ==
    LET ready == {p \in In(cl, {"Waiting"}) \cup Thawed(cl, dead) :
                    cl[p].retries < MaxRetries}
        busy == Cardinality(In(cl, {"InProgress"}) \ dead)
    IN {p \in ready :
          busy + Cardinality({q \in ready : Order[q] < Order[p]}) <= Cap}

Started(cl, dead) ==
    LET ready == {p \in In(cl, {"Waiting"}) \cup Thawed(cl, dead) :
                    cl[p].retries < MaxRetries}
        busy == Cardinality(In(cl, {"InProgress"}) \ dead)
    IN {p \in ready :
          busy + Cardinality({q \in ready : Order[q] < Order[p]}) < Cap}

\* Faulty variant of Walk: a retransmission does not count as a retry.
WalkUncounted(cl, elapsed) ==
    LET dead == Spent(cl, elapsed)
        thawed == Thawed(cl, dead)
    IN [p \in Pairs |->
          IF p \in dead THEN [cl[p] EXCEPT !.state = "Failed"]
          ELSE IF p \in Started(cl, dead)
          THEN [cl[p] EXCEPT !.state = "InProgress", !.retries = @ + 1]
          ELSE IF p \in thawed THEN [cl[p] EXCEPT !.state = "Waiting"]
          ELSE cl[p]]

Walk(cl, elapsed) ==
    LET dead == Spent(cl, elapsed)
        thawed == Thawed(cl, dead)
        sent == Started(cl, dead)
                    \cup ((In(cl, {"InProgress"}) \cap elapsed) \ dead)
    IN [p \in Pairs |->
          IF p \in dead THEN [cl[p] EXCEPT !.state = "Failed"]
          ELSE IF p \in sent THEN [cl[p] EXCEPT !.state = "InProgress",
                                                !.retries = @ + 1]
          ELSE IF p \in thawed THEN [cl[p] EXCEPT !.state = "Waiting"]
          ELSE cl[p]]

run_next_check(s, elapsed) ==
    LET cl == unfreeze_stuck_pairs(s.check_list)
        next == [s EXCEPT !.check_list = Walk(cl, elapsed)]
    IN IF s.state # "Checking" THEN s
       ELSE IF Pending(cl) # Spent(cl, elapsed)
       THEN [next EXCEPT !.check_timer = TRUE]
       ELSE IF /\ ~s.controlling /\ ~s.wait_armed /\ NominationWait
               /\ Valid(cl) # {}
       THEN [next EXCEPT !.wait_armed = TRUE, !.wait_timer = TRUE]
       ELSE Fail(next)

\* The first Waiting pair of each family is sent before the others.
begin_checks(s) ==
    LET waiting == In(s.check_list, {"Waiting"})
        ofFamily(f) == {p \in waiting : FamilyOf[p[1]] = f}
        early == {p \in waiting : p = First(ofFamily(FamilyOf[p[1]]))}
    IN IF Lite THEN s
       ELSE run_next_check(
              [s EXCEPT !.check_list = Transmit(s.check_list, early)], {})

\* Faulty variant of StartChecking: the list is built and not begun.
StartSilently(s) == build_check_list([s EXCEPT !.state = "Checking"])

StartChecking(s) ==
    begin_checks(build_check_list([s EXCEPT !.state = "Checking"]))

\* The list is rebuilt under way: a role switch or new peer flags.
RebuildIfChecking(s) ==
    IF s.state = "Checking" /\ s.local # {} /\ s.remote # {}
    THEN run_next_check(build_check_list(s), {})
    ELSE s

switch_role(s) ==
    RebuildIfChecking([s EXCEPT !.controlling = ~s.controlling])

\* A binding error other than 487 ends the check it answers.
on_check_error(s, p) ==
    [s EXCEPT !.check_list = Complete(s.check_list, p, "Failed")]

maybe_trigger_check_from_peer(s, e) ==
    LET family == {l \in s.local : FamilyOf[l] = FamilyOf[e]}
        covered == \E p \in Listed(s.check_list) : p[2] = e
        nominated == /\ ~s.controlling
                     /\ s.pending_nom # NoNom
                     /\ s.pending_nom.end = e
        pair == [state |-> "InProgress",
                 retries |-> IF s.state \in {"Checking", "Connected"}
                             THEN 1 ELSE 0,
                 valid |-> FALSE, nominee |-> FALSE,
                 pending |-> nominated, triggered |-> TRUE]
    IN IF Lite \/ covered \/ family = {} THEN s
       ELSE [s EXCEPT !.check_list =
                 [s.check_list EXCEPT ![<<FirstLocal(family), e>>] = pair]]

\* Faulty variant of select_nominee: the choice is not recorded.
SelectAgain(s) ==
    LET best == First(Valid(s.check_list))
    IN IF Valid(s.check_list) = {} THEN s
       ELSE [s EXCEPT !.check_list = send_check(
                          [s.check_list EXCEPT ![best].nominee = TRUE], best)]

\* Regular nomination: the best valid pair gets the USE-CANDIDATE check.
select_nominee(s) ==
    LET best == First(Valid(s.check_list))
    IN IF Valid(s.check_list) = {} THEN s
       ELSE [s EXCEPT !.nominee_selected = TRUE,
                      !.check_list = send_check(
                          [s.check_list EXCEPT ![best].nominee = TRUE], best)]
=============================================================================
