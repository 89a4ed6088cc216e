---------------------------- MODULE RoleConflict ----------------------------
(***************************************************************************)
(* Two sessions that check each other, each with a role of its own, and    *)
(* the role-conflict rules by which they agree on who controls             *)
(* (handle_role_conflict, handle_binding_request and the 487 branch of     *)
(* on_carrier_data in session.cpp).  Both stay in Checking with a check    *)
(* list of the same pairs, all of them begun.  A check is sent again until *)
(* its retries are spent or it is answered.  A switch of role rebuilds the *)
(* list, which sends every pair's check anew under a new transaction id:   *)
(* answers to the earlier checks no longer match (`fresh` is FALSE), but a *)
(* 487 is not matched to any check.  `try` tells apart the copies of one   *)
(* check.                                                                  *)
(***************************************************************************)
EXTENDS Integers

CONSTANTS Agents,      \* the two sessions
          Pairs,       \* the candidate pairs they check
          Tiebreaker,  \* tiebreaker_ of each
          MaxRetries,  \* cfg_.max_check_retries
          MaxLosses    \* bound: messages the network loses

ASSUME RoleAssumption == /\ Tiebreaker \in [Agents -> Nat]
                         /\ MaxRetries \in Nat \ {0}
                         /\ MaxLosses \in Nat

VARIABLES controlling,  \* controlling_ of each agent
          net,          \* messages on their way
          retries,      \* of each agent's pairs: how often the check was sent
          valid,        \* the pairs of each agent that succeeded
          losses        \* how many messages were lost

checklist == <<retries, valid>>

vars == <<controlling, net, checklist, losses>>

Message == [kind : {"request", "ok", "error"}, from : Agents, to : Agents,
            pair : Pairs, try : 1..MaxRetries, role : BOOLEAN,
            fresh : BOOLEAN]

\* The check of the pair p that a sends to b in the role r, for the n-th time.
Check(a, b, p, n, r) == [kind |-> "request", from |-> a, to |-> b, pair |-> p,
                         try |-> n, role |-> r, fresh |-> TRUE]

\* The first checks of a new list.
Checks(a, b, r) == {Check(a, b, p, 1, r) : p \in Pairs}

Answer(m, kind) == [m EXCEPT !.kind = kind, !.from = m.to, !.to = m.from]

\* Agent a forgets the transaction ids of its checks.
Forget(msgs, a) ==
    {IF \/ m.kind = "request" /\ m.from = a
        \/ m.kind # "request" /\ m.to = a
     THEN [m EXCEPT !.fresh = FALSE] ELSE m : m \in msgs}

\* Agent a switches and checks b anew; msgs are the other messages.
Switch(a, b, msgs) ==
    /\ controlling' = [controlling EXCEPT ![a] = ~controlling[a]]
    /\ net' = Forget(msgs, a) \cup Checks(a, b, ~controlling[a])
    /\ retries' = [retries EXCEPT ![a] = [p \in Pairs |-> 1]]
    /\ valid' = [valid EXCEPT ![a] = {}]

\* Faulty variant of Wins: the smaller tie-breaker keeps its role.
WinsSmaller(a, b) == Tiebreaker[a] <= Tiebreaker[b]

\* Faulty variant of Wins: the receiver always keeps its role.
WinsAlways(a, b) == TRUE

\* handle_role_conflict: a keeps its role against b.
Wins(a, b) == Tiebreaker[a] >= Tiebreaker[b]

handle_binding_request(m) ==
    LET a == m.to
        rest == net \ {m}
        conflict == m.role = controlling[a]
    IN IF conflict /\ ~Wins(a, m.from)
       THEN Switch(a, m.from, rest \cup {Answer(m, "ok")})
       ELSE /\ net' = rest \cup {Answer(m, IF conflict THEN "error" ELSE "ok")}
            /\ UNCHANGED <<controlling, checklist>>

\* A 487 switches the role, whatever the role is by now.
on_role_conflict_answer(m) == Switch(m.to, m.from, net \ {m})

handle_check_response(m) ==
    /\ valid' = IF m.fresh THEN [valid EXCEPT ![m.to] = @ \cup {m.pair}]
                ELSE valid
    /\ net' = net \ {m}
    /\ UNCHANGED <<controlling, retries>>

Receive(m) == /\ \/ m.kind = "request" /\ handle_binding_request(m)
                 \/ m.kind = "error" /\ on_role_conflict_answer(m)
                 \/ m.kind = "ok" /\ handle_check_response(m)
              /\ UNCHANGED losses

\* A datagram is lost.
Lose(m) == /\ losses < MaxLosses
           /\ losses' = losses + 1
           /\ net' = net \ {m}
           /\ UNCHANGED <<controlling, checklist>>

\* Faulty variant of send_check: the retry budget is not looked at.
SendAgain(a, b, p) ==
    /\ a # b
    /\ p \notin valid[a]
    /\ retries' = [retries EXCEPT ![a][p] = @ + 1]
    /\ net' = net \cup {Check(a, b, p, retries[a][p] + 1, controlling[a])}
    /\ UNCHANGED <<controlling, valid, losses>>

\* The check of a pair is sent again (run_next_check, send_check).
send_check(a, b, p) ==
    /\ a # b
    /\ p \notin valid[a]
    /\ retries[a][p] < MaxRetries
    /\ retries' = [retries EXCEPT ![a][p] = @ + 1]
    /\ net' = net \cup {Check(a, b, p, retries[a][p] + 1, controlling[a])}
    /\ UNCHANGED <<controlling, valid, losses>>

Init == /\ controlling \in [Agents -> BOOLEAN]
        /\ net = {m \in UNION {Checks(a, b, controlling[a]) : a, b \in Agents} :
                    m.from # m.to}
        /\ retries = [a \in Agents |-> [p \in Pairs |-> 1]]
        /\ valid = [a \in Agents |-> {}]
        /\ losses = 0

Next == \/ \E m \in net : Receive(m) \/ Lose(m)
        \/ \E a, b \in Agents, p \in Pairs : send_check(a, b, p)

Spec == Init /\ [][Next]_vars

Arriving(a, kind) == {m \in net : m.to = a /\ m.kind = kind}

\* The check timer fires, and messages that are not lost arrive.
FairSpec == /\ Spec
            /\ \A a \in Agents, p \in Pairs :
                  WF_vars(\E b \in Agents : send_check(a, b, p))
            /\ \A a \in Agents, kind \in {"request", "ok", "error"} :
                  WF_vars(\E m \in Arriving(a, kind) : Receive(m))

-----------------------------------------------------------------------------

\* Messages are well formed, and no check is sent more often than
\* max_check_retries allows, however many switches rebuild the list.
TypeOK == /\ controlling \in [Agents -> BOOLEAN]
          /\ net \subseteq Message
          /\ retries \in [Agents -> [Pairs -> 1..MaxRetries]]
          /\ valid \in [Agents -> SUBSET Pairs]
          /\ losses \in 0..MaxLosses

\* The agent with the larger tie-breaker keeps the role it started with,
\* whatever the order of the checks and of the answers.
WinnerKeepsRole ==
    [][\A a \in Agents :
          (\A b \in Agents \ {a} : Tiebreaker[a] > Tiebreaker[b])
             => controlling'[a] = controlling[a]]_vars

Conflict == \E a, b \in Agents : a # b /\ controlling[a] = controlling[b]

\* The 487 answers to a's checks, and the checks that are to get one.
Rejected(a) ==
    {m \in net : \/ m.kind = "error" /\ m.to = a
                 \/ /\ m.kind = "request" /\ m.from = a
                    /\ m.role = controlling[m.to]}

\* Roles settle: from some moment on the agents have opposite roles, when
\* the tie-breakers differ and fewer datagrams are lost than a check is sent.
\* The exception is an agent that over and over has two checks rejected at
\* once: on_carrier_data matches a 487 to no check, and the second one undoes
\* the switch that the first one made.
RolesSettle == \/ <>[]~Conflict
               \/ \E a \in Agents : []<>(\E m, n \in Rejected(a) : m # n)
=============================================================================
