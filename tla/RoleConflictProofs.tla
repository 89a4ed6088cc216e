------------------------- MODULE RoleConflictProofs -------------------------
(***************************************************************************)
(* The agent with the larger tie-breaker keeps its role, for any pairs,    *)
(* tie-breakers and number of agents.  The inductive fact: a 487 on its    *)
(* way comes from an agent whose tie-breaker is at least the addressee's.  *)
(***************************************************************************)
EXTENDS RoleConflict, TLAPS

\* No agent writes to itself, and only a winner sends a 487.
ErrorsFromWinners ==
    \A m \in net : /\ m.from # m.to
                   /\ m.kind = "error"
                         => Tiebreaker[m.from] >= Tiebreaker[m.to]

Inv == TypeOK /\ ErrorsFromWinners

\* What agrees on who sends what to whom: forgetting transaction ids does.
Carried(n) == /\ n \subseteq Message
              /\ \A m \in n : /\ m.from # m.to
                              /\ m.kind = "error"
                                    => Tiebreaker[m.from] >= Tiebreaker[m.to]

\* What the check lists of the agents are.
Lists == /\ retries \in [Agents -> [Pairs -> 1..MaxRetries]]
         /\ valid \in [Agents -> SUBSET Pairs]

\* A check that send_check sends to another agent is well formed.
LEMMA CheckCarried ==
    ASSUME NEW a \in Agents, NEW b \in Agents, a # b, NEW p \in Pairs,
           NEW n \in 1..MaxRetries, NEW r \in BOOLEAN
    PROVE  Carried({Check(a, b, p, n, r)})
BY DEF Check, Carried, Message

\* So are the first checks of a new list.
LEMMA ChecksCarried ==
    ASSUME NEW a \in Agents, NEW b \in Agents, a # b, NEW r \in BOOLEAN
    PROVE  Carried(Checks(a, b, r))
<1>1. 1 \in 1..MaxRetries
      BY RoleAssumption
<1>2. ASSUME NEW p \in Pairs
      PROVE  Carried({Check(a, b, p, 1, r)})
      BY <1>1, CheckCarried
<1>3. QED BY <1>2 DEF Checks, Carried

\* Forgetting the ids of an agent's checks changes no sender and no kind.
LEMMA ForgetCarried ==
    ASSUME NEW n, Carried(n), NEW a
    PROVE  Carried(Forget(n, a))
<1>1. SUFFICES ASSUME NEW k \in Forget(n, a)
               PROVE  /\ k \in Message /\ k.from # k.to
                      /\ k.kind = "error"
                            => Tiebreaker[k.from] >= Tiebreaker[k.to]
      BY DEF Carried
<1>2. PICK m \in n : k = [m EXCEPT !.fresh = FALSE] \/ k = m
      BY DEF Forget
<1>3. m \in Message /\ m.from # m.to
      /\ (m.kind = "error" => Tiebreaker[m.from] >= Tiebreaker[m.to])
      BY DEF Carried
<1>4. CASE k = m
      BY <1>3, <1>4
<1>5. CASE k = [m EXCEPT !.fresh = FALSE]
      <2>1. /\ k \in Message
            /\ k.from = m.from /\ k.to = m.to /\ k.kind = m.kind
            BY <1>3, <1>5 DEF Message
      <2>2. QED BY <2>1, <1>3
<1>6. QED BY <1>2, <1>4, <1>5

\* A switch of role (handle_role_conflict, or a 487) keeps the network and
\* the check lists well formed and changes the role of the agent that
\* switches only.
LEMMA SwitchCarried ==
    ASSUME NEW a \in Agents, NEW b \in Agents, a # b, NEW n, Carried(n), Lists,
           controlling \in [Agents -> BOOLEAN], Switch(a, b, n)
    PROVE  /\ Carried(net') /\ Lists'
           /\ controlling' \in [Agents -> BOOLEAN]
           /\ \A c \in Agents : c # a => controlling'[c] = controlling[c]
<1>1. Carried(Forget(n, a))
      BY ForgetCarried
<1>2. Carried(Checks(a, b, ~controlling[a]))
      <2>1. (~controlling[a]) \in BOOLEAN
            OBVIOUS
      <2>2. QED BY <2>1, ChecksCarried
<1>3. net' = Forget(n, a) \cup Checks(a, b, ~controlling[a])
      BY DEF Switch
<1>4. Carried(net')
      BY <1>1, <1>2, <1>3 DEF Carried
<1>5. Lists'
      <2>1. [p \in Pairs |-> 1] \in [Pairs -> 1..MaxRetries]
            BY RoleAssumption
      <2>2. QED BY <2>1 DEF Lists, Switch
<1>6. QED BY <1>4, <1>5 DEF Switch

\* An agent that does not win against another is not the one with the
\* largest tie-breaker (the comparison in handle_role_conflict).
LEMMA LoserIsNotTop ==
    ASSUME NEW a \in Agents, NEW x \in Agents, NEW y \in Agents, x # y,
           \/ ~(Tiebreaker[x] >= Tiebreaker[y])
           \/ Tiebreaker[y] >= Tiebreaker[x],
           \A b \in Agents \ {a} : Tiebreaker[a] > Tiebreaker[b]
    PROVE  a # x
<1>1. SUFFICES ASSUME a = x PROVE FALSE
      OBVIOUS
<1>2. Tiebreaker[x] > Tiebreaker[y]
      BY <1>1
<1>3. Tiebreaker[x] \in Nat /\ Tiebreaker[y] \in Nat
      BY RoleAssumption
<1>4. QED BY <1>2, <1>3

\* One step: the invariant is kept, and the agent with the larger
\* tie-breaker keeps its role.
LEMMA RoleStep ==
    ASSUME Inv, [Next]_vars
    PROVE  /\ Inv'
           /\ \A a \in Agents :
                 (\A b \in Agents \ {a} : Tiebreaker[a] > Tiebreaker[b])
                    => controlling'[a] = controlling[a]
<1> USE RoleAssumption
<1> DEFINE Keeps == \A a \in Agents :
                 (\A b \in Agents \ {a} : Tiebreaker[a] > Tiebreaker[b])
                    => controlling'[a] = controlling[a]
<1>1. /\ Carried(net) /\ controlling \in [Agents -> BOOLEAN]
      /\ Lists
      BY DEF Inv, TypeOK, ErrorsFromWinners, Carried, Lists
<1>0. losses' \in 0..MaxLosses
      <2>1. losses \in 0..MaxLosses /\ MaxLosses \in Nat
            BY DEF Inv, TypeOK
      <2>2. losses' = losses \/ (losses < MaxLosses /\ losses' = losses + 1)
            BY DEF Next, Receive, Lose, send_check, vars
      <2>3. QED BY <2>1, <2>2
<1>2. SUFFICES /\ Carried(net') /\ controlling' \in [Agents -> BOOLEAN]
               /\ Lists' /\ Keeps
      BY <1>0 DEF Inv, TypeOK, ErrorsFromWinners, Carried, Lists
<1>3. ASSUME NEW m \in net
      PROVE  /\ Carried(net \ {m})
             /\ m \in Message /\ m.from \in Agents /\ m.to \in Agents
             /\ m.from # m.to
             /\ m.kind = "error" => Tiebreaker[m.from] >= Tiebreaker[m.to]
      BY <1>1 DEF Carried, Message
<1>4. ASSUME NEW m \in net, NEW kind \in {"ok", "error"},
             kind = "error" => Tiebreaker[m.to] >= Tiebreaker[m.from]
      PROVE  Carried((net \ {m}) \cup {Answer(m, kind)})
      <2>1. /\ Answer(m, kind) \in Message
            /\ Answer(m, kind).from = m.to /\ Answer(m, kind).to = m.from
            /\ Answer(m, kind).kind = kind
            BY <1>3, <1>4 DEF Answer, Message
      <2>2. QED BY <2>1, <1>3, <1>4 DEF Carried
<1>5. ASSUME NEW m \in net, handle_binding_request(m)
      PROVE  /\ Carried(net') /\ controlling' \in [Agents -> BOOLEAN]
             /\ Lists' /\ Keeps
      <2>1. CASE m.role = controlling[m.to] /\ ~Wins(m.to, m.from)
            <3>1. Switch(m.to, m.from, (net \ {m}) \cup {Answer(m, "ok")})
                  BY <1>5, <2>1 DEF handle_binding_request
            <3>2. Carried((net \ {m}) \cup {Answer(m, "ok")})
                  BY <1>4
            <3>3. /\ Carried(net') /\ controlling' \in [Agents -> BOOLEAN]
                  /\ Lists'
                  /\ \A c \in Agents : c # m.to
                                          => controlling'[c] = controlling[c]
                  BY <3>1, <3>2, <1>1, <1>3, SwitchCarried
            <3>4. ~(Tiebreaker[m.to] >= Tiebreaker[m.from])
                  BY <2>1 DEF Wins
            <3>5. Keeps
                  <4>1. SUFFICES ASSUME NEW a \in Agents,
                                        \A b \in Agents \ {a} :
                                           Tiebreaker[a] > Tiebreaker[b]
                                 PROVE  a # m.to
                        BY <3>3
                  <4>2. /\ m.to \in Agents /\ m.from \in Agents
                        /\ m.from # m.to
                        BY <1>3
                  <4>3. QED BY <4>1, <4>2, <3>4, LoserIsNotTop
            <3>6. QED BY <3>3, <3>5
      <2>2. CASE ~(m.role = controlling[m.to] /\ ~Wins(m.to, m.from))
            <3>1. PICK kind \in {"ok", "error"} :
                     /\ kind = "error" => Wins(m.to, m.from)
                     /\ net' = (net \ {m}) \cup {Answer(m, kind)}
                     /\ controlling' = controlling
                     /\ retries' = retries /\ valid' = valid
                  BY <1>5, <2>2 DEF handle_binding_request, checklist
            <3>2. Carried(net')
                  BY <3>1, <1>4 DEF Wins
            <3>3. QED BY <3>1, <3>2, <1>1 DEF Lists
      <2>3. QED BY <2>1, <2>2
<1>6. ASSUME NEW m \in net, m.kind = "error", on_role_conflict_answer(m)
      PROVE  /\ Carried(net') /\ controlling' \in [Agents -> BOOLEAN]
             /\ Lists' /\ Keeps
      <2>1. Switch(m.to, m.from, net \ {m})
            BY <1>6 DEF on_role_conflict_answer
      <2>2. /\ Carried(net') /\ controlling' \in [Agents -> BOOLEAN]
            /\ Lists'
            /\ \A c \in Agents : c # m.to => controlling'[c] = controlling[c]
            BY <2>1, <1>1, <1>3, SwitchCarried
      <2>3. Keeps
            <3>1. SUFFICES ASSUME NEW a \in Agents,
                                  \A b \in Agents \ {a} :
                                     Tiebreaker[a] > Tiebreaker[b]
                           PROVE  a # m.to
                  BY <2>2
            <3>2. /\ m.to \in Agents /\ m.from \in Agents /\ m.from # m.to
                  /\ Tiebreaker[m.from] >= Tiebreaker[m.to]
                  BY <1>3, <1>6
            <3>3. QED BY <3>1, <3>2, LoserIsNotTop
      <2>4. QED BY <2>2, <2>3
<1>7. ASSUME NEW m \in net, handle_check_response(m)
      PROVE  /\ Carried(net') /\ controlling' \in [Agents -> BOOLEAN]
             /\ Lists' /\ Keeps
      <2>1. /\ net' = net \ {m} /\ controlling' = controlling
            /\ retries' = retries
            BY <1>7 DEF handle_check_response
      <2>2. m.to \in Agents /\ m.pair \in Pairs
            BY <1>3 DEF Message
      <2>3. valid' \in [Agents -> SUBSET Pairs]
            BY <1>1, <1>7, <2>2 DEF handle_check_response, Lists
      <2>4. QED BY <2>1, <2>3, <1>1, <1>3 DEF Lists
<1>8. ASSUME NEW m \in net, Lose(m)
      PROVE  /\ Carried(net') /\ controlling' \in [Agents -> BOOLEAN]
             /\ Lists' /\ Keeps
      BY <1>1, <1>3, <1>8 DEF Lose, Lists, checklist
<1>9. ASSUME NEW a \in Agents, NEW b \in Agents, NEW p \in Pairs,
             send_check(a, b, p)
      PROVE  /\ Carried(net') /\ controlling' \in [Agents -> BOOLEAN]
             /\ Lists' /\ Keeps
      <2> DEFINE n == retries[a][p] + 1
      <2>1. /\ a # b /\ controlling[a] \in BOOLEAN
            /\ retries[a] \in [Pairs -> 1..MaxRetries]
            /\ n \in 1..MaxRetries
            BY <1>9, <1>1 DEF send_check, Lists
      <2>2. Carried({Check(a, b, p, n, controlling[a])})
            BY <2>1, CheckCarried
      <2>3. /\ net' = net \cup {Check(a, b, p, n, controlling[a])}
            /\ retries' = [retries EXCEPT ![a] = [@ EXCEPT ![p] = n]]
            /\ controlling' = controlling /\ valid' = valid
            BY <1>9 DEF send_check
      <2> HIDE DEF n
      <2>4. Carried(net')
            BY <2>2, <2>3, <1>1 DEF Carried
      <2>5. Lists'
            BY <2>1, <2>3, <1>1 DEF Lists
      <2>6. QED BY <2>3, <2>4, <2>5, <1>1
<1>10. CASE UNCHANGED vars
      BY <1>1, <1>10 DEF vars, checklist, Lists
<1>11. CASE Next
      BY <1>5, <1>6, <1>7, <1>8, <1>9, <1>11 DEF Next, Receive
<1>12. QED BY <1>10, <1>11

\* The network starts with the first checks of every agent.
LEMMA RoleInit == Init => Inv
<1>1. SUFFICES ASSUME Init PROVE Inv
      OBVIOUS
<1>2. Carried(net)
      <2>1. SUFFICES ASSUME NEW m \in net PROVE Carried({m})
            BY DEF Carried
      <2>2. PICK a \in Agents, b \in Agents : m \in Checks(a, b, controlling[a])
            BY <1>1 DEF Init
      <2>3. a # b /\ controlling[a] \in BOOLEAN
            BY <1>1, <2>2 DEF Init, Checks, Check
      <2>4. Carried(Checks(a, b, controlling[a]))
            BY <2>3, ChecksCarried
      <2>5. QED BY <2>2, <2>4 DEF Carried
<1>3. 1 \in 1..MaxRetries /\ 0 \in 0..MaxLosses
      BY RoleAssumption
<1>4. QED BY <1>1, <1>2, <1>3
             DEF Init, Inv, TypeOK, ErrorsFromWinners, Carried

\* Messages stay well formed, and a 487 always comes from a winner.
THEOREM RoleInvariant == Spec => []Inv
<1>1. Inv /\ [Next]_vars => Inv'
      BY RoleStep
<1>2. QED BY <1>1, RoleInit, PTL DEF Spec

\* Roles, messages and check lists have their types: no order of switches,
\* losses and answers makes a check go out more than max_check_retries times.
THEOREM RoleTypes == Spec => []TypeOK
<1>1. Inv => TypeOK
      BY DEF Inv
<1>2. QED BY <1>1, RoleInvariant, PTL

\* The agent with the larger tie-breaker never switches: no order of checks,
\* switches, late or lost 487 answers takes its role away.
THEOREM RoleOfWinner == Spec => WinnerKeepsRole
<1>1. Inv /\ [Next]_vars
        => [\A a \in Agents :
              (\A b \in Agents \ {a} : Tiebreaker[a] > Tiebreaker[b])
                 => controlling'[a] = controlling[a]]_vars
      BY RoleStep
<1>2. QED BY <1>1, RoleInvariant, PTL DEF Spec, WinnerKeepsRole
=============================================================================
