------------------------------ MODULE LinkIce ------------------------------
(***************************************************************************)
(* The link's registry of sessions (IceLink in link_ice.cpp): sessions of  *)
(* the kernel, sessions of a composer, the routing of signals to them, the *)
(* reaper, and shutdown.                                                   *)
(*                                                                         *)
(* Threads of the host call the API; one worker runs the sessions'         *)
(* handlers, their callbacks and the reaper.  A step is what a thread does *)
(* under one lock, or between two: call[t] and work are where a thread is  *)
(* between its steps.                                                      *)
(*                                                                         *)
(* Of a session's own behaviour only what the link reacts to is kept: it   *)
(* gathers, is nominated, starts over, or fails, as SessionLife says and   *)
(* IceSession implements.  What it does with the candidates of a signal is *)
(* IceSession's.                                                           *)
(***************************************************************************)
EXTENDS Integers, Sequences, FiniteSets

CONSTANTS Peers,
          Ids,       \* the conn ids the kernel hands out
          Cids,      \* composer ids, with kComposerIdBit
          Threads,   \* threads of the host
          None,
          MaxSessions  \* bound: how many sessions are ever made

ASSUME LinkAssumption == Ids \cap Cids = {} /\ None \notin Cids

VARIABLES session,              \* the IceSession objects, by id
          sessions,             \* ids that sessions_ holds
          peer_to_ids,          \* peer_to_ids_
          published_ids,        \* published_ids_
          composer_sessions,    \* ids that composer_sessions_ holds
          composer_peer_to_id,  \* composer_peer_to_id_
          nominated,            \* ComposerEntry::nominated, by id
          call,                 \* what each thread is doing
          work,                 \* what the worker is doing
          stage,                \* how far shutdown() is
          notified,             \* notify_disconnect calls per id
          accepts               \* accept callbacks per composer id, up to two

registry == <<sessions, peer_to_ids, published_ids>>
composer == <<composer_sessions, composer_peer_to_id, nominated>>
reports == <<notified, accepts>>
vars == <<session, registry, composer, call, work, stage, reports>>

NoSession == [peer |-> None, state |-> "None", closed |-> FALSE,
              failed |-> FALSE]
NewSession(p) == [NoSession EXCEPT !.peer = p, !.state = "New"]
Idle == [op |-> "idle"]

Unused(S) == {x \in S : session[x] = NoSession}

\* The next id, if there is one left: which one it is makes no difference.
Fresh(S) ==
    LET made == (Ids \cup Cids) \ Unused(Ids \cup Cids)
    IN IF Unused(S) = {} \/ Cardinality(made) >= MaxSessions THEN {}
       ELSE {CHOOSE x \in Unused(S) : TRUE}
Return(t) == call' = [call EXCEPT ![t] = Idle]
Continue(t, c) == call' = [call EXCEPT ![t] = c]

\* shutdown_, which most calls test before they take a lock.
Up == stage = "up"

Init == /\ session = [x \in Ids \cup Cids |-> NoSession]
        /\ sessions = {} /\ peer_to_ids = [p \in Peers |-> <<>>]
        /\ published_ids = {}
        /\ composer_sessions = {}
        /\ composer_peer_to_id = [p \in Peers |-> None]
        /\ nominated = [x \in Cids |-> FALSE]
        /\ call = [t \in Threads |-> Idle] /\ work = Idle /\ stage = "up"
        /\ notified = [x \in Ids |-> 0] /\ accepts = [x \in Cids |-> 0]

(***************************************************************************)
(* The registry                                                            *)
(***************************************************************************)
\* Faulty variant of Register: the id is not recorded as published.
RegisterUnpublished(x, p) ==
    /\ sessions' = sessions \cup {x}
    /\ peer_to_ids' = [peer_to_ids EXCEPT ![p] = Append(@, x)]
    /\ UNCHANGED published_ids

\* notify_connect gave the id x; the session of peer p is entered under it.
Register(x, p) ==
    /\ sessions' = sessions \cup {x}
    /\ peer_to_ids' = [peer_to_ids EXCEPT ![p] = Append(@, x)]
    /\ published_ids' = published_ids \cup {x}

\* Faulty variant of erase_peer_id: only the oldest id is looked at.
EraseFront(ids, x) == IF ids # <<>> /\ Head(ids) = x THEN Tail(ids) ELSE ids

\* How many positions of K come before i.
Before(K, i) == Cardinality({j \in K : j < i})

\* std::remove and erase: the positions that do not hold x move up, in order.
erase_peer_id(ids, x) ==
    LET kept == {i \in DOMAIN ids : ids[i] # x}
    IN [k \in 1..Cardinality(kept) |->
          ids[CHOOSE i \in kept : Before(kept, i) = k - 1]]

Erase(x) ==
    /\ sessions' = sessions \ {x}
    /\ peer_to_ids' = [peer_to_ids EXCEPT
                         ![session[x].peer] = erase_peer_id(@, x)]
    /\ UNCHANGED published_ids

\* The sessions of X that a handler may take on after close(): one whose
\* gather() is posted, or whose handler is running.
Overtaken(X) == {x \in X : \/ session[x].state = "New"
                           \/ /\ session[x].state \in {"Running", "Connected"}
                              /\ work = Idle /\ stage # "down"}

\* IceSession::close, for the sessions of X: a handler that comes after it
\* overwrites the Failed it stores.
Close(X) ==
    \E kept \in SUBSET Overtaken(X) :
       session' = [x \in Ids \cup Cids |->
                     IF x \notin X THEN session[x]
                     ELSE [session[x] EXCEPT !.closed = TRUE,
                              !.state = IF x \in kept THEN @ ELSE "Failed"]]

\* Faulty variant of CloseAndNotify: the session is left to its own devices.
NotifyOnly(x) == /\ notified' = [notified EXCEPT ![x] = @ + 1]
                 /\ UNCHANGED <<session, accepts>>

\* disconnect, after its lock.
CloseAndNotify(x) == /\ Close({x})
                     /\ notified' = [notified EXCEPT ![x] = @ + 1]
                     /\ UNCHANGED accepts

(***************************************************************************)
(* Calls of the host                                                       *)
(***************************************************************************)
\* connect, composer_connect and deliver_signal go on when shutdown_ is not
\* set; a malformed argument or a pair of lite agents changes nothing.
Enter(t, p) ==
    /\ call[t] = Idle /\ Up
    /\ Continue(t, [op |-> "entered", peer |-> p])
    /\ UNCHANGED <<session, registry, composer, work, stage, reports>>

\* A session of peer p, unless the kernel refuses the connection.
NewConnection(p) ==
    \/ UNCHANGED <<session, registry>>
    \/ \E x \in Fresh(Ids) :
          /\ Register(x, p)
          /\ session' = [session EXCEPT ![x] = NewSession(p)]

\* Under sessions_mu_.  gather() is posted.
connect(t) == /\ call[t].op = "entered"
              /\ NewConnection(call[t].peer) /\ Return(t)
              /\ UNCHANGED <<composer, work, stage, reports>>

\* Under composer_mu_: a peer's second connect gets the id of the first.
composer_connect(t) ==
    LET p == call[t].peer
    IN /\ call[t].op = "entered"
       /\ IF composer_peer_to_id[p] # None
          THEN UNCHANGED <<session, composer>>
          ELSE \E x \in Fresh(Cids) :
                 /\ session' = [session EXCEPT ![x] = NewSession(p)]
                 /\ composer_sessions' = composer_sessions \cup {x}
                 /\ composer_peer_to_id' = [composer_peer_to_id EXCEPT
                                              ![p] = x]
                 /\ UNCHANGED nominated
       /\ Return(t)
       /\ UNCHANGED <<registry, work, stage, reports>>

\* deliver_signal, an offer: to the composer's session (composer_mu_) ...
OfferToComposer(t) ==
    /\ call[t].op = "entered"
    /\ IF composer_peer_to_id[call[t].peer] # None THEN Return(t)
       ELSE Continue(t, [call[t] EXCEPT !.op = "offer"])
    /\ UNCHANGED <<session, registry, composer, work, stage, reports>>

\* ... or to the peer's only session, or to a new one (sessions_mu_).
OfferToSession(t) ==
    LET p == call[t].peer
    IN /\ call[t].op = "offer"
       /\ IF Len(peer_to_ids[p]) = 1 THEN UNCHANGED <<session, registry>>
          ELSE NewConnection(p)
       /\ Return(t)
       /\ UNCHANGED <<composer, work, stage, reports>>

disconnect(t) ==
    /\ call[t] = Idle
    /\ \E x \in sessions :
          Erase(x) /\ Continue(t, [op |-> "close", id |-> x])
    /\ UNCHANGED <<session, composer, work, stage, reports>>

DisconnectEnds(t) == /\ call[t].op = "close"
                     /\ CloseAndNotify(call[t].id) /\ Return(t)
                     /\ UNCHANGED <<registry, composer, work, stage>>

\* Faulty variant of EraseComposer: the peer's entry becomes GN_INVALID_ID.
EraseToInvalid(x) ==
    /\ composer_sessions' = composer_sessions \ {x}
    /\ composer_peer_to_id' = [composer_peer_to_id EXCEPT
                                 ![session[x].peer] = 0]
    /\ UNCHANGED nominated

EraseComposer(x) ==
    /\ composer_sessions' = composer_sessions \ {x}
    /\ composer_peer_to_id' = [composer_peer_to_id EXCEPT
                                 ![session[x].peer] = None]
    /\ UNCHANGED nominated

disconnect_composer(t) ==
    /\ call[t] = Idle
    /\ \E x \in composer_sessions :
          EraseComposer(x) /\ Close({x})
    /\ UNCHANGED <<registry, call, work, stage, reports>>

-----------------------------------------------------------------------------
\* shutdown: the kernel's sessions (sessions_mu_) ...
shutdown(t) ==
    /\ call[t] = Idle /\ Up
    /\ stage' = "sessions"
    /\ Continue(t, [op |-> "shutdown", ids |-> published_ids,
                    live |-> sessions])
    /\ sessions' = {} /\ published_ids' = {}
    /\ peer_to_ids' = [p \in Peers |-> <<>>]
    /\ UNCHANGED <<session, composer, work, reports>>

\* ... the composer's (composer_mu_) ...
ShutdownComposer(t) ==
    /\ call[t].op = "shutdown" /\ stage = "sessions"
    /\ stage' = "composer"
    /\ Continue(t, [call[t] EXCEPT !.live = @ \cup composer_sessions])
    /\ composer_sessions' = {}
    /\ composer_peer_to_id' = [p \in Peers |-> None]
    /\ UNCHANGED <<session, registry, nominated, work, reports>>

\* ... close them, tell the kernel of every id it was given ...
ShutdownReports(t) ==
    /\ call[t].op = "shutdown" /\ stage = "composer"
    /\ stage' = "stopping"
    /\ Close(call[t].live)
    /\ notified' = [x \in Ids |-> IF x \in call[t].ids THEN notified[x] + 1
                                  ELSE notified[x]]
    /\ UNCHANGED <<registry, composer, call, work, accepts>>

\* ... and stop and join the worker, which finishes what it is doing.
ShutdownJoins(t) ==
    /\ call[t].op = "shutdown" /\ stage = "stopping" /\ work = Idle
    /\ stage' = "down" /\ Return(t)
    /\ UNCHANGED <<session, registry, composer, work, reports>>

(***************************************************************************)
(* The worker                                                              *)
(***************************************************************************)
Ready == work = Idle /\ stage # "down"

SetState(x, state) == session' = [session EXCEPT ![x].state = state]

\* The posted gather() runs.
Gather(x) == /\ Ready /\ session[x].state = "New" /\ SetState(x, "Running")
             /\ UNCHANGED <<registry, composer, call, work, stage, reports>>

\* Consent recovery, restart_session, on_interface_change: checks start over.
Recheck(x) == /\ Ready /\ session[x].state = "Connected"
              /\ SetState(x, "Running")
              /\ UNCHANGED <<registry, composer, call, work, stage, reports>>

\* Two accepts already tell a repeated one.
OneMore(n) == IF n = 2 THEN 2 ELSE n + 1

\* Faulty variant of on_connected: every nomination is an accept.
ConnectedAgain(x) ==
    /\ nominated' = [nominated EXCEPT ![x] = TRUE]
    /\ accepts' = [accepts EXCEPT ![x] = OneMore(@)]

\* on_connected of a composer session: the accept callback is called, unless
\* the entry says it was.
on_connected(x) ==
    IF x \in composer_sessions /\ nominated[x]
    THEN UNCHANGED <<nominated, accepts>>
    ELSE /\ nominated' = [nominated EXCEPT ![x] = @ \/ x \in composer_sessions]
         /\ accepts' = [accepts EXCEPT ![x] = OneMore(@)]

\* A late USE-CANDIDATE nominates a session that has failed or was closed,
\* too.  The callbacks test shutdown_ without a lock, so they may go on after
\* it is set; once the composer's maps are cleared no accept callback is left.
Nominated(x) ==
    /\ Ready /\ session[x].state \in {"Running", "Connected", "Failed"}
    /\ SetState(x, "Connected")
    /\ \/ x \in Cids /\ stage \in {"up", "sessions"} /\ on_connected(x)
       \/ (x \in Ids \/ ~Up) /\ UNCHANGED <<nominated, accepts>>
    /\ UNCHANGED <<registry, composer_sessions, composer_peer_to_id, call,
                   work, stage, notified>>

\* Faulty variant of claim_disconnect: whoever asks is told to notify.
ClaimAnyway(x) == /\ IF x \in sessions THEN Erase(x) ELSE UNCHANGED registry
                  /\ work' = [op |-> "notify", id |-> x]

\* claim_disconnect: only one of those who want to report x succeeds.
claim_disconnect(x) ==
    IF Up /\ x \in sessions
    THEN Erase(x) /\ work' = [op |-> "notify", id |-> x]
    ELSE UNCHANGED <<registry, work>>

\* on_failed of a session of the kernel, and of a composer's.
Failed(x) ==
    /\ Ready /\ session[x].state \in {"Running", "Connected"}
    /\ session' = [session EXCEPT ![x].state = "Failed", ![x].failed = TRUE]
    /\ IF x \in Ids THEN claim_disconnect(x) /\ UNCHANGED composer
       ELSE /\ \/ x \in composer_sessions /\ EraseComposer(x)
               \/ (x \notin composer_sessions \/ ~Up) /\ UNCHANGED composer
            /\ UNCHANGED <<registry, work>>
    /\ UNCHANGED <<call, stage, reports>>

Notify == /\ work.op = "notify" /\ work' = Idle
          /\ notified' = [notified EXCEPT ![work.id] = @ + 1]
          /\ UNCHANGED <<session, registry, composer, call, stage, accepts>>

\* reap_sessions picks idle sessions under the lock ...
reap_sessions ==
    /\ Ready /\ Up
    /\ \E drop \in SUBSET {x \in sessions : session[x].state # "Connected"} :
          drop # {} /\ work' = [op |-> "reap", drop |-> drop]
    /\ UNCHANGED <<session, registry, composer, call, stage, reports>>

\* ... and disconnects each of them, if it is still there.
ReapNext ==
    /\ work.op = "reap"
    /\ \/ work.drop = {} /\ work' = Idle /\ UNCHANGED registry
       \/ \E x \in work.drop :
             IF x \in sessions
             THEN /\ Erase(x)
                  /\ work' = [op |-> "close", id |-> x,
                              drop |-> work.drop \ {x}]
             ELSE /\ work' = [work EXCEPT !.drop = @ \ {x}]
                  /\ UNCHANGED registry
    /\ UNCHANGED <<session, composer, call, stage, reports>>

ReapEnds == /\ work.op = "close" /\ CloseAndNotify(work.id)
            /\ work' = [op |-> "reap", drop |-> work.drop]
            /\ UNCHANGED <<registry, composer, call, stage>>

-----------------------------------------------------------------------------
\* What a thread does next in a call it is in.
Step(t) == \/ connect(t) \/ composer_connect(t)
           \/ OfferToComposer(t) \/ OfferToSession(t)
           \/ DisconnectEnds(t)
           \/ ShutdownComposer(t) \/ ShutdownReports(t) \/ ShutdownJoins(t)

WorkerStep == Notify \/ ReapNext \/ ReapEnds

Next == \/ \E t \in Threads : \/ \E p \in Peers : Enter(t, p)
                              \/ disconnect(t) \/ disconnect_composer(t)
                              \/ shutdown(t) \/ Step(t)
        \/ \E x \in Ids \cup Cids :
              Gather(x) \/ Recheck(x) \/ Nominated(x) \/ Failed(x)
        \/ reap_sessions \/ WorkerStep

Spec == Init /\ [][Next]_vars

(***************************************************************************)
(* Properties                                                              *)
(***************************************************************************)
SessionType == [peer : Peers \cup {None},
                state : {"None", "New", "Running", "Connected", "Failed"},
                closed : BOOLEAN, failed : BOOLEAN]

\* The maps hold ids of sessions that exist.
TypeOK == /\ session \in [Ids \cup Cids -> SessionType]
          /\ sessions \subseteq Ids \ Unused(Ids)
          /\ composer_sessions \subseteq Cids \ Unused(Cids)
          /\ published_ids \subseteq Ids
          /\ peer_to_ids \in [Peers -> Seq(Ids)]
          /\ composer_peer_to_id \in [Peers -> Cids \cup {None}]
          /\ stage \in {"up", "sessions", "composer", "stopping", "down"}
          /\ notified \in [Ids -> Nat] /\ accepts \in [Cids -> Nat]

\* Between two steps of any threads the maps agree: a registered session is
\* found under its peer, exactly once, and no peer leads to an id that is gone
\* (sessions_ and peer_to_ids_, composer_sessions_ and composer_peer_to_id_).
MapsAgree ==
    /\ \A p \in Peers :
          /\ {peer_to_ids[p][i] : i \in DOMAIN peer_to_ids[p]}
                = {x \in sessions : session[x].peer = p}
          /\ Len(peer_to_ids[p])
                = Cardinality({x \in sessions : session[x].peer = p})
          /\ {x \in composer_sessions : session[x].peer = p}
                = {composer_peer_to_id[p]} \ {None}

\* The kernel is told at most once that a connection is gone, whoever wins
\* the race of disconnect, on_failed and the reaper, and not while the session
\* is still registered.
ReportedOnce == Up => \A x \in Ids : /\ notified[x] <= 1
                                     /\ x \in sessions => notified[x] = 0

\* Threads and worker that have taken x out of its map and not closed it, or
\* not reported it, yet.
Closing(x) == \/ work.op = "close" /\ work.id = x
              \/ \E t \in Threads :
                    \/ call[t].op = "close" /\ call[t].id = x
                    \/ call[t].op = "shutdown" /\ x \in call[t].live
Reporting(x) == \/ work.op \in {"close", "notify"} /\ work.id = x
                \/ \E t \in Threads :
                      \/ call[t].op = "close" /\ call[t].id = x
                      \/ call[t].op = "shutdown" /\ x \in call[t].ids

\* No session is forgotten: one that left its map called on_failed or was
\* closed, and was reported to the kernel if it is the kernel's, or some thread is
\* about to do so.
RemovedIsDead ==
    \A x \in (Ids \cup Cids) \ Unused(Ids \cup Cids) :
       x \notin sessions \cup composer_sessions
          => /\ session[x].closed \/ session[x].failed \/ Closing(x)
             /\ x \in Ids => notified[x] > 0 \/ Reporting(x)

\* When shutdown() returns, the kernel has been told of every id that was
\* published before it ("fires `notify_disconnect` on the caller thread for
\* every published id", link_ice.hpp); a connect that had passed the test of
\* shutdown_ publishes its id after that.
ShutdownReportsAll ==
    stage = "down" => \A x \in Ids \ (Unused(Ids) \cup published_ids) :
                         notified[x] >= 1

\* While its entry is registered, a composer connection is accepted at most
\* once, however often its session is nominated.
AcceptedOnce == \A x \in composer_sessions : accepts[x] <= 1

=============================================================================
