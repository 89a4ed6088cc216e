------------------------------ MODULE TurnRelay ------------------------------
(***************************************************************************)
(* The relay of one ICE session: its TURN clients (turn.cpp) and the       *)
(* session code that owns them (session.cpp): the walk through the         *)
(* configured servers, the periodic probes of the backups, failover,       *)
(* restart and close.                                                      *)
(*                                                                         *)
(* The handlers run on the session's strand.  What they post, and what     *)
(* arrives, waits in r.queue; a timer that fires may have been queued      *)
(* before any of it.  A timer is TRUE while a callback with the current    *)
(* generation is outstanding.                                              *)
(*                                                                         *)
(* The servers are the environment: they answer a request late, more than  *)
(* once, or never.  The session's own state machine is IceSession's; here  *)
(* it is running, connected or failed.                                     *)
(***************************************************************************)
EXTENDS Integers, Sequences, FiniteSets

CONSTANTS Count,        \* cfg_.turn_servers.size()
          Streams,      \* the servers reached over TCP or TLS
          Conns,        \* ids of stream connections
          Peers,        \* remote endpoints
          Signalled,    \* those whose candidates are signalled
          MinChannel,   \* TURN_CHANNEL_NUMBER_MIN
          MaxChannel,   \* TURN_CHANNEL_NUMBER_MAX
          Width,        \* next_channel_ counts modulo Width
          RelayAllowed, \* the candidate filter admits relay candidates
          Probing,      \* cfg_.turn_backup_interval_s > 0
          None,
          MaxRestarts,  \* bound
          MaxQueue      \* bound: what waits on the strand at a time

Servers == 1..Count

ASSUME RelayAssumption ==
    /\ Count \in Nat \ {0}
    /\ Streams \subseteq Servers
    /\ Conns \subseteq Nat \ {0}
    /\ MinChannel \in Nat \ {0}
    /\ MaxChannel \in Nat /\ MinChannel <= MaxChannel
    /\ Width \in Nat /\ MaxChannel < Width
    /\ RelayAllowed \in BOOLEAN
    /\ Probing \in BOOLEAN
    /\ None \notin Peers
    /\ Signalled \subseteq Peers
    /\ MaxRestarts \in Nat
    /\ MaxQueue \in Nat

VARIABLES r,         \* the session
          asked,     \* carrier ids that sent an Allocate with credentials
          restarts   \* how often restart() was called

vars == <<r, asked, restarts>>

(***************************************************************************)
(* TurnClient.  cb says whose callbacks it was built with: those of an     *)
(* attempt ("main") or those of a backup probe, which it keeps when it is  *)
(* promoted.                                                               *)
(***************************************************************************)
Keys == Servers \X (Conns \cup {0})

\* server_cid: one UDP carrier id per server, one connection per stream.
Key(c) == <<c.server, c.conn>>

Client(server, conn, cb) ==
    [server |-> server, conn |-> conn, cb |-> cb, allocated |-> FALSE,
     refresh_timer |-> FALSE, permissions |-> {},
     peer_to_channel |-> [p \in Peers |-> 0],
     channel_to_peer |-> [n \in 0..Width - 1 |-> None],
     next_channel |-> MinChannel]

NoClient == Client(0, 0, None)

ClientType ==
    [server : Servers \cup {0}, conn : Conns \cup {0},
     cb : {"main", "probe", None}, allocated : BOOLEAN,
     refresh_timer : BOOLEAN, permissions : SUBSET Peers,
     peer_to_channel : [Peers -> 0..Width - 1],
     channel_to_peer : [0..Width - 1 -> Peers \cup {None}],
     next_channel : 0..Width - 1]

\* Also the destructor: the Refresh with lifetime 0 is sent, not awaited.
close(c) == [c EXCEPT !.allocated = FALSE, !.refresh_timer = FALSE]

handle_allocate_response(c) ==
    [c EXCEPT !.allocated = TRUE, !.refresh_timer = TRUE]

\* Faulty variant of schedule_refresh: the refresh is not repeated.
RefreshOnce(c) == [c EXCEPT !.refresh_timer = FALSE]

\* The refresh timer: refresh() and the next wait, while allocated.
schedule_refresh(c) == [c EXCEPT !.refresh_timer = c.allocated]

create_permission(c, peers) ==
    [c EXCEPT !.permissions = @ \cup peers]

\* Faulty variant of bind_channel: every number is taken.
BindAny(c, p) ==
    LET n == c.next_channel
    IN IF c.peer_to_channel[p] # 0 THEN c
       ELSE [c EXCEPT !.next_channel = (n + 1) % Width,
                      !.peer_to_channel[p] = n, !.channel_to_peer[n] = p,
                      !.permissions = @ \cup {p}]

\* A peer keeps the channel it has; past the last number it has none.
bind_channel(c, p) ==
    LET n == c.next_channel
        counted == [c EXCEPT !.next_channel = (n + 1) % Width]
    IN IF c.peer_to_channel[p] # 0 THEN c
       ELSE IF n > MaxChannel THEN counted
       ELSE [counted EXCEPT !.peer_to_channel[p] = n,
                            !.channel_to_peer[n] = p,
                            !.permissions = @ \cup {p}]

(***************************************************************************)
(* The session's handlers.  A handler maps the session record to the       *)
(* record after it; made is the connection build_turn_client returns: 0    *)
(* over UDP, None when there is no carrier or it does not connect.         *)
(***************************************************************************)
Post(t, task) == [t EXCEPT !.queue = Append(@, task)]

build_turn_client(server, made, cb) ==
    IF made = None THEN NoClient ELSE Client(server, made, cb)

\* Faulty variant of try_next_turn_attempt: a server that cannot be reached
\* ends the walk without saying so.
NextForgets(t, made) ==
    LET idle == [t EXCEPT !.turn = NoClient, !.alloc_timer = FALSE]
        client == build_turn_client(t.attempt, made, "main")
    IN IF t.attempt > Count THEN [idle EXCEPT !.gathering = FALSE]
       ELSE IF client = NoClient THEN [idle EXCEPT !.attempt = @ + 1]
       ELSE [idle EXCEPT !.turn = client, !.alloc_timer = TRUE]

try_next_turn_attempt(t, made) ==
    LET idle == [t EXCEPT !.turn = NoClient, !.alloc_timer = FALSE]
        client == build_turn_client(t.attempt, made, "main")
    IN IF t.attempt > Count THEN [idle EXCEPT !.gathering = FALSE]
       ELSE IF client = NoClient
       THEN Post([idle EXCEPT !.attempt = @ + 1], [op |-> "next"])
       ELSE [idle EXCEPT !.turn = client, !.alloc_timer = TRUE]

gather_relay(t, made) ==
    try_next_turn_attempt([t EXCEPT !.gathering = TRUE, !.attempt = 1], made)

\* Faulty variant of AllocateTimeout: an answer that has come is not seen.
TimeoutBlindly(t, made) ==
    LET fired == [t EXCEPT !.alloc_timer = FALSE]
    IN try_next_turn_attempt([fired EXCEPT !.attempt = @ + 1], made)

\* The deadline of an attempt.
AllocateTimeout(t, made) ==
    LET fired == [t EXCEPT !.alloc_timer = FALSE]
    IN IF t.turn.allocated THEN fired
       ELSE try_next_turn_attempt([fired EXCEPT !.attempt = @ + 1], made)

\* Faulty variant of Following: one past the end of the list.
FollowingPast(t) == t.attempt + 1

\* The first server after the current attempt.
Following(t) == IF t.attempt < Count THEN t.attempt + 1 ELSE Count + 1

\* Faulty variant of on_alloc: the peers known by now get no permission.
AllocUnpermitted(t, address) ==
    LET settled == [t EXCEPT !.alloc_timer = FALSE, !.gathering = FALSE,
                             !.relays = @ \cup {address},
                             !.backups = Following(t)]
    IN IF ~RelayAllowed THEN [t EXCEPT !.alloc_timer = FALSE]
       ELSE IF t.attempt >= Count \/ ~Probing THEN settled
       ELSE [settled EXCEPT !.probe_idx = 0, !.backup_timer = TRUE]

\* The task the on_alloc of an attempt posts.  The backups are the servers
\* after the current attempt; they are probed if the configuration asks for it.
on_alloc(t, address) ==
    LET permitted == IF t.turn = NoClient THEN NoClient
                     ELSE create_permission(t.turn, t.remote)
        settled == [t EXCEPT !.alloc_timer = FALSE, !.gathering = FALSE,
                             !.relays = @ \cup {address},
                             !.turn = permitted,
                             !.backups = Following(t)]
    IN IF ~RelayAllowed THEN [t EXCEPT !.alloc_timer = FALSE]
       ELSE IF t.attempt >= Count \/ ~Probing THEN settled
       ELSE [settled EXCEPT !.probe_idx = 0, !.backup_timer = TRUE]

\* turn_backups_ holds the servers backups..Count.
Backups(t) == Count - t.backups + 1

ProbeIndex(t) == IF t.probe_idx >= Backups(t) THEN 0 ELSE t.probe_idx

on_turn_backup_tick(t, made) ==
    LET fired == [t EXCEPT !.backup_timer = FALSE]
        i == ProbeIndex(t)
    IN IF Backups(t) <= 0 \/ ~Probing \/ t.state = "Failed" THEN fired
       ELSE [t EXCEPT !.probe_idx = i + 1, !.backup_timer = TRUE,
                      !.probe = build_turn_client(t.backups + i, made,
                                                  "probe")]

\* The old client is closed, its candidates go.  A client that has no
\* allocation has no relayed address.
promote_turn_backup(t) ==
    [t EXCEPT !.turn = t.probe, !.probe = NoClient, !.failed_over = TRUE,
              !.relays = {IF t.probe.allocated THEN Key(t.probe) ELSE None},
              !.state = IF @ = "Connected" THEN "Running" ELSE @]

\* The task the on_alloc of a probe posts.  early: the last failover is less
\* than cfg_.turn_failover_min_interval_s ago.
probe_on_alloc(t, early) ==
    IF t.probe = NoClient THEN t
    ELSE IF t.turn.allocated \/ (t.failed_over /\ early)
    THEN [t EXCEPT !.probe = NoClient]
    ELSE promote_turn_backup(t)

\* What a client's alloc_cb_ posts.
AllocTask(cb, key) == [op |-> IF cb = "main" THEN "alloc" ELSE "probed",
                       key |-> key]

\* dispatch_inbound_message, for the client in either place: a 401 or a 438
\* has the request repeated with credentials.
ToTurn(t, m) ==
    IF m.kind = "challenge" THEN t
    ELSE Post([t EXCEPT !.turn = handle_allocate_response(t.turn)],
              AllocTask(t.turn.cb, m.key))

ToProbe(t, m) ==
    IF m.kind = "challenge" THEN t
    ELSE Post([t EXCEPT !.probe = handle_allocate_response(t.probe)],
              AllocTask(t.probe.cb, m.key))

\* The task that carries an answer is the last to hold a stream's client: the
\* callback is called, then the client is destroyed.
ToDropped(t, m) ==
    IF m.key[2] = 0 \/ m.kind = "challenge" THEN t
    ELSE Post(t, AllocTask(m.cb, m.key))

\* on_carrier_data, and the subscription of a stream's client.
on_inbound(t, m) ==
    IF t.turn # NoClient /\ Key(t.turn) = m.key THEN ToTurn(t, m)
    ELSE IF t.probe # NoClient /\ Key(t.probe) = m.key THEN ToProbe(t, m)
    ELSE ToDropped(t, m)

\* changed: the peer restarted, what it offered before is void.
add_remote_candidates(t, p, changed) ==
    LET known == IF changed THEN {} ELSE t.remote
    IN [t EXCEPT !.remote = known \cup {p},
                 !.turn = IF p \notin known /\ t.turn.allocated
                          THEN create_permission(@, {p}) ELSE @]

on_nominated(t, p, relay) ==
    [t EXCEPT !.state = "Connected",
              !.turn = IF relay /\ @ # NoClient THEN bind_channel(@, p)
                       ELSE @]

\* The UDP carrier ids go, the clients stay.
CloseTask(t) ==
    [t EXCEPT !.alloc_timer = FALSE, !.backup_timer = FALSE,
              !.turn = close(@), !.probe = close(@), !.subscribed = FALSE]

NewSession ==
    [state |-> "Running", turn |-> NoClient, probe |-> NoClient,
     attempt |-> 1, gathering |-> FALSE, alloc_timer |-> FALSE,
     backups |-> Count + 1, probe_idx |-> 0, backup_timer |-> FALSE,
     failed_over |-> FALSE, relays |-> {}, remote |-> {}, queue |-> <<>>,
     failed |-> FALSE, closed |-> FALSE, subscribed |-> TRUE]

restart(t, made) ==
    IF t.state = "Failed" THEN t
    ELSE gather_relay([NewSession EXCEPT !.queue = t.queue,
                                         !.closed = t.closed], made)

(***************************************************************************)
(* Actions                                                                 *)
(***************************************************************************)
Clients(t) == {t.turn, t.probe} \ {NoClient}

Current(t) == {Key(c) : c \in Clients(t)}

\* The connections something still refers to.
InUse == {k[2] : k \in Current(r) \cup (r.relays \ {None})}
         \cup {r.queue[i].key[2] : i \in {j \in DOMAIN r.queue :
                                            "key" \in DOMAIN r.queue[j]}}

\* What building a client for a server may give.
MadeFrom(server, free) ==
    {None} \cup (IF server \notin Streams THEN {0}
                 ELSE {n \in free : \A m \in free : n <= m})

Made(server) == MadeFrom(server, Conns \ InUse)

\* The session after a handler; requests on streams that were dropped are
\* not answered any more.
Become(t, requests) ==
    /\ r' = t
    /\ asked' = {k \in requests : k[2] = 0 \/ k \in Current(t)}

Handle(t) == Become(t, asked) /\ UNCHANGED restarts

Init == /\ \E made \in MadeFrom(1, Conns) : r = gather_relay(NewSession, made)
        /\ asked = {} /\ restarts = 0

\* A server's answer to an Allocate arrives.
Answer ==
    /\ Len(r.queue) < MaxQueue
    /\ \E k \in asked \cup Current(r), kind \in {"challenge", "ok"} :
          /\ kind = "ok" => k \in asked
          /\ k[2] = 0 => r.subscribed
          /\ \E cb \in IF k[2] = 0 THEN {None}
                       ELSE {c.cb : c \in {d \in Clients(r) : Key(d) = k}} :
                Handle(Post(r, [op |-> "inbound", key |-> k, kind |-> kind,
                                cb |-> cb]))

RunTask ==
    LET task == Head(r.queue)
        t == [r EXCEPT !.queue = Tail(@)]
    IN /\ r.queue # <<>>
       /\ \/ /\ task.op = "inbound"
             /\ Become(on_inbound(t, task),
                       IF task.kind = "challenge" THEN asked \cup {task.key}
                       ELSE asked)
             /\ UNCHANGED restarts
          \/ /\ task.op = "alloc" /\ Handle(on_alloc(t, task.key))
          \/ /\ task.op = "probed"
             /\ \E early \in BOOLEAN : Handle(probe_on_alloc(t, early))
          \/ /\ task.op = "next"
             /\ \E made \in Made(t.attempt) :
                   Handle(try_next_turn_attempt(t, made))
          \/ /\ task.op = "close" /\ Handle(CloseTask(t))

TimeoutFires == /\ r.alloc_timer
                /\ \E made \in Made(r.attempt + 1) :
                      Handle(AllocateTimeout(r, made))

BackupTick == /\ r.backup_timer
              /\ \E made \in Made(r.backups + ProbeIndex(r)) :
                    Handle(on_turn_backup_tick(r, made))

RefreshTick == \/ /\ r.turn.refresh_timer
                  /\ Handle([r EXCEPT !.turn = schedule_refresh(@)])
               \/ /\ r.probe.refresh_timer
                  /\ Handle([r EXCEPT !.probe = schedule_refresh(@)])

RemoteCandidate == \E p \in Signalled, changed \in BOOLEAN :
                      Handle(add_remote_candidates(r, p, changed))

\* bound: a client's channel counter does not wrap.
Nominated == \E p \in Peers, relay \in BOOLEAN :
                /\ relay => r.turn.next_channel >= MinChannel
                /\ Handle(on_nominated(r, p, relay))

Restart == /\ restarts < MaxRestarts /\ restarts' = restarts + 1
           /\ \E made \in Made(1) : Become(restart(r, made), asked)

\* close() stores Failed, and posts the rest.
Close == /\ ~r.closed
         /\ Handle(Post([r EXCEPT !.state = "Failed", !.failed = TRUE,
                                  !.closed = TRUE], [op |-> "close"]))

\* The session gives up; its relay stays.  (A late nomination connects it.)
Fail == /\ r.state # "Failed"
        /\ Handle([r EXCEPT !.state = "Failed", !.failed = TRUE])

Next == \/ Answer \/ RunTask \/ TimeoutFires \/ BackupTick \/ RefreshTick
        \/ RemoteCandidate \/ Nominated \/ Restart \/ Close \/ Fail

\* Timers fire and posted tasks run; the servers need not answer.
Fairness == WF_vars(RunTask) /\ WF_vars(TimeoutFires)

Spec == Init /\ [][Next]_vars /\ Fairness

(***************************************************************************)
(* Properties                                                              *)
(***************************************************************************)
Tasks == [op : {"next", "close"}]
         \cup [op : {"alloc", "probed"}, key : Keys]
         \cup [op : {"inbound"}, key : Keys, kind : {"challenge", "ok"},
               cb : {"main", "probe", None}]

RelayType ==
    [state : {"Running", "Connected", "Failed"}, turn : ClientType,
     probe : ClientType, attempt : 1..Count + 1, gathering : BOOLEAN,
     alloc_timer : BOOLEAN, backups : 1..Count + 1, probe_idx : 0..Count,
     backup_timer : BOOLEAN, failed_over : BOOLEAN,
     relays : SUBSET (Keys \cup {None}), remote : SUBSET Peers,
     queue : Seq(Tasks), failed : BOOLEAN, closed : BOOLEAN,
     subscribed : BOOLEAN]

\* The indices stay within the list of servers, the channel numbers within
\* their width.
TypeOK == r \in RelayType /\ asked \subseteq Keys /\ restarts \in 0..MaxRestarts

Queued(op) == \E i \in DOMAIN r.queue : r.queue[i].op = op

\* No work is left without the timer or task that continues it: a walk under
\* way has its deadline or its next step, backups have their next probe while
\* the session has not failed (unless turn_backup_interval_s is 0: "Zero disables
\* backup probing", session.hpp), an allocation its next refresh (the generation
\* counters of session.cpp, and schedule_refresh).
NoTimerLost ==
    /\ r.gathering /\ RelayAllowed /\ r.subscribed
          => r.alloc_timer \/ Queued("next") \/ Queued("alloc")
    /\ Probing /\ Backups(r) > 0 /\ ~r.failed /\ ~r.closed => r.backup_timer
    /\ \A c \in Clients(r) : c.allocated <=> c.refresh_timer

\* Once the session has taken note of an allocation of its own, the relay can
\* be used: its address is among the candidates, and every remote candidate,
\* whether it came before or after, has its permission (on_alloc,
\* add_remote_candidates).
RelayUsable ==
    r.turn.allocated /\ r.turn.cb = "main" /\ RelayAllowed
       /\ ~Queued("alloc")
          => Key(r.turn) \in r.relays /\ r.remote \subseteq r.turn.permissions

\* A client's two channel maps are each other's inverse, and every channel
\* that is used lies in the range of the protocol.
ChannelsAgree ==
    \A c \in Clients(r), p \in Peers :
       LET n == c.peer_to_channel[p]
       IN n # 0 => n \in MinChannel..MaxChannel /\ c.channel_to_peer[n] = p

\* An allocation in use is given up by a restart, by close() or by a next
\* attempt that was posted before: no deadline and no backup that answers
\* takes it away ("a healthy primary blocks failover", turn.hpp).
AllocationKept ==
    [][r.turn.allocated /\ Key(r'.turn) # Key(r.turn)
          => \/ restarts' # restarts
             \/ r.queue # <<>> /\ Head(r.queue).op = "next"]_vars

\* The walk through the TURN servers ends, whatever they answer.
WalkEnds == r.gathering ~> ~r.gathering \/ r.closed
=============================================================================
