--------------------------- MODULE TurnRelayProofs ---------------------------
(***************************************************************************)
(* The invariants of a session's relay, for any number of servers, peers,  *)
(* channels and restarts: no timer is lost, an allocation the session      *)
(* knows of can be used, channels are one to one, and an allocation in use *)
(* is kept.                                                                *)
(***************************************************************************)
EXTENDS TurnRelay, TLAPS

\* Zenon proves most of the leaves, and does so faster than SMT.
USE ZenonT(4), SMTT(20), ZenonT(20)

\* One of the tasks T waits in the queue q.
Has(q, T) == \E i \in DOMAIN q : q[i] \in T

\* The tasks of one kind.
OfOp(op) == {task \in Tasks : task.op = op}

\* A task that is posted waits, and those that waited still do.
LEMMA PostHas ==
    ASSUME NEW q \in Seq(Tasks), NEW task \in Tasks
    PROVE  /\ Append(q, task) \in Seq(Tasks)
           /\ \A T : Has(Append(q, task), T) <=> Has(q, T) \/ task \in T
<1>1. Append(q, task) \in Seq(Tasks)
  OBVIOUS
<1>2. ASSUME NEW T PROVE Has(Append(q, task), T) <=> Has(q, T) \/ task \in T
  <2>1. /\ Len(Append(q, task)) = Len(q) + 1
        /\ Append(q, task)[Len(q) + 1] = task
        /\ \A i \in 1..Len(q) : Append(q, task)[i] = q[i]
    OBVIOUS
  <2>2. /\ Len(q) \in Nat /\ DOMAIN q = 1..Len(q)
        /\ DOMAIN Append(q, task) = 1..Len(q) + 1
    BY <1>1, <2>1
  <2> QED BY <2>1, <2>2 DEF Has
<1> QED BY <1>1, <1>2

\* The task that runs is the only one that does not wait any more.
LEMMA TailHas ==
    ASSUME NEW q \in Seq(Tasks), q # <<>>
    PROVE  /\ Tail(q) \in Seq(Tasks) /\ Head(q) \in Tasks
           /\ \A T : Has(q, T) <=> Has(Tail(q), T) \/ Head(q) \in T
<1>1. Tail(q) \in Seq(Tasks) /\ Head(q) \in Tasks
  OBVIOUS
<1>2. ASSUME NEW T PROVE Has(q, T) <=> Has(Tail(q), T) \/ Head(q) \in T
  <2>1. /\ Len(q) \in Nat /\ Len(q) >= 1 /\ Len(Tail(q)) = Len(q) - 1
        /\ Head(q) = q[1]
        /\ \A i \in 1..Len(q) - 1 : Tail(q)[i] = q[i + 1]
    OBVIOUS
  <2>2. DOMAIN q = 1..Len(q) /\ DOMAIN Tail(q) = 1..Len(q) - 1
    BY <1>1, <2>1
  <2>3. ASSUME Has(q, T) PROVE Has(Tail(q), T) \/ Head(q) \in T
    <3>1. PICK i \in 1..Len(q) : q[i] \in T
      BY <2>2, <2>3 DEF Has
    <3>2. CASE i = 1
      BY <2>1, <3>1, <3>2
    <3>3. CASE i # 1
      <4>1. i - 1 \in 1..Len(q) - 1 /\ Tail(q)[i - 1] = q[i]
        BY <2>1, <3>3
      <4> QED BY <2>2, <3>1, <4>1 DEF Has
    <3> QED BY <3>2, <3>3
  <2>4. ASSUME Has(Tail(q), T) \/ Head(q) \in T PROVE Has(q, T)
    <3>1. CASE Head(q) \in T
      <4>1. 1 \in 1..Len(q)
        BY <2>1
      <4> QED BY <2>1, <2>2, <3>1, <4>1 DEF Has
    <3>2. CASE Has(Tail(q), T)
      <4>1. PICK i \in 1..Len(q) - 1 : Tail(q)[i] \in T
        BY <2>2, <3>2 DEF Has
      <4>2. i + 1 \in 1..Len(q) /\ Tail(q)[i] = q[i + 1]
        BY <2>1
      <4> QED BY <2>2, <4>1, <4>2 DEF Has
    <3> QED BY <2>4, <3>1, <3>2
  <2> QED BY <2>3, <2>4
<1> QED BY <1>1, <1>2

-----------------------------------------------------------------------------

\* A client's channels are one to one, below the next number to be given.
Numbered(c) ==
    \A p \in Peers :
       LET n == c.peer_to_channel[p]
       IN /\ n # 0 => n \in MinChannel..MaxChannel /\ c.channel_to_peer[n] = p
          /\ c.next_channel >= MinChannel => n < c.next_channel

\* A client is typed, has its timer exactly when it is allocated, and a server.
Sane(c) == /\ c \in ClientType
           /\ c.allocated <=> c.refresh_timer
           /\ c # NoClient => c.server \in Servers /\ c.cb \in {"main", "probe"}
           /\ Numbered(c)

\* The channel counter stays in its width, and steps by one until it wraps.
LEMMA NextNumber ==
    ASSUME NEW n \in 0..Width - 1
    PROVE  /\ (n + 1) % Width \in 0..Width - 1
           /\ (n + 1) % Width >= MinChannel => (n + 1) % Width = n + 1
BY RelayAssumption DEF RelayAssumption

\* A new client is consistent.
LEMMA ClientSane ==
    ASSUME NEW server \in Servers, NEW conn \in Conns \cup {0},
           NEW cb \in {"main", "probe"}
    PROVE  Sane(Client(server, conn, cb)) /\ ~Client(server, conn, cb).allocated
BY RelayAssumption, SMTT(30) DEF RelayAssumption, Sane, Client, ClientType, Numbered

\* The fields of the client that stands for none.
LEMMA NoClientFields ==
    /\ NoClient \in ClientType
    /\ ~NoClient.allocated /\ ~NoClient.refresh_timer
    /\ NoClient.server = 0 /\ NoClient.conn = 0 /\ NoClient.cb = None
    /\ \A p \in Peers : NoClient.peer_to_channel[p] = 0
    /\ NoClient.next_channel = MinChannel
<1>1. NoClient = [server |-> 0, conn |-> 0, cb |-> None, allocated |-> FALSE,
                  refresh_timer |-> FALSE, permissions |-> {},
                  peer_to_channel |-> [p \in Peers |-> 0],
                  channel_to_peer |-> [n \in 0..Width - 1 |-> None],
                  next_channel |-> MinChannel]
  BY DEF NoClient, Client
<1>2. 0 \in 0..Width - 1 /\ MinChannel \in 0..Width - 1
  BY RelayAssumption DEF RelayAssumption
<1> QED BY <1>1, <1>2 DEF ClientType

\* It is consistent too.
LEMMA NoClientSane == Sane(NoClient)
<1>1. 0 < MinChannel
  BY RelayAssumption DEF RelayAssumption
<1> QED BY <1>1, NoClientFields DEF Sane, Numbered

\* What the operations of a client leave alone.
SameClient(c, d) == /\ Sane(d) /\ (d = NoClient <=> c = NoClient)
                    /\ d.server = c.server /\ d.conn = c.conn /\ d.cb = c.cb

\* close() ends the allocation and keeps the client consistent.
LEMMA CloseSane ==
    ASSUME NEW c, Sane(c)
    PROVE  SameClient(c, close(c)) /\ ~close(c).allocated
<1> DEFINE d == close(c)
<1>1. /\ d \in ClientType /\ ~d.allocated /\ ~d.refresh_timer
      /\ d.server = c.server /\ d.conn = c.conn /\ d.cb = c.cb
      /\ d.peer_to_channel = c.peer_to_channel
      /\ d.channel_to_peer = c.channel_to_peer
      /\ d.next_channel = c.next_channel
  BY DEF Sane, ClientType, close
<1>2. c = NoClient => d = NoClient
  BY NoClientFields DEF ClientType, close
<1> HIDE DEF d
<1>3. c # NoClient => d # NoClient
  BY <1>1, NoClientFields DEF Sane, Servers
<1>4. Sane(d)
  BY <1>1, <1>2 DEF Sane, Numbered
<1>5. SameClient(c, d) /\ ~d.allocated
  BY <1>1, <1>2, <1>3, <1>4 DEF SameClient
<1> QED BY <1>5 DEF d

\* The other operations, on a client that exists.
LEMMA AllocatedSane ==
    ASSUME NEW c, Sane(c), c # NoClient
    PROVE  LET d == handle_allocate_response(c)
           IN SameClient(c, d) /\ d.allocated /\ d.permissions = c.permissions
<1> DEFINE d == handle_allocate_response(c)
<1>1. /\ d \in ClientType /\ d.allocated /\ d.refresh_timer
      /\ d.server = c.server /\ d.conn = c.conn /\ d.cb = c.cb
      /\ d.permissions = c.permissions
      /\ d.peer_to_channel = c.peer_to_channel
      /\ d.channel_to_peer = c.channel_to_peer
      /\ d.next_channel = c.next_channel
  BY DEF Sane, ClientType, handle_allocate_response
<1> HIDE DEF d
<1>2. d # NoClient
  BY <1>1, NoClientFields
<1>3. SameClient(c, d) /\ d.allocated /\ d.permissions = c.permissions
  BY <1>1, <1>2 DEF Sane, Numbered, SameClient
<1> QED BY <1>3 DEF d

\* Scheduling the refresh arms its timer for allocated clients only.
LEMMA RefreshSane ==
    ASSUME NEW c, Sane(c), c # NoClient
    PROVE  LET d == schedule_refresh(c)
           IN /\ SameClient(c, d) /\ d.allocated = c.allocated
              /\ d.permissions = c.permissions
<1> DEFINE d == schedule_refresh(c)
<1>1. /\ d \in ClientType /\ d.allocated = c.allocated
      /\ d.refresh_timer = c.allocated
      /\ d.server = c.server /\ d.conn = c.conn /\ d.cb = c.cb
      /\ d.permissions = c.permissions
      /\ d.peer_to_channel = c.peer_to_channel
      /\ d.channel_to_peer = c.channel_to_peer
      /\ d.next_channel = c.next_channel
  BY DEF Sane, ClientType, schedule_refresh
<1> HIDE DEF d
<1>2. d # NoClient
  BY <1>1, NoClientFields DEF Sane, Servers
<1>3. /\ SameClient(c, d) /\ d.allocated = c.allocated
      /\ d.permissions = c.permissions
  BY <1>1, <1>2 DEF Sane, Numbered, SameClient
<1> QED BY <1>3 DEF d

\* Permissions are only added.
LEMMA PermissionSane ==
    ASSUME NEW c, Sane(c), c # NoClient, NEW peers \in SUBSET Peers
    PROVE  LET d == create_permission(c, peers)
           IN /\ SameClient(c, d) /\ d.allocated = c.allocated
              /\ d.permissions = c.permissions \cup peers
<1> DEFINE d == create_permission(c, peers)
<1>1. /\ d \in ClientType /\ d.allocated = c.allocated
      /\ d.refresh_timer = c.refresh_timer
      /\ d.server = c.server /\ d.conn = c.conn /\ d.cb = c.cb
      /\ d.permissions = c.permissions \cup peers
      /\ d.peer_to_channel = c.peer_to_channel
      /\ d.channel_to_peer = c.channel_to_peer
      /\ d.next_channel = c.next_channel
  BY DEF Sane, ClientType, create_permission
<1> HIDE DEF d
<1>2. d # NoClient
  BY <1>1, NoClientFields DEF Sane, Servers
<1>3. /\ SameClient(c, d) /\ d.allocated = c.allocated
      /\ d.permissions = c.permissions \cup peers
  BY <1>1, <1>2 DEF Sane, Numbered, SameClient
<1> QED BY <1>3 DEF d

\* A number that is given is new: those in use are below next_channel.
LEMMA BindSane ==
    ASSUME NEW c, Sane(c), c # NoClient, NEW p \in Peers,
           c.next_channel >= MinChannel
    PROVE  LET d == bind_channel(c, p)
           IN /\ SameClient(c, d) /\ d.allocated = c.allocated
              /\ c.permissions \subseteq d.permissions
<1> DEFINE d == bind_channel(c, p)
           n == c.next_channel
           m == (n + 1) % Width
<1>1. CASE c.peer_to_channel[p] # 0
  BY <1>1 DEF bind_channel, SameClient
<1>2. n \in 0..Width - 1 /\ n >= MinChannel
  BY DEF Sane, ClientType
<1>3. m \in 0..Width - 1 /\ (m >= MinChannel => m = n + 1)
  BY <1>2, NextNumber
<1>4. MinChannel \in Nat /\ MaxChannel \in Nat /\ MinChannel > 0 /\ MaxChannel < Width
  BY RelayAssumption DEF RelayAssumption
<1> DEFINE counted == [c EXCEPT !.next_channel = m]
<1>5. /\ counted \in ClientType /\ counted.allocated = c.allocated
      /\ counted.refresh_timer = c.refresh_timer
      /\ counted.server = c.server /\ counted.conn = c.conn /\ counted.cb = c.cb
      /\ counted.permissions = c.permissions
      /\ counted.peer_to_channel = c.peer_to_channel
      /\ counted.channel_to_peer = c.channel_to_peer
      /\ counted.next_channel = m
  BY <1>3 DEF Sane, ClientType
<1>6. CASE c.peer_to_channel[p] = 0 /\ n > MaxChannel
  <2>1. d = counted
    BY <1>6 DEF bind_channel
  <2> HIDE DEF d, counted, m
  <2>2. d # NoClient
    BY <1>5, <2>1, NoClientFields DEF Sane, Servers
  <2>3. Numbered(d)
    <3> SUFFICES ASSUME NEW q \in Peers
                 PROVE  LET k == d.peer_to_channel[q]
                        IN /\ k # 0 => k \in MinChannel..MaxChannel /\ d.channel_to_peer[k] = q
                           /\ d.next_channel >= MinChannel => k < d.next_channel
      BY DEF Numbered
    <3>1. c.peer_to_channel[q] \in 0..Width - 1 /\ c.peer_to_channel[q] < n
      BY <1>2 DEF Sane, ClientType, Numbered
    <3> QED BY <1>2, <1>3, <1>5, <2>1, <3>1 DEF Sane, Numbered
  <2>4. /\ SameClient(c, d) /\ d.allocated = c.allocated
        /\ c.permissions \subseteq d.permissions
    BY <1>5, <2>1, <2>2, <2>3 DEF Sane, SameClient
  <2> QED BY <2>4 DEF d
<1>7. CASE c.peer_to_channel[p] = 0 /\ n <= MaxChannel
  <2> HIDE DEF m
  <2>1. d = [counted EXCEPT !.peer_to_channel[p] = n, !.channel_to_peer[n] = p,
                            !.permissions = @ \cup {p}]
    BY <1>2, <1>4, <1>7 DEF bind_channel, m
  <2> HIDE DEF counted
  <2>2. /\ d.allocated = c.allocated /\ d.refresh_timer = c.refresh_timer
        /\ d.server = c.server /\ d.conn = c.conn /\ d.cb = c.cb
        /\ d.permissions = c.permissions \cup {p}
        /\ d.peer_to_channel = [c.peer_to_channel EXCEPT ![p] = n]
        /\ d.channel_to_peer = [c.channel_to_peer EXCEPT ![n] = p]
        /\ d.next_channel = m
    BY <1>5, <2>1 DEF ClientType
  <2>6. d \in ClientType
    <3>1. /\ [c.peer_to_channel EXCEPT ![p] = n] \in [Peers -> 0..Width - 1]
          /\ [c.channel_to_peer EXCEPT ![n] = p]
               \in [0..Width - 1 -> Peers \cup {None}]
          /\ c.permissions \cup {p} \in SUBSET Peers
      BY <1>2 DEF Sane, ClientType
    <3>2. d = [counted EXCEPT !.peer_to_channel = d.peer_to_channel,
                              !.channel_to_peer = d.channel_to_peer,
                              !.permissions = d.permissions]
      BY <1>5, <2>1, <2>2 DEF ClientType
    <3> HIDE DEF d
    <3> QED BY <1>5, <2>2, <3>1, <3>2 DEF ClientType
  <2> HIDE DEF d
  <2>3. d # NoClient
    BY <2>2, NoClientFields DEF Sane, Servers
  <2>4. Numbered(d)
    <3> SUFFICES ASSUME NEW q \in Peers
                 PROVE  LET k == d.peer_to_channel[q]
                        IN /\ k # 0 => k \in MinChannel..MaxChannel /\ d.channel_to_peer[k] = q
                           /\ d.next_channel >= MinChannel => k < d.next_channel
      BY DEF Numbered
    <3>1. /\ c.peer_to_channel[q] \in 0..Width - 1 /\ c.peer_to_channel[q] < n
          /\ c.peer_to_channel \in [Peers -> 0..Width - 1]
          /\ c.channel_to_peer \in [0..Width - 1 -> Peers \cup {None}]
          /\ c.peer_to_channel[q] # 0 =>
                /\ c.peer_to_channel[q] \in MinChannel..MaxChannel
                /\ c.channel_to_peer[c.peer_to_channel[q]] = q
      BY <1>2 DEF Sane, ClientType, Numbered
    <3>2. CASE q = p
      <4>1. d.peer_to_channel[q] = n /\ d.channel_to_peer[n] = q
        BY <1>2, <2>2, <3>1, <3>2
      <4> QED BY <1>2, <1>3, <1>4, <1>7, <2>2, <4>1
    <3>3. CASE q # p
      <4>1. /\ d.peer_to_channel[q] = c.peer_to_channel[q]
            /\ d.channel_to_peer[c.peer_to_channel[q]]
                 = c.channel_to_peer[c.peer_to_channel[q]]
        BY <1>2, <2>2, <3>1, <3>3
      <4> QED BY <1>2, <1>3, <2>2, <3>1, <4>1
    <3> QED BY <3>2, <3>3
  <2>5. /\ SameClient(c, d) /\ d.allocated = c.allocated
        /\ c.permissions \subseteq d.permissions
    BY <2>2, <2>3, <2>4, <2>6 DEF Sane, SameClient
  <2> QED BY <2>5 DEF d
<1>8. c.peer_to_channel[p] \in 0..Width - 1
  BY DEF Sane, ClientType
<1> QED BY <1>1, <1>2, <1>4, <1>6, <1>7

-----------------------------------------------------------------------------

\* The structure: a walk under way has no probe and no relay candidate, and
\* its deadline belongs to one of the servers.
Core(t) ==
    /\ t \in RelayType
    /\ Sane(t.turn) /\ Sane(t.probe)
    /\ t.probe # NoClient => t.probe.cb = "probe"
    /\ t.alloc_timer => t.attempt <= Count
    /\ t.gathering => /\ t.probe = NoClient /\ ~t.backup_timer
                      /\ t.turn = NoClient \/ t.turn.cb = "main"
                      /\ t.relays = {}
    /\ t.state = "Failed" => t.failed
    /\ Has(t.queue, OfOp("close")) => t.closed
    /\ Probing /\ Backups(t) > 0 /\ ~t.failed /\ ~t.closed => t.backup_timer

\* A walk has its deadline, or a task that continues or ends it.
Driven(t) ==
    t.gathering /\ RelayAllowed /\ t.subscribed
       => t.alloc_timer \/ Has(t.queue, OfOp("next")) \/ Has(t.queue, OfOp("alloc"))

\* What the session does not know of its allocation yet waits in the queue.
Usable(t) ==
    t.turn.allocated /\ t.turn.cb = "main" /\ RelayAllowed
       => \/ Has(t.queue, {AllocTask("main", Key(t.turn))})
          \/ Key(t.turn) \in t.relays /\ t.remote \subseteq t.turn.permissions

\* All that is kept of the session record.
Good(t) == Core(t) /\ Driven(t) /\ Usable(t)

\* Posting a task disturbs nothing.
LEMMA PostGood ==
    ASSUME NEW t, t \in RelayType, NEW task \in Tasks
    PROVE  /\ (task.op = "close" => t.closed) /\ Core(t) => Core(Post(t, task))
           /\ Driven(t) => Driven(Post(t, task))
           /\ Usable(t) => Usable(Post(t, task))
           /\ Post(t, task).queue = Append(t.queue, task)
<1> DEFINE u == Post(t, task)
<1>1. t.queue \in Seq(Tasks)
  BY DEF RelayType
<1>2. /\ Append(t.queue, task) \in Seq(Tasks)
      /\ \A T : Has(Append(t.queue, task), T) <=> Has(t.queue, T) \/ task \in T
  BY <1>1, PostHas
<1>3. /\ u \in RelayType /\ u.queue = Append(t.queue, task)
      /\ u.turn = t.turn /\ u.probe = t.probe /\ u.alloc_timer = t.alloc_timer
      /\ u.attempt = t.attempt /\ u.gathering = t.gathering
      /\ u.backup_timer = t.backup_timer /\ u.relays = t.relays
      /\ u.remote = t.remote /\ u.state = t.state /\ u.failed = t.failed
      /\ u.closed = t.closed /\ u.backups = t.backups
      /\ u.subscribed = t.subscribed
  BY <1>2 DEF RelayType, Post
<1> HIDE DEF u
<1>4. Has(u.queue, OfOp("close")) => Has(t.queue, OfOp("close")) \/ task.op = "close"
  BY <1>2, <1>3 DEF OfOp
<1>5. (task.op = "close" => t.closed) /\ Core(t) => Core(u)
  BY <1>3, <1>4 DEF Core, Backups
<1>6. Driven(t) => Driven(u)
  BY <1>2, <1>3 DEF Driven
<1>7. Usable(t) => Usable(u)
  BY <1>2, <1>3 DEF Usable
<1> QED BY <1>3, <1>5, <1>6, <1>7 DEF u

\* What building a client gives: none, or a new one for its server.
LEMMA BuildSane ==
    ASSUME NEW server \in Servers, NEW made \in Conns \cup {0, None},
           NEW cb \in {"main", "probe"}
    PROVE  LET c == build_turn_client(server, made, cb)
           IN /\ Sane(c) /\ ~c.allocated
              /\ c # NoClient => c.cb = cb
<1> DEFINE c == build_turn_client(server, made, cb)
<1>1. CASE made = None
  BY <1>1, NoClientSane, NoClientFields DEF build_turn_client
<1>2. CASE made # None
  <2>1. c = Client(server, made, cb)
    BY <1>2 DEF build_turn_client
  <2>2. c.cb = cb
    BY <2>1 DEF Client
  <2> HIDE DEF c
  <2>3. Sane(c) /\ ~c.allocated
    BY <1>2, <2>1, ClientSane
  <2>4. Sane(c) /\ ~c.allocated /\ (c # NoClient => c.cb = cb)
    BY <2>2, <2>3
  <2> QED BY <2>4 DEF c
<1> QED BY <1>1, <1>2

\* A next attempt leaves a walk that is driven, whatever the queue has lost,
\* and a client without an allocation.
LEMMA NextGood ==
    ASSUME NEW t, Core(t), NEW made \in Conns \cup {0, None}
    PROVE  Good(try_next_turn_attempt(t, made))
<1> DEFINE idle == [t EXCEPT !.turn = NoClient, !.alloc_timer = FALSE]
           client == build_turn_client(t.attempt, made, "main")
           over == [idle EXCEPT !.gathering = FALSE]
           later == [idle EXCEPT !.attempt = @ + 1]
           tried == [idle EXCEPT !.turn = client, !.alloc_timer = TRUE]
           result == try_next_turn_attempt(t, made)
<1>1. /\ t \in RelayType /\ Count \in Nat \ {0} /\ t.attempt \in 1..Count + 1
  BY RelayAssumption DEF Core, RelayType, RelayAssumption
<1>2. /\ idle \in RelayType /\ idle.turn = NoClient /\ idle.alloc_timer = FALSE
      /\ idle.probe = t.probe /\ idle.attempt = t.attempt
      /\ idle.gathering = t.gathering /\ idle.backup_timer = t.backup_timer
      /\ idle.relays = t.relays /\ idle.state = t.state
      /\ idle.failed = t.failed /\ idle.queue = t.queue
      /\ idle.closed = t.closed /\ idle.backups = t.backups
  BY <1>1, NoClientFields DEF RelayType
<1>3. result = IF t.attempt > Count THEN over
               ELSE IF client = NoClient THEN Post(later, [op |-> "next"])
               ELSE tried
  BY DEF try_next_turn_attempt
<1> HIDE DEF idle, client
<1>5. Core(idle)
  BY <1>2, NoClientSane DEF Core, Backups
<1>6. CASE t.attempt > Count
  <2>1. /\ over \in RelayType /\ over.turn = NoClient /\ over.alloc_timer = FALSE
        /\ over.probe = idle.probe /\ over.attempt = idle.attempt
        /\ over.gathering = FALSE /\ over.backup_timer = idle.backup_timer
        /\ over.relays = idle.relays /\ over.state = idle.state
        /\ over.failed = idle.failed /\ over.queue = idle.queue
        /\ over.closed = idle.closed /\ over.backups = idle.backups
    BY <1>2 DEF RelayType
  <2> HIDE DEF over
  <2>2. Core(over)
    BY <1>5, <2>1, NoClientSane DEF Core, Backups
  <2>3. Driven(over) /\ Usable(over)
    BY <2>1, NoClientFields DEF Driven, Usable
  <2> QED BY <1>3, <1>6, <2>2, <2>3 DEF Good
<1>7. CASE t.attempt <= Count /\ client = NoClient
  <2>1. /\ later \in RelayType /\ later.turn = NoClient /\ later.alloc_timer = FALSE
        /\ later.probe = idle.probe
        /\ later.gathering = idle.gathering
        /\ later.backup_timer = idle.backup_timer
        /\ later.relays = idle.relays /\ later.state = idle.state
        /\ later.failed = idle.failed /\ later.queue = idle.queue
        /\ later.closed = idle.closed /\ later.backups = idle.backups
    BY <1>1, <1>2, <1>7 DEF RelayType
  <2> HIDE DEF later
  <2>2. Core(later)
    BY <1>5, <2>1, NoClientSane DEF Core, Backups
  <2>3. Usable(later)
    BY <2>1, NoClientFields DEF Usable
  <2> DEFINE task == [op |-> "next"]
  <2>4. task \in Tasks /\ task.op = "next" /\ task \in OfOp("next")
    BY DEF Tasks, OfOp
  <2>5. t.queue \in Seq(Tasks) /\ later.queue \in Seq(Tasks)
    BY <1>1, <2>1 DEF RelayType
  <2> HIDE DEF task
  <2>6. Has(Post(later, task).queue, OfOp("next"))
    <3>1. Post(later, task).queue = Append(later.queue, task)
      BY <2>1, <2>4, PostGood
    <3>2. Has(Append(later.queue, task), OfOp("next"))
      BY <2>4, <2>5, PostHas
    <3> QED BY <3>1, <3>2
  <2>7. Core(Post(later, task)) /\ Usable(Post(later, task))
    BY <2>1, <2>2, <2>3, <2>4, PostGood
  <2>8. Good(Post(later, task))
    BY <2>6, <2>7 DEF Good, Driven
  <2> QED BY <1>1, <1>3, <1>7, <2>8 DEF task
<1>8. CASE t.attempt <= Count /\ client # NoClient
  <2>1. t.attempt \in Servers
    BY <1>1, <1>8 DEF Servers
  <2>2. Sane(client) /\ ~client.allocated /\ client.cb = "main"
    BY <1>8, <2>1, BuildSane DEF client
  <2>3. /\ tried \in RelayType /\ tried.turn = client /\ tried.alloc_timer = TRUE
        /\ tried.probe = idle.probe /\ tried.attempt = idle.attempt
        /\ tried.gathering = idle.gathering
        /\ tried.backup_timer = idle.backup_timer
        /\ tried.relays = idle.relays /\ tried.state = idle.state
        /\ tried.failed = idle.failed /\ tried.queue = idle.queue
        /\ tried.closed = idle.closed /\ tried.backups = idle.backups
    BY <1>2, <2>2 DEF RelayType, Sane
  <2> HIDE DEF tried
  <2>4. Core(tried)
    BY <1>2, <1>5, <1>8, <2>2, <2>3 DEF Core, Backups
  <2>5. Driven(tried) /\ Usable(tried)
    BY <2>2, <2>3 DEF Driven, Usable
  <2> QED BY <1>1, <1>3, <1>8, <2>4, <2>5 DEF Good
<1> QED BY <1>1, <1>6, <1>7, <1>8

\* The deadline of an attempt: an allocation that came in time has its task.
LEMMA TimeoutGood ==
    ASSUME NEW t, Good(t), t.alloc_timer, NEW made \in Conns \cup {0, None}
    PROVE  Good(AllocateTimeout(t, made))
<1> DEFINE fired == [t EXCEPT !.alloc_timer = FALSE]
           next == [fired EXCEPT !.attempt = @ + 1]
<1>1. /\ t \in RelayType /\ Count \in Nat \ {0} /\ t.attempt \in 1..Count + 1
      /\ t.attempt <= Count
  BY RelayAssumption DEF Good, Core, RelayType, RelayAssumption
<1>2. /\ fired \in RelayType /\ fired.turn = t.turn /\ fired.alloc_timer = FALSE
      /\ fired.probe = t.probe /\ fired.attempt = t.attempt
      /\ fired.gathering = t.gathering /\ fired.backup_timer = t.backup_timer
      /\ fired.relays = t.relays /\ fired.state = t.state
      /\ fired.failed = t.failed /\ fired.queue = t.queue
      /\ fired.closed = t.closed /\ fired.backups = t.backups
      /\ fired.remote = t.remote
  BY <1>1 DEF RelayType
<1>3. AllocateTimeout(t, made) = IF t.turn.allocated THEN fired
                                 ELSE try_next_turn_attempt(next, made)
  BY DEF AllocateTimeout
<1> HIDE DEF fired
<1>4. Core(fired)
  BY <1>2 DEF Good, Core, Backups
<1>5. CASE t.turn.allocated
  <2>1. Usable(fired)
    BY <1>2 DEF Good, Usable
  <2>2. ASSUME t.gathering, RelayAllowed PROVE Has(t.queue, OfOp("alloc"))
    <3>1. t.turn # NoClient
      BY <1>5, NoClientFields
    <3>2. t.turn.cb = "main" /\ t.relays = {} /\ Sane(t.turn) /\ t.turn.server \in Servers
      BY <2>2, <3>1 DEF Good, Core, Sane
    <3>3. Has(t.queue, {AllocTask("main", Key(t.turn))})
      BY <1>5, <2>2, <3>2 DEF Good, Usable
    <3>4. Key(t.turn) \in Keys
      BY <3>2 DEF Key, Keys, Sane, ClientType
    <3>5. AllocTask("main", Key(t.turn)) \in OfOp("alloc")
      BY <3>4 DEF AllocTask, OfOp, Tasks
    <3> QED BY <3>3, <3>5 DEF Has
  <2>3. Driven(fired)
    BY <1>2, <2>2 DEF Driven
  <2> QED BY <1>3, <1>4, <1>5, <2>1, <2>3 DEF Good
<1>6. CASE ~t.turn.allocated
  <2>3. fired.attempt + 1 \in 1..Count + 1
    BY <1>1, <1>2
  <2>1. /\ next \in RelayType /\ next.turn = fired.turn /\ next.alloc_timer = FALSE
        /\ next.probe = fired.probe
        /\ next.gathering = fired.gathering
        /\ next.backup_timer = fired.backup_timer
        /\ next.relays = fired.relays /\ next.state = fired.state
        /\ next.failed = fired.failed /\ next.queue = fired.queue
        /\ next.closed = fired.closed /\ next.backups = fired.backups
    BY <1>2, <2>3 DEF RelayType
  <2> HIDE DEF next
  <2>2. Core(next)
    BY <1>4, <2>1 DEF Core, Backups
  <2> QED BY <1>3, <1>6, <2>2, NextGood
<1> QED BY <1>5, <1>6

\* The task of an allocation: the relay candidate and its permissions.
LEMMA AllocGood ==
    ASSUME NEW t, Core(t), NEW k \in Keys, Usable(t) \/ k = Key(t.turn)
    PROVE  Good(on_alloc(t, k))
<1> DEFINE permitted == IF t.turn = NoClient THEN NoClient
                        ELSE create_permission(t.turn, t.remote)
           settled == [t EXCEPT !.alloc_timer = FALSE, !.gathering = FALSE,
                                !.relays = @ \cup {k}, !.turn = permitted,
                                !.backups = Following(t)]
           probing == [settled EXCEPT !.probe_idx = 0, !.backup_timer = TRUE]
           quiet == [t EXCEPT !.alloc_timer = FALSE]
<1>1. /\ t \in RelayType /\ Count \in Nat \ {0} /\ t.attempt \in 1..Count + 1
      /\ t.remote \in SUBSET Peers /\ Sane(t.turn)
  BY RelayAssumption DEF Core, RelayType, RelayAssumption
<1>2. /\ Sane(permitted) /\ permitted.allocated = t.turn.allocated
      /\ permitted.cb = t.turn.cb /\ Key(permitted) = Key(t.turn)
      /\ t.turn # NoClient => t.remote \subseteq permitted.permissions
  BY <1>1, PermissionSane, NoClientSane DEF SameClient, Key
<1>3. Following(t) \in 1..Count + 1
  BY <1>1 DEF Following
<1>4. on_alloc(t, k) = IF ~RelayAllowed THEN quiet
                       ELSE IF t.attempt >= Count \/ ~Probing THEN settled
                       ELSE probing
  BY DEF on_alloc
<1> HIDE DEF permitted
<1>5. CASE ~RelayAllowed
  <2>1. /\ quiet \in RelayType /\ quiet.turn = t.turn /\ quiet.alloc_timer = FALSE
        /\ quiet.probe = t.probe /\ quiet.attempt = t.attempt
        /\ quiet.gathering = t.gathering /\ quiet.backup_timer = t.backup_timer
        /\ quiet.relays = t.relays /\ quiet.state = t.state
        /\ quiet.failed = t.failed /\ quiet.queue = t.queue
        /\ quiet.closed = t.closed /\ quiet.backups = t.backups
    BY <1>1 DEF RelayType
  <2> HIDE DEF quiet
  <2>2. Core(quiet)
    BY <2>1 DEF Core, Backups
  <2> QED BY <1>4, <1>5, <2>2 DEF Good, Driven, Usable
<1>6. CASE RelayAllowed
  <2>1. /\ settled \in RelayType /\ settled.turn = permitted
        /\ settled.alloc_timer = FALSE
        /\ settled.probe = t.probe /\ settled.attempt = t.attempt
        /\ settled.gathering = FALSE /\ settled.backup_timer = t.backup_timer
        /\ settled.relays = t.relays \cup {k} /\ settled.state = t.state
        /\ settled.failed = t.failed /\ settled.queue = t.queue
        /\ settled.closed = t.closed /\ settled.backups = Following(t)
        /\ settled.remote = t.remote
    BY <1>1, <1>2, <1>3 DEF RelayType, Sane
  <2> HIDE DEF settled
  <2>2. /\ probing \in RelayType /\ probing.turn = permitted
        /\ probing.alloc_timer = FALSE
        /\ probing.probe = t.probe /\ probing.attempt = t.attempt
        /\ probing.gathering = FALSE /\ probing.backup_timer = TRUE
        /\ probing.relays = t.relays \cup {k} /\ probing.state = t.state
        /\ probing.failed = t.failed /\ probing.queue = t.queue
        /\ probing.closed = t.closed /\ probing.backups = Following(t)
        /\ probing.remote = t.remote
    <3>1. 0 \in 0..Count
      BY <1>1
    <3> QED BY <2>1, <3>1 DEF RelayType
  <2> HIDE DEF probing
  <2>3. permitted.allocated => permitted # NoClient /\ t.turn # NoClient
    BY <1>2, NoClientFields
  <2>4. ASSUME t.turn.allocated, t.turn.cb = "main"
        PROVE  \/ Has(t.queue, {AllocTask("main", Key(t.turn))})
               \/ Key(t.turn) \in t.relays \cup {k}
    BY <1>6, <2>4 DEF Usable
  <2>5. Usable(settled) /\ Usable(probing)
    BY <1>2, <2>1, <2>2, <2>3, <2>4 DEF Usable
  <2>6. Driven(settled) /\ Driven(probing)
    BY <2>1, <2>2 DEF Driven
  <2>7. t.attempt >= Count => Backups(settled) = 0
    BY <1>1, <2>1 DEF Backups, Following
  <2>8. t.attempt >= Count \/ ~Probing => Core(settled)
    BY <1>2, <2>1, <2>7 DEF Core
  <2>9. Core(probing)
    BY <1>2, <2>2 DEF Core
  <2> QED BY <1>4, <1>6, <2>5, <2>6, <2>8, <2>9 DEF Good
<1> QED BY <1>5, <1>6, RelayAssumption DEF RelayAssumption

\* A backup is probed while no walk is under way.
LEMMA TickGood ==
    ASSUME NEW t, Good(t), t.backup_timer, NEW made \in Conns \cup {0, None}
    PROVE  Good(on_turn_backup_tick(t, made))
<1> DEFINE fired == [t EXCEPT !.backup_timer = FALSE]
           i == ProbeIndex(t)
           client == build_turn_client(t.backups + i, made, "probe")
           next == [t EXCEPT !.probe_idx = i + 1, !.backup_timer = TRUE,
                             !.probe = client]
<1>1. /\ t \in RelayType /\ Count \in Nat \ {0} /\ t.backups \in 1..Count + 1
      /\ t.probe_idx \in 0..Count /\ ~t.gathering
  BY RelayAssumption DEF Good, Core, RelayType, RelayAssumption
<1>2. on_turn_backup_tick(t, made) =
        IF Backups(t) <= 0 \/ ~Probing \/ t.state = "Failed" THEN fired ELSE next
  BY DEF on_turn_backup_tick
<1>3. CASE Backups(t) <= 0 \/ ~Probing \/ t.state = "Failed"
  <2>1. /\ fired \in RelayType /\ fired.turn = t.turn
        /\ fired.alloc_timer = t.alloc_timer
        /\ fired.probe = t.probe /\ fired.attempt = t.attempt
        /\ fired.gathering = t.gathering
        /\ fired.relays = t.relays /\ fired.state = t.state
        /\ fired.failed = t.failed /\ fired.queue = t.queue
        /\ fired.closed = t.closed /\ fired.backups = t.backups
        /\ fired.remote = t.remote
    BY <1>1 DEF RelayType
  <2>2. Backups(t) \in Int
    BY <1>1 DEF Backups
  <2> HIDE DEF fired
  <2>3. Core(fired)
    BY <1>1, <1>3, <2>1, <2>2 DEF Good, Core, Backups
  <2>4. Driven(fired) /\ Usable(fired)
    BY <1>1, <2>1 DEF Good, Driven, Usable
  <2> QED BY <1>2, <1>3, <2>3, <2>4 DEF Good
<1>4. CASE ~(Backups(t) <= 0 \/ ~Probing \/ t.state = "Failed")
  <2>1. i + 1 \in 0..Count /\ t.backups + i \in Servers
    BY <1>1, <1>4 DEF ProbeIndex, Backups, Servers
  <2>2. Sane(client) /\ (client # NoClient => client.cb = "probe")
    BY <2>1, BuildSane
  <2> HIDE DEF client, i
  <2>3. /\ next \in RelayType /\ next.turn = t.turn
        /\ next.alloc_timer = t.alloc_timer
        /\ next.probe = client /\ next.attempt = t.attempt
        /\ next.gathering = t.gathering /\ next.backup_timer = TRUE
        /\ next.relays = t.relays /\ next.state = t.state
        /\ next.failed = t.failed /\ next.queue = t.queue
        /\ next.closed = t.closed /\ next.backups = t.backups
        /\ next.remote = t.remote
    BY <1>1, <2>1, <2>2 DEF RelayType, Sane
  <2> HIDE DEF next
  <2>4. Core(next)
    BY <1>1, <2>2, <2>3 DEF Good, Core
  <2>5. Driven(next) /\ Usable(next)
    BY <1>1, <2>3 DEF Good, Driven, Usable
  <2> QED BY <1>2, <1>4, <2>4, <2>5 DEF Good
<1> QED BY <1>3, <1>4

\* A probe that has answered is dropped or promoted; a promoted client keeps
\* the callbacks of a probe.
LEMMA ProbedGood ==
    ASSUME NEW t, Good(t), NEW early
    PROVE  Good(probe_on_alloc(t, early))
<1> DEFINE dropped == [t EXCEPT !.probe = NoClient]
           promoted == promote_turn_backup(t)
<1>1. t \in RelayType /\ Sane(t.probe)
  BY DEF Good, Core
<1>2. probe_on_alloc(t, early) \in
        IF t.probe = NoClient THEN {t} ELSE {dropped, promoted}
  BY DEF probe_on_alloc
<1>3. CASE t.probe = NoClient
  BY <1>2, <1>3
<1>4. CASE t.probe # NoClient
  <2>1. ~t.gathering /\ t.probe.cb = "probe" /\ Key(t.probe) \in Keys
    BY <1>1, <1>4 DEF Good, Core, Sane, ClientType, Key, Keys
  <2>2. /\ dropped \in RelayType /\ dropped.turn = t.turn
        /\ dropped.alloc_timer = t.alloc_timer
        /\ dropped.probe = NoClient /\ dropped.attempt = t.attempt
        /\ dropped.gathering = t.gathering
        /\ dropped.backup_timer = t.backup_timer
        /\ dropped.relays = t.relays /\ dropped.state = t.state
        /\ dropped.failed = t.failed /\ dropped.queue = t.queue
        /\ dropped.closed = t.closed /\ dropped.backups = t.backups
        /\ dropped.remote = t.remote
    BY <1>1, NoClientFields DEF RelayType
  <2> HIDE DEF dropped
  <2>3. Core(dropped)
    BY <2>1, <2>2, NoClientSane DEF Good, Core, Backups
  <2>4. Driven(dropped) /\ Usable(dropped)
    BY <2>1, <2>2 DEF Good, Driven, Usable
  <2>5. /\ promoted \in RelayType /\ promoted.turn = t.probe
        /\ promoted.alloc_timer = t.alloc_timer
        /\ promoted.probe = NoClient /\ promoted.attempt = t.attempt
        /\ promoted.gathering = t.gathering
        /\ promoted.backup_timer = t.backup_timer
        /\ promoted.state = "Failed" => t.state = "Failed"
        /\ promoted.failed = t.failed /\ promoted.queue = t.queue
        /\ promoted.closed = t.closed /\ promoted.backups = t.backups
    <3> DEFINE x == IF t.probe.allocated THEN Key(t.probe) ELSE None
               y == IF t.state = "Connected" THEN "Running" ELSE t.state
    <3>1. x \in Keys \cup {None}
      BY <2>1
    <3>2. y \in {"Running", "Connected", "Failed"} /\ (y = "Failed" => t.state = "Failed")
      BY <1>1 DEF RelayType
    <3>3. promoted = [t EXCEPT !.turn = t.probe, !.probe = NoClient,
                               !.failed_over = TRUE, !.relays = {x}, !.state = y]
      BY DEF promote_turn_backup
    <3> HIDE DEF x, y, promoted
    <3> QED BY <1>1, <3>1, <3>2, <3>3, NoClientFields DEF RelayType
  <2> HIDE DEF promoted
  <2>6. Core(promoted)
    BY <1>1, <2>1, <2>5, NoClientSane DEF Good, Core, Backups
  <2>7. Driven(promoted) /\ Usable(promoted)
    BY <2>1, <2>5 DEF Driven, Usable
  <2> QED BY <1>2, <1>4, <2>3, <2>4, <2>6, <2>7 DEF Good
<1> QED BY <1>3, <1>4

\* An operation on the client in either place.
LEMMA TurnGood ==
    ASSUME NEW t, Good(t), NEW d, SameClient(t.turn, d)
    PROVE  LET u == [t EXCEPT !.turn = d]
           IN /\ Core(u) /\ Driven(u) /\ u.turn = d /\ u.queue = t.queue
              /\ (d.allocated => /\ t.turn.allocated
                                 /\ t.turn.permissions \subseteq d.permissions)
                   => Usable(u)
<1> DEFINE u == [t EXCEPT !.turn = d]
<1>1. /\ u \in RelayType /\ u.turn = d /\ u.alloc_timer = t.alloc_timer
      /\ u.probe = t.probe /\ u.attempt = t.attempt
      /\ u.gathering = t.gathering /\ u.backup_timer = t.backup_timer
      /\ u.relays = t.relays /\ u.state = t.state
      /\ u.failed = t.failed /\ u.queue = t.queue
      /\ u.closed = t.closed /\ u.backups = t.backups
      /\ u.remote = t.remote /\ u.subscribed = t.subscribed
  BY DEF Good, Core, RelayType, SameClient, Sane
<1> HIDE DEF u
<1>2. Core(u)
  BY <1>1 DEF Good, Core, SameClient, Backups
<1>3. Driven(u)
  BY <1>1 DEF Good, Driven
<1>4. Key(d) = Key(t.turn) /\ d.cb = t.turn.cb
  BY DEF SameClient, Key
<1>5. ASSUME d.allocated => /\ t.turn.allocated
                            /\ t.turn.permissions \subseteq d.permissions
      PROVE  Usable(u)
  BY <1>1, <1>4, <1>5 DEF Good, Usable
<1> QED BY <1>1, <1>2, <1>3, <1>5 DEF u

\* An operation on the probed backup does not disturb the relay in use.
LEMMA ProbeGood ==
    ASSUME NEW t, Good(t), NEW d, SameClient(t.probe, d)
    PROVE  Good([t EXCEPT !.probe = d]) /\ [t EXCEPT !.probe = d].queue = t.queue
<1> DEFINE u == [t EXCEPT !.probe = d]
<1>1. /\ u \in RelayType /\ u.turn = t.turn /\ u.alloc_timer = t.alloc_timer
      /\ u.probe = d /\ u.attempt = t.attempt
      /\ u.gathering = t.gathering /\ u.backup_timer = t.backup_timer
      /\ u.relays = t.relays /\ u.state = t.state
      /\ u.failed = t.failed /\ u.queue = t.queue
      /\ u.closed = t.closed /\ u.backups = t.backups
      /\ u.remote = t.remote /\ u.subscribed = t.subscribed
  BY DEF Good, Core, RelayType, SameClient, Sane
<1> HIDE DEF u
<1>2. Core(u)
  BY <1>1 DEF Good, Core, SameClient, Backups
<1>3. Driven(u) /\ Usable(u)
  BY <1>1 DEF Good, Driven, Usable
<1> QED BY <1>1, <1>2, <1>3 DEF u, Good

\* An answer that arrives for a client in use has its task posted.
LEMMA InboundGood ==
    ASSUME NEW t, Good(t), NEW m \in OfOp("inbound")
    PROVE  Good(on_inbound(t, m))
<1>1. /\ t \in RelayType /\ Sane(t.turn) /\ Sane(t.probe)
      /\ t.queue \in Seq(Tasks) /\ m.key \in Keys
  BY DEF Good, Core, RelayType, OfOp, Tasks
<1>2. ASSUME NEW cb PROVE /\ AllocTask(cb, m.key) \in Tasks
                          /\ AllocTask(cb, m.key).op # "close"
  BY <1>1 DEF AllocTask, Tasks
<1>3. ASSUME NEW u, Good(u), NEW cb PROVE Good(Post(u, AllocTask(cb, m.key)))
  BY <1>2, <1>3, PostGood DEF Good, Core
<1>4. CASE t.turn # NoClient /\ Key(t.turn) = m.key
  <2> DEFINE d == handle_allocate_response(t.turn)
             u == [t EXCEPT !.turn = d]
             task == AllocTask(t.turn.cb, m.key)
  <2>1. on_inbound(t, m) \in {t, Post(u, task)}
    BY <1>4 DEF on_inbound, ToTurn
  <2>2. SameClient(t.turn, d)
    BY <1>1, <1>4, AllocatedSane
  <2> HIDE DEF d
  <2>3. Core(u) /\ Driven(u) /\ u.turn = d /\ u.queue = t.queue
    BY <2>2, TurnGood
  <2>4. u \in RelayType /\ u.queue \in Seq(Tasks)
    BY <2>3 DEF Core, RelayType
  <2> HIDE DEF u
  <2>5. task \in Tasks /\ task.op # "close"
    BY <1>2
  <2>6. Core(Post(u, task)) /\ Driven(Post(u, task))
    BY <2>3, <2>4, <2>5, PostGood
  <2>7. Usable(Post(u, task))
    <3>1. Post(u, task).turn = d /\ Post(u, task).queue = Append(u.queue, task)
      BY <2>3, <2>4 DEF Post, RelayType
    <3>2. Key(d) = m.key /\ d.cb = t.turn.cb
      BY <1>4, <2>2 DEF SameClient, Key
    <3>3. Has(Append(u.queue, task), {task})
      BY <2>4, <2>5, PostHas
    <3>4. d.cb = "main" => task = AllocTask("main", Key(d))
      BY <3>2
    <3> HIDE DEF task
    <3> QED BY <3>1, <3>3, <3>4 DEF Usable
  <2> QED BY <2>1, <2>6, <2>7 DEF Good
<1>5. CASE ~(t.turn # NoClient /\ Key(t.turn) = m.key)
           /\ t.probe # NoClient /\ Key(t.probe) = m.key
  <2> DEFINE d == handle_allocate_response(t.probe)
             u == [t EXCEPT !.probe = d]
  <2>1. on_inbound(t, m) \in {t, Post(u, AllocTask(t.probe.cb, m.key))}
    BY <1>5 DEF on_inbound, ToProbe
  <2>2. SameClient(t.probe, d)
    BY <1>1, <1>5, AllocatedSane
  <2> HIDE DEF d
  <2>3. Good(u)
    BY <2>2, ProbeGood
  <2> HIDE DEF u
  <2> QED BY <1>3, <2>1, <2>3
<1>6. CASE ~(t.turn # NoClient /\ Key(t.turn) = m.key)
           /\ ~(t.probe # NoClient /\ Key(t.probe) = m.key)
  <2>1. on_inbound(t, m) \in {t, Post(t, AllocTask(m.cb, m.key))}
    BY <1>6 DEF on_inbound, ToDropped
  <2> QED BY <1>3, <2>1
<1> QED BY <1>4, <1>5, <1>6

\* A remote candidate gets its permission from an allocation there is.
LEMMA RemoteGood ==
    ASSUME NEW t, Good(t), NEW p \in Peers, NEW changed
    PROVE  Good(add_remote_candidates(t, p, changed))
<1> DEFINE known == IF changed THEN {} ELSE t.remote
           d == IF p \notin known /\ t.turn.allocated
                THEN create_permission(t.turn, {p}) ELSE t.turn
           v == [t EXCEPT !.turn = d]
           u == [t EXCEPT !.remote = known \cup {p}, !.turn = d]
<1>1. t \in RelayType /\ Sane(t.turn) /\ known \in SUBSET Peers
  BY DEF Good, Core, RelayType
<1>2. add_remote_candidates(t, p, changed) = u
  BY DEF add_remote_candidates
<1>3. /\ SameClient(t.turn, d) /\ d.allocated = t.turn.allocated
      /\ d.allocated /\ p \notin known =>
            d.permissions = t.turn.permissions \cup {p}
      /\ p \in known => d = t.turn
  <2>1. CASE p \notin known /\ t.turn.allocated
    <3>1. t.turn # NoClient /\ {p} \in SUBSET Peers
      BY <2>1, NoClientFields
    <3> QED BY <1>1, <2>1, <3>1, PermissionSane
  <2>2. CASE ~(p \notin known /\ t.turn.allocated)
    BY <1>1, <2>2 DEF SameClient
  <2> QED BY <2>1, <2>2
<1> HIDE DEF d
<1>4. /\ u \in RelayType /\ u.turn = d /\ u.alloc_timer = t.alloc_timer
      /\ u.probe = t.probe /\ u.attempt = t.attempt
      /\ u.gathering = t.gathering /\ u.backup_timer = t.backup_timer
      /\ u.relays = t.relays /\ u.state = t.state
      /\ u.failed = t.failed /\ u.queue = t.queue
      /\ u.closed = t.closed /\ u.backups = t.backups
      /\ u.remote = known \cup {p} /\ u.subscribed = t.subscribed
  BY <1>1, <1>3 DEF RelayType, SameClient, Sane
<1> HIDE DEF u
<1>5. Core(u)
  BY <1>3, <1>4 DEF Good, Core, SameClient, Backups
<1>6. Driven(u)
  BY <1>4 DEF Good, Driven
<1>7. Key(d) = Key(t.turn) /\ d.cb = t.turn.cb
  BY <1>3 DEF SameClient, Key
<1>8. ASSUME t.remote \subseteq t.turn.permissions, d.allocated
      PROVE  known \cup {p} \subseteq d.permissions
  BY <1>3, <1>8
<1> HIDE DEF known
<1>9. Usable(u)
  BY <1>3, <1>4, <1>7, <1>8 DEF Good, Usable
<1> QED BY <1>2, <1>5, <1>6, <1>9 DEF Good

\* A nomination through the relay binds a channel.
LEMMA NominatedGood ==
    ASSUME NEW t, Good(t), NEW p \in Peers, NEW relay \in BOOLEAN,
           relay => t.turn.next_channel >= MinChannel
    PROVE  Good(on_nominated(t, p, relay))
<1> DEFINE d == IF relay /\ t.turn # NoClient THEN bind_channel(t.turn, p)
                ELSE t.turn
           v == [t EXCEPT !.turn = d]
           u == [t EXCEPT !.state = "Connected", !.turn = d]
<1>1. t \in RelayType /\ Sane(t.turn)
  BY DEF Good, Core
<1>2. on_nominated(t, p, relay) = u
  BY DEF on_nominated
<1>3. /\ SameClient(t.turn, d) /\ d.allocated = t.turn.allocated
      /\ t.turn.permissions \subseteq d.permissions
  <2>1. CASE relay /\ t.turn # NoClient
    BY <1>1, <2>1, BindSane
  <2>2. CASE ~(relay /\ t.turn # NoClient)
    BY <1>1, <2>2 DEF SameClient
  <2> QED BY <2>1, <2>2
<1> HIDE DEF d
<1>4. Core(v) /\ Driven(v) /\ Usable(v)
  BY <1>3, TurnGood
<1>5. v \in RelayType /\ u = [v EXCEPT !.state = "Connected"]
  BY <1>1, <1>3 DEF RelayType, SameClient, Sane
<1> HIDE DEF v, u
<1>6. /\ u \in RelayType /\ u.turn = v.turn /\ u.alloc_timer = v.alloc_timer
      /\ u.probe = v.probe /\ u.attempt = v.attempt
      /\ u.gathering = v.gathering /\ u.backup_timer = v.backup_timer
      /\ u.relays = v.relays /\ u.state = "Connected"
      /\ u.failed = v.failed /\ u.queue = v.queue
      /\ u.closed = v.closed /\ u.backups = v.backups
      /\ u.remote = v.remote /\ u.subscribed = v.subscribed
  BY <1>5 DEF RelayType
<1>7. Core(u)
  BY <1>4, <1>6 DEF Core, Backups
<1>8. Driven(u) /\ Usable(u)
  BY <1>4, <1>6 DEF Driven, Usable
<1> QED BY <1>2, <1>7, <1>8 DEF Good

\* The task of close(): no timer is left, and nothing needs one.
LEMMA CloseGood ==
    ASSUME NEW t, Core(t), t.closed
    PROVE  Good(CloseTask(t))
<1> DEFINE u == CloseTask(t)
<1>1. t \in RelayType /\ Sane(t.turn) /\ Sane(t.probe)
  BY DEF Core
<1>2. /\ SameClient(t.turn, close(t.turn)) /\ ~close(t.turn).allocated
      /\ SameClient(t.probe, close(t.probe))
  BY <1>1, CloseSane
<1>3. /\ u \in RelayType /\ u.turn = close(t.turn) /\ u.alloc_timer = FALSE
      /\ u.probe = close(t.probe) /\ u.attempt = t.attempt
      /\ u.gathering = t.gathering /\ u.backup_timer = FALSE
      /\ u.relays = t.relays /\ u.state = t.state
      /\ u.failed = t.failed /\ u.queue = t.queue
      /\ u.closed = t.closed /\ u.subscribed = FALSE
  BY <1>1, <1>2 DEF RelayType, CloseTask, SameClient, Sane
<1> HIDE DEF u
<1>4. Core(u)
  BY <1>2, <1>3 DEF Core, SameClient
<1>5. Driven(u) /\ Usable(u)
  BY <1>2, <1>3 DEF Driven, Usable
<1> QED BY <1>4, <1>5 DEF Good, u

\* What a session starts with, and starts over with.
Afresh(n) == /\ n \in RelayType /\ n.turn = NoClient /\ n.alloc_timer = FALSE
             /\ n.probe = NoClient /\ n.backup_timer = FALSE
             /\ n.relays = {} /\ n.state = "Running" /\ n.failed = FALSE
             /\ n.backups = Count + 1
             /\ Has(n.queue, OfOp("close")) => n.closed

\* A new session, and one that restart() resets, starts afresh.
LEMMA NewAfresh ==
    /\ Afresh(NewSession)
    /\ \A q \in Seq(Tasks), closed \in BOOLEAN :
          (Has(q, OfOp("close")) => closed)
             => Afresh([NewSession EXCEPT !.queue = q, !.closed = closed])
<1>1. /\ 1 \in 1..Count + 1 /\ Count + 1 \in 1..Count + 1 /\ 0 \in 0..Count
      /\ NoClient \in ClientType /\ <<>> \in Seq(Tasks)
  BY NoClientFields, RelayAssumption DEF RelayAssumption
<1>2. NewSession \in RelayType
  BY <1>1 DEF RelayType, NewSession
<1>3. /\ NewSession.turn = NoClient /\ NewSession.alloc_timer = FALSE
      /\ NewSession.probe = NoClient /\ NewSession.backup_timer = FALSE
      /\ NewSession.relays = {} /\ NewSession.state = "Running"
      /\ NewSession.failed = FALSE /\ NewSession.backups = Count + 1
      /\ NewSession.queue = <<>>
  BY DEF NewSession
<1>4. ~Has(<<>>, OfOp("close"))
  BY DEF Has
<1>5. Afresh(NewSession)
  BY <1>2, <1>3, <1>4 DEF Afresh
<1>6. ASSUME NEW q \in Seq(Tasks), NEW closed \in BOOLEAN,
             Has(q, OfOp("close")) => closed
      PROVE  Afresh([NewSession EXCEPT !.queue = q, !.closed = closed])
  <2> DEFINE n == [NewSession EXCEPT !.queue = q, !.closed = closed]
  <2>1. /\ n \in RelayType /\ n.turn = NoClient /\ n.alloc_timer = FALSE
        /\ n.probe = NoClient /\ n.backup_timer = FALSE
        /\ n.relays = {} /\ n.state = "Running" /\ n.failed = FALSE
        /\ n.queue = q /\ n.closed = closed /\ n.backups = Count + 1
    BY <1>2, <1>3 DEF RelayType
  <2> HIDE DEF n
  <2>2. Afresh(n)
    BY <1>6, <2>1 DEF Afresh
  <2> QED BY <2>2 DEF n
<1> QED BY <1>5, <1>6

\* A session that starts afresh may begin its walk through the servers.
LEMMA AfreshGood ==
    ASSUME NEW n, Afresh(n), NEW made \in Conns \cup {0, None}
    PROVE  Good(gather_relay(n, made))
<1> DEFINE u == [n EXCEPT !.gathering = TRUE, !.attempt = 1]
<1>1. Count \in Nat \ {0} /\ 1 \in 1..Count + 1
  BY RelayAssumption DEF RelayAssumption
<1>2. /\ u \in RelayType /\ u.turn = NoClient /\ u.alloc_timer = FALSE
      /\ u.probe = NoClient /\ u.attempt = 1
      /\ u.gathering = TRUE /\ u.backup_timer = FALSE
      /\ u.relays = {} /\ u.state = "Running"
      /\ u.failed = FALSE /\ u.queue = n.queue
      /\ u.closed = n.closed /\ u.backups = Count + 1
  BY <1>1 DEF RelayType, Afresh
<1>3. gather_relay(n, made) = try_next_turn_attempt(u, made)
  BY DEF gather_relay
<1> HIDE DEF u
<1>4. Backups(u) = 0
  BY <1>1, <1>2 DEF Backups
<1>5. Core(u)
  BY <1>2, <1>4, NoClientSane DEF Core, Afresh
<1> QED BY <1>3, <1>5, NextGood

-----------------------------------------------------------------------------

\* The inductive invariant.
RelayInv == Good(r) /\ asked \subseteq Keys /\ restarts \in 0..MaxRestarts

\* What the making of a connection may return.
LEMMA MadeType ==
    ASSUME NEW server, NEW free \in SUBSET Conns
    PROVE  MadeFrom(server, free) \subseteq Conns \cup {0, None}
BY DEF MadeFrom

\* The keys of the session's clients.
LEMMA CurrentKeys ==
    ASSUME NEW t, Core(t)
    PROVE  Current(t) \subseteq Keys /\ Clients(t) \subseteq ClientType
BY DEF Core, Sane, Current, Clients, Key, Keys, ClientType

\* The session without the task that runs.
LEMMA PoppedGood ==
    ASSUME NEW t, Good(t), t.queue # <<>>
    PROVE  LET u == [t EXCEPT !.queue = Tail(@)]
               task == Head(t.queue)
           IN /\ Core(u) /\ task \in Tasks
              /\ task.op \notin {"next", "alloc"} => Driven(u)
              /\ task # AllocTask("main", Key(t.turn)) => Usable(u)
              /\ u.turn = t.turn /\ u.closed = t.closed
              /\ u.attempt = t.attempt
              /\ task.op = "close" => u.closed
<1> DEFINE u == [t EXCEPT !.queue = Tail(@)]
           task == Head(t.queue)
<1>1. t \in RelayType /\ t.queue \in Seq(Tasks)
  BY DEF Good, Core, RelayType
<1>2. /\ Tail(t.queue) \in Seq(Tasks) /\ task \in Tasks
      /\ \A T : Has(t.queue, T) <=> Has(Tail(t.queue), T) \/ task \in T
  BY <1>1, TailHas
<1>3. /\ u \in RelayType /\ u.turn = t.turn /\ u.alloc_timer = t.alloc_timer
      /\ u.probe = t.probe /\ u.attempt = t.attempt
      /\ u.gathering = t.gathering /\ u.backup_timer = t.backup_timer
      /\ u.relays = t.relays /\ u.state = t.state
      /\ u.failed = t.failed /\ u.queue = Tail(t.queue)
      /\ u.closed = t.closed /\ u.backups = t.backups
      /\ u.remote = t.remote /\ u.subscribed = t.subscribed
  BY <1>1, <1>2 DEF RelayType
<1> HIDE DEF u, task
<1>4. Core(u)
  BY <1>2, <1>3 DEF Good, Core, Backups
<1>5. task.op \notin {"next", "alloc"} => Driven(u)
  BY <1>2, <1>3 DEF Good, Driven, OfOp
<1>6. task # AllocTask("main", Key(t.turn)) => Usable(u)
  BY <1>2, <1>3 DEF Good, Usable
<1>7. task.op = "close" => u.closed
  BY <1>2, <1>3 DEF Good, Core, OfOp
<1> QED BY <1>2, <1>3, <1>4, <1>5, <1>6, <1>7 DEF u, task

\* The invariant holds initially.
LEMMA RelayInit == Init => RelayInv
<1> SUFFICES ASSUME Init PROVE RelayInv
  OBVIOUS
<1>1. PICK made \in Conns \cup {0, None} : r = gather_relay(NewSession, made)
  BY MadeType DEF Init
<1>2. Good(r)
  BY <1>1, NewAfresh, AfreshGood
<1>3. 0 \in 0..MaxRestarts
  BY RelayAssumption DEF RelayAssumption
<1> QED BY <1>2, <1>3 DEF RelayInv, Init

\* Every action leaves a good session.
LEMMA RelayStep == RelayInv /\ [Next]_vars => RelayInv'
<1> SUFFICES ASSUME RelayInv, [Next]_vars PROVE RelayInv'
  OBVIOUS
<1>1. /\ Good(r) /\ Core(r) /\ r \in RelayType /\ r.queue \in Seq(Tasks)
      /\ asked \subseteq Keys /\ restarts \in 0..MaxRestarts
      /\ Sane(r.turn) /\ Sane(r.probe)
  BY DEF RelayInv, Good, Core, RelayType
<1>2. ASSUME NEW t, Good(t), NEW requests \in SUBSET Keys, Become(t, requests),
             restarts' \in 0..MaxRestarts
      PROVE  RelayInv'
  BY <1>2 DEF Become, RelayInv
<1>3. ASSUME NEW t, Good(t), Handle(t) PROVE RelayInv'
  BY <1>1, <1>2, <1>3 DEF Handle
<1>4. ASSUME NEW server PROVE Made(server) \subseteq Conns \cup {0, None}
  BY MadeType DEF Made
<1>5. CASE Answer
  <2>1. PICK k \in asked \cup Current(r), kind \in {"challenge", "ok"},
             cb \in {"main", "probe", None} :
           Handle(Post(r, [op |-> "inbound", key |-> k, kind |-> kind, cb |-> cb]))
    <3>1. \A c \in Clients(r) : c.cb \in {"main", "probe", None}
      BY <1>1, CurrentKeys DEF ClientType
    <3> QED BY <1>5, <3>1 DEF Answer
  <2> DEFINE task == [op |-> "inbound", key |-> k, kind |-> kind, cb |-> cb]
  <2>2. k \in Keys
    BY <1>1, <2>1, CurrentKeys
  <2>3. task \in Tasks /\ task.op # "close"
    BY <2>2 DEF Tasks
  <2> HIDE DEF task
  <2>4. Good(Post(r, task))
    BY <1>1, <2>3, PostGood DEF Good
  <2> QED BY <1>3, <2>1, <2>4 DEF task
<1>6. CASE RunTask
  <2> DEFINE task == Head(r.queue)
             t == [r EXCEPT !.queue = Tail(@)]
  <2>1. r.queue # <<>>
    BY <1>6 DEF RunTask
  <2>2. /\ Core(t) /\ task \in Tasks
        /\ task.op \notin {"next", "alloc"} => Driven(t)
        /\ task # AllocTask("main", Key(r.turn)) => Usable(t)
        /\ t.turn = r.turn
        /\ task.op = "close" => t.closed
    BY <1>1, <2>1, PoppedGood
  <2>3. \/ /\ task.op = "inbound"
           /\ Become(on_inbound(t, task),
                     IF task.kind = "challenge" THEN asked \cup {task.key}
                     ELSE asked)
           /\ UNCHANGED restarts
        \/ task.op = "alloc" /\ Handle(on_alloc(t, task.key))
        \/ /\ task.op = "probed"
           /\ \E early \in BOOLEAN : Handle(probe_on_alloc(t, early))
        \/ /\ task.op = "next"
           /\ \E made \in Made(t.attempt) : Handle(try_next_turn_attempt(t, made))
        \/ task.op = "close" /\ Handle(CloseTask(t))
    BY <1>6 DEF RunTask
  <2> HIDE DEF task, t
  <2>4. \A k : AllocTask("main", k).op = "alloc"
    BY DEF AllocTask
  <2>5. task.op \notin {"next", "alloc"} => Good(t)
    BY <2>2, <2>4 DEF Good
  <2>6. CASE /\ task.op = "inbound"
             /\ Become(on_inbound(t, task),
                       IF task.kind = "challenge" THEN asked \cup {task.key}
                       ELSE asked)
             /\ UNCHANGED restarts
    <3>1. task \in OfOp("inbound") /\ task.key \in Keys
      BY <2>2, <2>6 DEF OfOp, Tasks
    <3>2. Good(on_inbound(t, task))
      BY <2>5, <2>6, <3>1, InboundGood
    <3>3. (IF task.kind = "challenge" THEN asked \cup {task.key} ELSE asked)
             \in SUBSET Keys
      BY <1>1, <3>1
    <3> QED BY <1>1, <1>2, <2>6, <3>2, <3>3
  <2>7. CASE task.op = "alloc" /\ Handle(on_alloc(t, task.key))
    <3>1. task.key \in Keys /\ task = [op |-> "alloc", key |-> task.key]
      BY <2>2, <2>7 DEF Tasks
    <3>2. task.key = Key(t.turn) \/ task # AllocTask("main", Key(r.turn))
      BY <2>2, <3>1 DEF AllocTask
    <3>3. Good(on_alloc(t, task.key))
      BY <2>2, <3>1, <3>2, AllocGood
    <3> QED BY <1>3, <2>7, <3>3
  <2>8. CASE /\ task.op = "probed"
             /\ \E early \in BOOLEAN : Handle(probe_on_alloc(t, early))
    BY <1>3, <2>5, <2>8, ProbedGood
  <2>9. CASE /\ task.op = "next"
             /\ \E made \in Made(t.attempt) : Handle(try_next_turn_attempt(t, made))
    BY <1>3, <1>4, <2>2, <2>9, NextGood
  <2>10. CASE task.op = "close" /\ Handle(CloseTask(t))
    BY <1>3, <2>2, <2>10, CloseGood
  <2> QED BY <2>3, <2>6, <2>7, <2>8, <2>9, <2>10
<1>7. CASE TimeoutFires
  BY <1>1, <1>3, <1>4, <1>7, TimeoutGood DEF TimeoutFires
<1>8. CASE BackupTick
  BY <1>1, <1>3, <1>4, <1>8, TickGood DEF BackupTick
<1>9. CASE RefreshTick
  <2>1. CASE r.turn.refresh_timer /\ Handle([r EXCEPT !.turn = schedule_refresh(@)])
    <3> DEFINE d == schedule_refresh(r.turn)
    <3>1. r.turn # NoClient
      BY <2>1, NoClientFields
    <3>2. /\ SameClient(r.turn, d) /\ d.allocated = r.turn.allocated
          /\ d.permissions = r.turn.permissions
      BY <1>1, <3>1, RefreshSane
    <3>3. Handle([r EXCEPT !.turn = d])
      BY <2>1
    <3> HIDE DEF d
    <3>4. Good([r EXCEPT !.turn = d])
      BY <1>1, <3>2, TurnGood DEF Good
    <3> QED BY <1>3, <3>3, <3>4
  <2>2. CASE r.probe.refresh_timer /\ Handle([r EXCEPT !.probe = schedule_refresh(@)])
    <3> DEFINE d == schedule_refresh(r.probe)
    <3>1. r.probe # NoClient
      BY <2>2, NoClientFields
    <3>2. SameClient(r.probe, d)
      BY <1>1, <3>1, RefreshSane
    <3>3. Handle([r EXCEPT !.probe = d])
      BY <2>2
    <3> HIDE DEF d
    <3>4. Good([r EXCEPT !.probe = d])
      BY <1>1, <3>2, ProbeGood
    <3> QED BY <1>3, <3>3, <3>4
  <2> QED BY <1>9, <2>1, <2>2 DEF RefreshTick
<1>10. CASE RemoteCandidate
  <2>1. Signalled \subseteq Peers
    BY RelayAssumption DEF RelayAssumption
  <2> QED BY <1>1, <1>3, <1>10, <2>1, RemoteGood DEF RemoteCandidate
<1>11. CASE Nominated
  BY <1>1, <1>3, <1>11, NominatedGood DEF Nominated
<1>12. CASE Restart
  <2>1. PICK made \in Made(1) : Become(restart(r, made), asked)
    BY <1>12 DEF Restart
  <2>2. restarts' \in 0..MaxRestarts
    BY <1>1, <1>12, RelayAssumption DEF Restart, RelayAssumption
  <2>3. r.closed \in BOOLEAN /\ (Has(r.queue, OfOp("close")) => r.closed)
    BY <1>1 DEF Core, RelayType
  <2>4. Afresh([NewSession EXCEPT !.queue = r.queue, !.closed = r.closed])
    BY <1>1, <2>3, NewAfresh
  <2>5. Good(restart(r, made))
    BY <1>1, <1>4, <2>1, <2>4, AfreshGood DEF restart
  <2> QED BY <1>1, <1>2, <2>1, <2>2, <2>5
<1>13. CASE Close
  <2> DEFINE u == [r EXCEPT !.state = "Failed", !.failed = TRUE, !.closed = TRUE]
             task == [op |-> "close"]
  <2>1. /\ u \in RelayType /\ u.turn = r.turn /\ u.alloc_timer = r.alloc_timer
        /\ u.probe = r.probe /\ u.attempt = r.attempt
        /\ u.gathering = r.gathering /\ u.backup_timer = r.backup_timer
        /\ u.relays = r.relays /\ u.failed = TRUE /\ u.queue = r.queue
        /\ u.closed = TRUE /\ u.remote = r.remote /\ u.subscribed = r.subscribed
    BY <1>1 DEF RelayType
  <2>2. Handle(Post(u, task)) /\ task \in Tasks
    BY <1>13 DEF Close, Tasks
  <2> HIDE DEF u, task
  <2>3. Core(u) /\ Driven(u) /\ Usable(u)
    BY <1>1, <2>1 DEF Good, Core, Driven, Usable
  <2>4. Good(Post(u, task))
    BY <2>1, <2>2, <2>3, PostGood DEF Good
  <2> QED BY <1>3, <2>2, <2>4
<1>14. CASE Fail
  <2> DEFINE u == [r EXCEPT !.state = "Failed", !.failed = TRUE]
  <2>1. /\ u \in RelayType /\ u.turn = r.turn /\ u.alloc_timer = r.alloc_timer
        /\ u.probe = r.probe /\ u.attempt = r.attempt
        /\ u.gathering = r.gathering /\ u.backup_timer = r.backup_timer
        /\ u.relays = r.relays /\ u.failed = TRUE /\ u.queue = r.queue
        /\ u.closed = r.closed /\ u.remote = r.remote
        /\ u.subscribed = r.subscribed
    BY <1>1 DEF RelayType
  <2>2. Handle(u)
    BY <1>14 DEF Fail
  <2> HIDE DEF u
  <2>3. Good(u)
    BY <1>1, <2>1 DEF Good, Core, Driven, Usable
  <2> QED BY <1>3, <2>2, <2>3
<1>15. CASE UNCHANGED vars
  BY <1>15 DEF vars, RelayInv
<1> QED
  BY <1>5, <1>6, <1>7, <1>8, <1>9, <1>10, <1>11, <1>12, <1>13, <1>14, <1>15
     DEF Next

\* A task of an operation waits in the model's words and in the proof's.
LEMMA QueuedHas ==
    ASSUME RelayInv, NEW op PROVE Queued(op) <=> Has(r.queue, OfOp(op))
<1>1. r.queue \in Seq(Tasks)
  BY DEF RelayInv, Good, Core, RelayType
<1>2. \A i \in DOMAIN r.queue : r.queue[i] \in Tasks
  BY <1>1
<1> QED BY <1>2 DEF Queued, Has, OfOp

\* The invariant holds in every reachable state.
LEMMA RelayAlways == Spec => []RelayInv
BY RelayInit, RelayStep, PTL DEF Spec

\* The relay's state has its type: the attempt, the backups and the probe
\* index stay within the list of servers and every channel number within its
\* width, for any number of servers, channels and restarts.
THEOREM RelayTyped == Spec => []TypeOK
<1>1. RelayInv => TypeOK
  BY DEF RelayInv, Good, Core, TypeOK
<1> QED BY <1>1, RelayAlways, PTL

\* No walk, no list of backups that are to be probed and no allocation is left
\* without the timer or the posted task that continues it (the generation
\* counters), whether or not the configuration has backups probed.
THEOREM RelayTimers == Spec => []NoTimerLost
<1>1. ASSUME RelayInv PROVE NoTimerLost
  <2>1. r.gathering /\ RelayAllowed /\ r.subscribed
           => r.alloc_timer \/ Queued("next") \/ Queued("alloc")
    BY <1>1, QueuedHas DEF RelayInv, Good, Driven
  <2>2. Probing /\ Backups(r) > 0 /\ ~r.failed /\ ~r.closed => r.backup_timer
    BY <1>1 DEF RelayInv, Good, Core
  <2>3. \A c \in Clients(r) : c.allocated <=> c.refresh_timer
    BY <1>1 DEF RelayInv, Good, Core, Clients, Sane
  <2> QED BY <2>1, <2>2, <2>3 DEF NoTimerLost
<1> QED BY <1>1, RelayAlways, PTL

\* An allocation of the session's own that it has taken note of is among its
\* candidates and permits every remote candidate (on_alloc and
\* add_remote_candidates, in either order).
THEOREM RelayIsUsable == Spec => []RelayUsable
<1>1. ASSUME RelayInv PROVE RelayUsable
  <2>1. SUFFICES ASSUME r.turn.allocated, r.turn.cb = "main", RelayAllowed,
                        ~Queued("alloc")
                 PROVE  /\ Key(r.turn) \in r.relays
                        /\ r.remote \subseteq r.turn.permissions
    BY DEF RelayUsable
  <2>2. ~Has(r.queue, OfOp("alloc"))
    BY <1>1, <2>1, QueuedHas
  <2>3. /\ r.queue \in Seq(Tasks) /\ Usable(r)
    BY <1>1 DEF RelayInv, Good, Core, RelayType
  <2>4. ~Has(r.queue, {AllocTask("main", Key(r.turn))})
    <3>1. AllocTask("main", Key(r.turn)).op = "alloc"
      BY DEF AllocTask
    <3>2. \A i \in DOMAIN r.queue : r.queue[i] \in Tasks
      BY <2>3
    <3> QED BY <2>2, <3>1, <3>2 DEF Has, OfOp
  <2> QED BY <2>1, <2>3, <2>4 DEF Usable
<1> QED BY <1>1, RelayAlways, PTL

\* The two channel maps of a client are each other's inverse, within the
\* protocol's range (bind_channel).
THEOREM RelayChannels == Spec => []ChannelsAgree
<1>1. RelayInv => ChannelsAgree
  BY DEF RelayInv, Good, Core, Sane, Numbered, Clients, ChannelsAgree
<1> QED BY <1>1, RelayAlways, PTL

-----------------------------------------------------------------------------

\* The client in use keeps its server and its connection.
SameKey(t, u) == u.turn.server = t.turn.server /\ u.turn.conn = t.turn.conn

\* A session that allocated keeps its client in every handler but the next
\* attempt and restart().
LEMMA HandlersKeep ==
    ASSUME NEW t, Core(t), t.turn.allocated
    PROVE  /\ \A made : SameKey(t, AllocateTimeout(t, made))
           /\ \A k : SameKey(t, on_alloc(t, k))
           /\ \A made : SameKey(t, on_turn_backup_tick(t, made))
           /\ \A early : SameKey(t, probe_on_alloc(t, early))
           /\ SameKey(t, CloseTask(t))
           /\ \A p \in Peers : \A changed : SameKey(t, add_remote_candidates(t, p, changed))
           /\ \A p \in Peers, relay \in BOOLEAN :
                 (relay => t.turn.next_channel >= MinChannel)
                    => SameKey(t, on_nominated(t, p, relay))
<1>1. /\ t \in RelayType /\ Sane(t.turn) /\ t.turn # NoClient
      /\ t.turn \in ClientType /\ t.remote \subseteq Peers
  BY NoClientFields DEF Core, RelayType
<1>2. ASSUME NEW made PROVE SameKey(t, AllocateTimeout(t, made))
  BY <1>1 DEF AllocateTimeout, SameKey, RelayType
<1>3. ASSUME NEW k PROVE SameKey(t, on_alloc(t, k))
  <2> DEFINE d == create_permission(t.turn, t.remote)
             settled == [t EXCEPT !.alloc_timer = FALSE, !.gathering = FALSE,
                                  !.relays = @ \cup {k}, !.turn = d,
                                  !.backups = Following(t)]
  <2>1. d.server = t.turn.server /\ d.conn = t.turn.conn
    BY <1>1, PermissionSane DEF SameClient
  <2>2. on_alloc(t, k) \in {settled, [t EXCEPT !.alloc_timer = FALSE],
                            [settled EXCEPT !.probe_idx = 0, !.backup_timer = TRUE]}
    BY <1>1 DEF on_alloc
  <2> HIDE DEF d
  <2>3. /\ settled.turn = d /\ [t EXCEPT !.alloc_timer = FALSE].turn = t.turn
        /\ [settled EXCEPT !.probe_idx = 0, !.backup_timer = TRUE].turn = d
    BY <1>1 DEF RelayType
  <2> HIDE DEF settled
  <2> QED BY <2>1, <2>2, <2>3 DEF SameKey
<1>4. ASSUME NEW made PROVE SameKey(t, on_turn_backup_tick(t, made))
  BY <1>1 DEF on_turn_backup_tick, SameKey, RelayType
<1>5. ASSUME NEW early PROVE SameKey(t, probe_on_alloc(t, early))
  BY <1>1 DEF probe_on_alloc, SameKey, RelayType
<1>6. SameKey(t, CloseTask(t))
  <2>1. CloseTask(t).turn = close(t.turn)
    BY <1>1 DEF CloseTask, RelayType
  <2> QED BY <1>1, <2>1, CloseSane DEF SameKey, SameClient
<1>7. ASSUME NEW p \in Peers, NEW changed
      PROVE  SameKey(t, add_remote_candidates(t, p, changed))
  <2>1. add_remote_candidates(t, p, changed).turn
           \in {t.turn, create_permission(t.turn, {p})}
    BY <1>1 DEF add_remote_candidates, RelayType
  <2> QED BY <1>1, <2>1, PermissionSane DEF SameKey, SameClient
<1>8. ASSUME NEW p \in Peers, NEW relay \in BOOLEAN,
             relay => t.turn.next_channel >= MinChannel
      PROVE  SameKey(t, on_nominated(t, p, relay))
  <2>1. on_nominated(t, p, relay).turn
           = IF relay THEN bind_channel(t.turn, p) ELSE t.turn
    BY <1>1 DEF on_nominated, RelayType
  <2> QED BY <1>1, <1>8, <2>1, BindSane DEF SameKey, SameClient
<1> QED BY <1>2, <1>3, <1>4, <1>5, <1>6, <1>7, <1>8

\* So does an answer that arrives.
LEMMA InboundKeeps ==
    ASSUME NEW t, Core(t), t.turn.allocated, NEW m PROVE SameKey(t, on_inbound(t, m))
<1>1. t \in RelayType /\ Sane(t.turn) /\ t.turn # NoClient
  BY NoClientFields DEF Core
<1> DEFINE d == handle_allocate_response(t.turn)
<1>2. d.server = t.turn.server /\ d.conn = t.turn.conn
  BY <1>1, AllocatedSane DEF SameClient
<1> HIDE DEF d
<1>3. ASSUME NEW task
      PROVE  /\ Post(t, task).turn = t.turn
             /\ \A c : Post([t EXCEPT !.probe = c], task).turn = t.turn
             /\ \A c : Post([t EXCEPT !.turn = c], task).turn = c
  BY <1>1 DEF Post, RelayType
<1>4. SameKey(t, ToTurn(t, m))
  BY <1>2, <1>3 DEF ToTurn, SameKey, d
<1>5. SameKey(t, ToProbe(t, m)) /\ SameKey(t, ToDropped(t, m))
  BY <1>3 DEF ToProbe, ToDropped, SameKey
<1> QED BY <1>4, <1>5 DEF on_inbound

\* An allocation in use goes with a restart, with close() or with a next
\* attempt that was posted before: neither the deadline of an attempt nor a
\* backup that answers takes it away (AllocateTimeout, probe_on_alloc).
THEOREM RelayKept == Spec => AllocationKept
<1> DEFINE Kept == r.turn.allocated /\ Key(r'.turn) # Key(r.turn)
                      => \/ restarts' # restarts
                         \/ r.queue # <<>> /\ Head(r.queue).op = "next"
<1>1. ASSUME RelayInv, [Next]_vars PROVE [Kept]_vars
  <2> SUFFICES ASSUME r.turn.allocated, Next, UNCHANGED restarts,
                      ~(r.queue # <<>> /\ Head(r.queue).op = "next")
               PROVE  Key(r'.turn) = Key(r.turn)
    BY <1>1
  <2> SUFFICES SameKey(r, r')
    BY DEF SameKey, Key
  <2>1. Core(r) /\ r \in RelayType /\ restarts \in Int /\ r.queue \in Seq(Tasks)
    <3>1. Core(r) /\ restarts \in Int
      BY <1>1 DEF RelayInv, Good
    <3>2. r \in RelayType
      BY <3>1 DEF Core
    <3> QED BY <3>1, <3>2 DEF RelayType
  <2>2. ASSUME NEW t, Handle(t), SameKey(r, t) PROVE SameKey(r, r')
    BY <2>2 DEF Handle, Become
  <2>3. CASE Answer
    <3>1. PICK task : Handle(Post(r, task))
      BY <2>3 DEF Answer
    <3>2. Post(r, task).turn = r.turn
      BY <2>1 DEF Post, RelayType
    <3> QED BY <2>2, <3>1, <3>2 DEF SameKey
  <2>4. CASE RunTask
    <3> DEFINE t == [r EXCEPT !.queue = Tail(@)]
               task == Head(r.queue)
    <3>1. r.queue # <<>>
      BY <2>4 DEF RunTask
    <3>2. Core(t)
      BY <1>1, <3>1, PoppedGood DEF RelayInv
    <3>3. t.turn = r.turn
      BY <2>1 DEF RelayType
    <3>4. \/ \E requests : Become(on_inbound(t, task), requests)
          \/ Handle(on_alloc(t, task.key))
          \/ \E early : Handle(probe_on_alloc(t, early))
          \/ Handle(CloseTask(t))
      BY <2>4, <3>1 DEF RunTask
    <3> HIDE DEF t, task
    <3>5. \A u : SameKey(t, u) => SameKey(r, u)
      BY <3>3 DEF SameKey
    <3> QED BY <2>2, <3>2, <3>3, <3>4, <3>5, HandlersKeep, InboundKeeps DEF Become
  <2>5. CASE TimeoutFires
    BY <2>1, <2>2, <2>5, HandlersKeep DEF TimeoutFires
  <2>6. CASE BackupTick
    BY <2>1, <2>2, <2>6, HandlersKeep DEF BackupTick
  <2>7. CASE RefreshTick
    <3>1. Sane(r.turn) /\ r.turn # NoClient
      BY <2>1, NoClientFields DEF Core
    <3> DEFINE d == schedule_refresh(r.turn)
               e == schedule_refresh(r.probe)
    <3>2. d.server = r.turn.server /\ d.conn = r.turn.conn
      BY <3>1, RefreshSane DEF SameClient
    <3>3. Handle([r EXCEPT !.turn = d]) \/ Handle([r EXCEPT !.probe = e])
      BY <2>7 DEF RefreshTick
    <3> HIDE DEF d, e
    <3>4. [r EXCEPT !.turn = d].turn = d /\ [r EXCEPT !.probe = e].turn = r.turn
      BY <2>1 DEF RelayType
    <3> QED BY <2>2, <3>2, <3>3, <3>4 DEF SameKey
  <2>8. CASE RemoteCandidate
    <3>1. Signalled \subseteq Peers
      BY RelayAssumption DEF RelayAssumption
    <3> QED BY <2>1, <2>2, <2>8, <3>1, HandlersKeep DEF RemoteCandidate
  <2>9. CASE Nominated
    BY <2>1, <2>2, <2>9, HandlersKeep DEF Nominated
  <2>10. CASE Restart
    BY <2>1, <2>10 DEF Restart
  <2>11. CASE Close
    <3> DEFINE u == [r EXCEPT !.state = "Failed", !.failed = TRUE, !.closed = TRUE]
    <3>1. Handle(Post(u, [op |-> "close"]))
      BY <2>11 DEF Close
    <3>2. Post(u, [op |-> "close"]).turn = r.turn
      BY <2>1 DEF Post, RelayType
    <3> QED BY <2>2, <3>1, <3>2 DEF SameKey
  <2>12. CASE Fail
    <3>1. [r EXCEPT !.state = "Failed", !.failed = TRUE].turn = r.turn
      BY <2>1 DEF RelayType
    <3> QED BY <2>2, <2>12, <3>1 DEF Fail, SameKey
  <2> QED
    BY <2>3, <2>4, <2>5, <2>6, <2>7, <2>8, <2>9, <2>10, <2>11, <2>12 DEF Next
<1> QED BY <1>1, RelayAlways, PTL DEF Spec, AllocationKept
=============================================================================
