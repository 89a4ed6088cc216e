# Verification of link-ice

TLA+ models of the ICE link plugin: the session state machine, its connectivity
checks, role conflicts, path-MTU discovery, the ordered data path, the TURN relay
of a session, the mDNS resolver and the link's registry of sessions.
TLC checks them on small instances. TLAPS proves the main invariants for every
value of the constants. `PROJECT.json` maps each definition to the lines it
models.

## 1. The system

An `IceLink` (`link_ice.cpp`) owns one `IceSession` (`session.cpp`) per
connection. One worker thread runs the handlers of all sessions, each on its
strand, their callbacks and the reaper; `connect`, `disconnect`, `deliver_signal`,
`close()`, `send()` and the accessors are called from threads of the host. Timers
are detached tasks guarded by a generation counter: a timer whose generation has
moved on does nothing when it fires.

| Part | State | Operations | Talks to |
|---|---|---|---|
| Session FSM | state, role, candidates, remote credentials, timers, consent and restart counters | gather, set/add remote candidates, flags, restart, close, keepalive, nomination | link, checks, TURN, peer |
| Connectivity checks | check list: pair state, retries, valid, pending nomination, nominee | build, begin, tick, answer, error, triggered check, role switch | session, peer |
| Role conflict | `controlling_`, tiebreaker | request with the same role, 487 answer | the peer's session |
| Path MTU | search state, bounds, losses, probe in flight | ack, loss, timeout, nomination | session, path |
| Data path | parking queue, send/receive numbers, reorder buffer | send, flush, deliver | session, network |
| TURN client | allocation, permissions, channels, refresh timer | allocate, 401/438 retry, refresh, bind, close | server, session |
| TURN walk and backups | attempt, backup list, probe, failover time | next attempt, timeout, tick, probe result, promotion | TURN client, session |
| mDNS | pending queries, registered names, receive loop | resolve, packet, timeout, register, start, stop | session, network |
| Link registry | sessions, peer index, composer sessions, signal queue | connect, send, disconnect, deliver/poll signal, reap, shutdown | kernel, sessions |
| DNS, port mapping, interface watcher | mappings | resolve, map, notify | session, link |
| Candidates, STUN codec | none (pure) | priorities, blobs, encoding | all |

What makes it hard: `close()` stores the state while a handler runs; answers,
requests, trickled batches and timers arrive in any order; each rebuild of the
check list forgets transaction ids; STUN and TURN end independently; consent loss
re-enters checking or gathering; the peer may switch roles at any moment; frames
are lost, repeated and reordered; tasks posted by one TURN attempt or round meet
the next; a packet, a timer and `stop()` reach the same mDNS query; host threads,
failing sessions, the reaper and shutdown remove the same registry entries. The
hazards, each at its line, are in `PROJECT.json`.

## 2. Modules

| Module | Models |
|---|---|
| `IceChecks` | The check list as functions of the session record: building, foundations, pacing, retries, cap, unfreezing, triggered checks, role switch, nominee selection |
| `IceSession` | One session: gathering, trickle, checking, nomination, consent, restart, close. EXTENDS `IceChecks` |
| `SessionLife` | What the link can tell of a session: it starts, connects, starts over, fails, is closed. Implemented by `IceSession` |
| `IceSessionProofs`, `SessionLifeProofs` | Lemmas and theorems about these |
| `RoleConflict`, `RoleConflictProofs` | Two sessions and the messages between them |
| `PathMtu`, `PathMtuProofs` | The search of `path_mtu.cpp` and the session code that drives it |
| `DataPath`, `DataPathProofs` | Sender and receiver of ordered application frames |
| `LinkIce`, `LinkIceProofs` | The registry of `IceLink`: sessions of the kernel and of a composer, reaper, shutdown, between host threads and the worker |
| `TurnRelay`, `TurnRelayProofs` | The TURN clients of a session and the code that owns them: the walk through the servers, refresh, permissions, channels, backups, failover, restart, close |
| `Mdns`, `MdnsProofs` | The resolver's queries and the session's unresolved candidates |
| `MC*` | Instances for TLC |

`IceChecks` and `IceSession` are layers of one component: the second extends the
first and passes it the session record. `RoleConflict` composes two sessions,
reduced to their roles and check transactions. `LinkIce` is above the session, and
keeps of it what the link reacts to (gathers, is nominated, starts over, fails):
these are the steps of `SessionLife`, which `IceSession` implements under the map
`LifeOf` from the six states to four. `TurnRelay` and `Mdns` put the session beside
the component it uses and keep of it the candidates, the timers and whether it
runs, is connected or has failed. `Mdns` composes two strands.

**State.** `IceSession` keeps the members of the class in one record `s`, under the
source's names without the trailing underscore. `closing` follows `close()`.
`inputs` counts what the peer and the operator did. The role at the start is any of
`Roles`. `LinkIce` keeps the maps of the class under their names; `call[t]` and
`work` say where a host thread and the worker are between two locks, and
`notified` and `accepts` count the callbacks the host has seen. A timer is one Boolean: the
generation counters exist so that only the last one armed acts.

**Actions.** A handler is a function from session to session with the name of the
C++ function, and an action applies it (`Handle`, or `Input` if it is counted).
All the calls a handler makes on the strand are part of its action. `close()` may
store Failed while a handler runs: `Outcome` lets the handler's own store follow.
In `LinkIce` a step is what a thread does under one lock, or after it; `Close` has
the same late store, and a callback that has tested `shutdown_` may still run
after it is set. In `TurnRelay` a handler is a function of the session record `r`;
what is posted to the strand waits in `r.queue`, first in, first out, while a timer
may fire before any of it. In `Mdns` a timer that has expired has its handler
queued, where `cancel()` does not reach it, and an answer is posted from the
resolver's strand to the session's.

**Data.** Candidates, endpoints and credentials are model values. A priority is a
rank, a message an event, a transaction id the fact that the pair's check was sent
since the list was built. Elapsed retransmission timeouts are chosen freely. The
carriers' and servers' answers are nondeterministic. A TURN answer is a challenge
or a success for a carrier id that has asked; it may come late or twice. A stream
connection has an id of its own, used again when nothing refers to it. An mDNS
packet is a sequence of records; the loops over the hash map `pending_` take the
names in any order. Some variables are history only: `origin`, `asked`,
`calls` and `failed` in `Mdns`, `failed` in `TurnRelay`, `failed` of a session in
`LinkIce`, `widest` in `PathMtu`, `overflowed` in `DataPath`.

**Assumptions between modules.** `IceSession` lets `build_check_list` return,
although it locks a `std::mutex` it already holds (section 6). `RoleConflict` keeps both sessions in Checking:
no pair is nominated, and a list whose retries are spent does not fail the session
there, as it does in `IceSession`. `DataPath` reduces the session to "connected or not"; `PathMtu` adds
whether the nominated pair has an id on the UDP carrier, without which no probe is
sent (`carrier`). `LinkIce`
assumes what `IceSession` shows of `close()`, that a closed session may live on.

## 3. Runs

Passing runs:

| Run | States | Shows |
|---|---|---|
| `session_checks` | 340,885 | Either role, three endpoints: a checking session always has a timer; frozen pairs have a leader; one nominee; Connected only after an answer; the session implements `SessionLife` |
| `session_restart` | 115,419 | Two families, port prediction, no recovery rounds: a connected session is always watched, the restart budget is renewed, the cap holds, Checking ends whatever the peer does |
| `session_gather` | 29,272 | Gathering ends whatever STUN and two TURN servers do |
| `mtu_search` | 302,456 | Across two nominations and late answers the search is bracketed and tight, publishes no more than some nominated path carried, and does not lower the published value between nominations; a search under way finishes while the session is connected and has a carrier id |
| `data_path` | 67,201 | With loss, repeats, reordering and an outage, until the window overflows: delivery is in order and without repeats, and a frame that is not lost arrives or waits behind a lost one |
| `roles` | 198,848 | No check is sent more often than its retries allow, the larger tiebreaker never switches, and the roles settle for good unless two checks of one agent are rejected at once over and over |
| `relay` | 739,589 | Two TURN servers, one over a stream: no walk, backup or allocation without its timer; an allocation the session knows of is offered and has its permissions; channels are one to one; only restart, close and a next attempt posted before end an allocation; the walk ends |
| `mdns` | 479,718 | Packets, expired timers and `stop()`: each callback is called once, an address reaches only the candidate whose name it belongs to, a name that was asked for is settled |
| `link_registry` | 1,662,547 | Two host threads and the worker: the maps agree, what leaves them is closed and reported, once while the link is up, shutdown reports what was published before it, a registered composer connection is accepted once |

Deadlock is checked in `relay` and `mdns`, whose environment never stops. In the
other runs it is not: a closed or failed session, a finished search and a
network that has delivered everything really stop, and so does a link that is
shut down.

Runs named `v_*` each state one sentence of a comment or document and show that
the code does otherwise. The quotations are under `findings`.

| Run | What happens |
|---|---|
| `v_nominee_abandoned` | Failed while the USE-CANDIDATE check is unanswered |
| `v_deferred_context` | Connected to an endpoint whose check never succeeded |
| `v_closed_revived` | A handler overwrites the Failed of `close()` |

**Bounds.** `MaxInputs` (1 to 3) limits what the peer and operator do in one
behaviour: two batches, or a batch and two requests, already make every pair of
handlers meet; timers, answers and server replies are not counted. `MaxRetries` 2
separates the first send, a retransmission and exhaustion. `Cap` 2 with up to
three pairs per list reaches the cap. `ConsentMax` 2, `MaxRecovery` 0 or 1 and
`MaxAttempts` 2 reach each consent branch: with a recovery round the restart is
not reached (section 6), hence 0 in `session_restart`. Path widths 1200, 1207,
1400, 1492 and 1500 lie at the floor, within a granule of it, on a rung, between
rungs and at the top; `MaxNominations` 2 is a second path. `MaxFrames` 6 passes
the parking limit (2) and overflows the window (2) more than once, which reaches
the double delivery of section 6: `overflowed` remembers that, and the properties
stop there. Sequence numbers wrap at `Modulus` 8, which these bounds do not reach.
`RoleConflict`: `MaxRetries` 2 has two copies of a check on their way, hence two
487 answers; `MaxLosses` 1 loses any message, and is less than `MaxRetries`, so
that some copy of each check is answered. The code's budget is 4
(session.hpp:138). One pair suffices: its two copies are rejected at once, as two
pairs would be.
`LinkIce` has two ids of each kind and one peer: a session that is replaced while
its removal is still under way, and two at once; ids are not used again. The host threads are symmetric.
`TurnRelay`: two servers make one the backup of the other; `MaxRestarts` 1 lets
tasks of one round meet the next; `MaxQueue` 2 bounds answers only, not what the
code posts; two connections; one channel for two peers, and nominations that stop
before the 16-bit channel counter wraps (section 6); `Probing` is TRUE, that is,
`turn_backup_interval_s` is not 0 (the proofs cover both). `Mdns`: two names, one with two addresses; `Queries` 2 is two
entries asked once or one asked twice; packets of two records; `MaxRemote` 2.

**Fairness.** `IceSession`: armed timers fire and posted tasks run
(`exec::schedule_after`, `asio::post`). A check tick is fair when every pending
retransmission has elapsed, since time passes. Nothing is assumed of the peer, the
servers or the operator. `PathMtu`: the probe timer. `DataPath`: datagrams that
are not lost are delivered. `RoleConflict`: checks are retransmitted and messages that
are not lost arrive. `TurnRelay` and `Mdns`: timers fire and posted tasks run;
nothing is assumed of the servers or the network. `LinkIce` is checked for safety
only.

## 4. Proofs

All theorems hold for every value of the constants that satisfies the named
assumption of the module (`SessionAssumption`, `MtuAssumption`, `RoleAssumption`,
`RelayAssumption`, `LinkAssumption`, `DataAssumption`, `MdnsAssumption`) and the
hypotheses named here.

- **Session** (`IceSessionProofs`). `SessionInv` says that the record is well
  typed, every frozen pair has a leader, at most one pair is nominee and only
  after `nominee_selected_`, at most one restart attempt is used up, a connected
  session has consent misses left and its whole budget, and, until `close()`'s
  task has run, a checking session has a timer and a connected one its keepalive.
  The strengthenings over the checked properties are needed: the counter that a
  keepalive increments stays within `ConsentMax` only because a connected session
  has misses left, and a TURN timer must point at a server for `turn_attempt` to
  stay in range. The first lemmas are about the check list alone (sending,
  unfreezing, walking, starting, building); then each handler is shown to keep
  the invariant, then each action. Results: `SessionTypes`,
  `WakeupNeverLost`, `ConsentAlwaysWatched`, `NoPairStuck`, `NomineeUnique`,
  `BudgetRenewed`.
- **Path MTU** (`PathMtuProofs`). The invariant adds the bracket of the search,
  that outstanding probes have the size their transaction was sent with, and that
  the published value is the search's. Results: `MtuTypes`, `MtuBracket`,
  `MtuCarried`, `MtuTight`, `MtuGrows` (between two nominations). `MtuProbesBounded` bounds the number of
  probes: `Left` is the losses the search can still take before every size from the
  floor to the top rung is decided, each probe that is answered or lost lowers it,
  and a new nomination does not raise it (`Funded`). Its hypothesis names the top
  rung (`IsTop`).
- **Roles** (`RoleConflictProofs`). A 487 on its way comes from an agent that wins
  against its receiver, whatever list the check it answers was of. Results:
  `RoleTypes`, which bounds the transmissions of a check, and `RoleOfWinner`, for
  any number of agents and pairs.
- **Session life** (`SessionLifeProofs`). `SessionImplementsLife`: every step of
  `IceSession` is a step of `SessionLife` or a stutter. Each handler is shown to
  start no new session and revive no failed one (`Tame`); `on_nominated` is the
  exception, and `SessionLife` has that step. Hypothesis: `ConsentMax > 1`. With 1
  the keepalive that `on_nominated` runs at once is already a consent loss: a failed
  session that a late nomination connects starts over in the same step.
- **How a session connects** (`SessionLifeProofs`). Each handler leaves the session unconnected (`Calm`) or
  connects it by an answer (`Earned`), and keeps the list `Fit`: a pair that
  succeeded was answered, and the scheduler's own checks in flight are within the
  cap. The first half of `Fit` is needed because `use_candidate` nominates any pair
  that is Succeeded, without a look at `valid`. Results: `ConnectedByAnswer`,
  `CapHolds`. Hypothesis of the latter, `FewFamilies`: the candidates are finitely
  many, of no more address families than the cap. `begin_checks` sends one pair of
  each family without counting them; the code has two families and a cap of 10
  (session.hpp:347).
- **Gathering** (`SessionLifeProofs`). `GatheringIsWatched`: a session that gathers
  has a timer armed or a task posted that moves its gathering on, until `close()`
  has run. With STUN its posted task or its timeout alone suffices; without it the
  invariant (`Tended`) adds that an allocation whose timer has fired has its task
  posted. Hypothesis: there is a STUN server, or relay candidates are not filtered;
  section 6 says what happens otherwise.
- **Relay** (`TurnRelayProofs`). `RelayInv` says of the clients that the refresh
  timer is armed exactly when there is an allocation, that channels are one to one
  and below the next number; of the session that an attempt under way has its
  deadline or a posted task, that backups are watched, and that an allocation it
  does not know of yet is announced by a task in the queue. The queue is
  what makes it inductive: what a property says of now, a posted task must be able
  to make true later. Results: `RelayTyped`, `RelayTimers`, `RelayIsUsable`,
  `RelayChannels`, `RelayKept`.
- **Link** (`LinkIceProofs`). `LinkInv` says who owes a session its `close()` or the
  kernel its report: the map that holds the session, one thread between two locks,
  or the worker, and never two of them. Results: `LinkReportsOnce`,
  `LinkForgetsNone`, `LinkShutdown`, `LinkAcceptsOnce`, for any number of threads.
  `MapInv` adds that a peer's list holds the ids of its registered sessions, once
  each, and that the composer's two maps are inverse. `erase_peer_id` is written
  by position (`Before`), so that what it returns can be proved (`EraseKeeps`).
  Results: `LinkTypes`, `LinkMapsAgree`.
- **Data path** (`DataPathProofs`). `DataInv` says that a larger sequence number is
  a later frame. It does not need the reorder buffer to be within its window, so
  `DataTyped` and `DataParked` hold when it overflows. `DataInOrder` is about the
  time before the first overflow, after which the receiver steps back (section 6).
  All three assume `MaxFrames < Modulus`, that is, no wrap of the 32-bit numbers.
- **mDNS** (`MdnsProofs`). `MdnsInv` says that a query is in the table with its
  timer, or was called, once, and that the addresses a query has gathered, a posted
  answer carries and a candidate was given are of the name they are for. A packet
  is a recursive function over its records: that every record keeps the invariant
  is shown at the least record that would not. Results: `MdnsTypes`,
  `MdnsCalledOnce`, `MdnsAddresses`. `AwaitInv` adds the converse, that a candidate
  asked for awaits an answer with its index and its name while the session has not
  failed. It needs that the loops over `pending_` reach every query (the
  enumeration of the names is onto), and that a list is appended to or replaced as a
  whole, so that an index stays with its entry. Result: `MdnsAnswerComes`.

Only model-checked: the properties under fairness (`CheckingEnds`,
`GatherCompletes`, `SearchFinishes`, `AllArrive`, `RolesSettle`, `WalkEnds`,
`AskedIsSettled`), which are out of the prover's reach. What is proved of them is
their safety half: the timer, task or message that must bring the end about is
always there (`WakeupNeverLost`, `GatheringIsWatched`, `RelayTimers`,
`MdnsAnswerComes`), or the steps are bounded (`MtuProbesBounded`). Every other
property of a passing run has a theorem.

## 5. Not modelled

Expiry on a TURN server; connections of RFC 6062, which no code outside the tests
opens; stream framing; TCP candidates; port mapping; the srflx candidate filter;
peer-reflexive candidates learned from an answer's mapped address; the role bit of
a pair's priority (the order of pairs is fixed); DNS encoding, and the mDNS answers
given to others, which change no state; of the link the outbound signal queue, the
routing of answers (it changes no map), the subscriptions, the accessors, config
reload and `send`; the STUN codec and the signal blobs; function tables and logging.

## 6. Other disagreements seen while modelling

The models contain the behaviour described here; no run is about it. Each entry
gives the line of the code and what the repository says.

- **A trickled batch restarts the checks** (`session.cpp:538`). In Checking the
  whole list is rebuilt under new transaction ids, so answers on their way match
  nothing. `session.hpp:457`: "without dropping pairs already under check".
- **A rebuild loses the nominee** (`session.cpp:2902`). The pair goes,
  `nominee_selected_` stays, and no other is chosen. `session.hpp:1065`: "pick
  once, stick with it".
- **The nomination wait can fail the session** (`session.cpp:2237`). A
  USE-CANDIDATE from an unknown endpoint runs `run_next_check` before its pair
  exists, which finds the list exhausted and the wait armed. `session.cpp:2232`:
  "controlled peer must not declare Failed simply because the check list is
  exhausted".
- **A lite agent sends checks** (`session.cpp:3125`): a deferred nomination, a
  batch and a role switch call `run_next_check`, which does not test for it.
  `session.cpp:3146`: "Lite agents per RFC 8445 §2.7 never send connectivity
  checks."
- **The relay candidate is not signalled** when STUN ends unanswered before TURN
  (`session.cpp:1664`). `session.cpp:1661`: "delays the OFFER until TURN resolves".
- **A filtered relay candidate leaves the session in Gathering** when there is no
  STUN server (`session.cpp:1603`). `session.cpp:223`: "it will call
  on_gathering_complete() when done (or on its timeout)".
- **Recovery ends in Failed, not in a restart** (`session.cpp:2276`), with the
  restart budget unused. The repository's README, line 76: "Re-enter Gathering
  [...] when RFC 7675 consent recovery is exhausted".
- **The restart counter** (`session.cpp:3297`). A nomination resets it, and
  `restart()` does not. `session.hpp:792`: "The counter is reset only by an explicit
  operator `restart()` [...] so a long sequence of transient blips ultimately
  exhausts the cap". The repository's README, line 77, agrees with the code.
- **No second restart in a row** (`session.cpp:3427`). Consent is lost only in
  Connected, where the counter is 0, so a value of `auto_restart_max_attempts`
  above 1 changes nothing. The repository's README, line 77: "Upper bound on
  consecutive auto-restarts before the session gives up". The tests of the limit
  call `notify_consent_loss_for_test` themselves.
- **A second nomination keeps the path-MTU search and value of the first**
  (`session.cpp:3348`), and does not resume a search that stopped.
  `session.hpp:605`: "Largest MTU known to ride the nominated pair end-to-end."
- **A search without a carrier id does not start** (`session.cpp:3369`). When the
  nominated pair has none, no probe is sent and no timer armed; `send_on_strand`
  opens the id later and does not start the search. `session.hpp:179`: "the
  session probes upward from `path_mtu` [...] once the FSM enters `Connected`".
- **The reorder buffer grows past its limit** (`session.cpp:318`), and after an
  overflow a frame can be delivered twice (`session.cpp:313`). `session.hpp:1157`:
  "bounded to kReorderWindow entries".
- **Equal tiebreakers switch for ever** (`session.cpp:2431`). `session.cpp:2428`:
  "deterministic resolution, no infinite ping-pong".
- **Two 487 answers undo each other** (`session.cpp:2702`). They are matched to no
  check and not compared with the role. An agent with two pairs, or a check and its
  retransmission, under way gets two, switches and switches back, and sends both
  checks anew in the old role. With distinct tiebreakers this can go on for ever;
  `RolesSettle` names it as the exception.
- **shutdown() and late calls** (`link_ice.cpp:904`). A `connect` or an offer that
  has tested `shutdown_` registers its session after the maps were emptied: that
  session is not closed and its id not reported. `link_ice.hpp:289`: "Stops every
  session, fires `notify_disconnect` [...] for every published id".
- **shutdown() repeats notifications** (`link_ice.cpp:1716`): `published_ids_`
  still holds the ids that were disconnected before.
- **An erased composer connection can be accepted** (`link_ice.cpp:747`): when the
  entry is gone, the callback is not suppressed.

- **A failed session comes back** (`session.cpp:3289`). `on_nominated` tests no
  state: a USE-CANDIDATE for a pair that had succeeded connects a session whose
  failure was reported, and its data reaches the kernel under a disconnected id.
  `session.cpp:2235`: "give it `nomination_wait_ms` before giving up".
- **After an overflow the receiver waits for a frame it holds** (`session.cpp:313`):
  `recv_data_seq_` becomes the number of a buffered frame, which only a second
  arrival would release. `session.cpp:312`: "Advance past the gap to avoid
  deadlock on window overflow".
- **A mutex is locked twice** (`session.cpp:2376`). `build_check_list` holds
  `local_state_mu_` (line 1938) when it calls `assign_local_foundations` (line
  1981), which locks it again. `session.hpp:661`: "strand-side readers stay
  lock-free".
- **Channels and permissions are not refreshed** (`turn.cpp:366`). The timer
  refreshes the allocation only. `turn.hpp:154`: "`schedule_refresh` re-binds
  before timeout".
- **The channel counter wraps** (`turn.cpp:297`). `next_channel_` counts on when a
  bind is refused for want of channels; after 32768 refusals it is 0, and numbers
  below 0x4000, which are no channels, are accepted. Its bound tests the upper end
  only.
- **A relay in use is never unhealthy** (`turn.hpp:201`): only a test clears
  `refresh_healthy_`, so failover needs a primary without an allocation.
  `turn.hpp:237` says a failed refresh clears it.
- **What a promoted relay lacks** (`session.cpp:1820`): it keeps the callbacks of
  its probe, which drop data, and gets no permission for the candidates already
  known. A probe that is not allocated itself can be promoted by the task of the
  one before (`session.cpp:1793`).
- **Posted TURN tasks carry no generation** (`session.cpp:1599`, `1583`, `1714`).
  After a restart an allocation of the round before counts for the new one, and a
  next attempt posted before tears down an allocation made since.
- **A resolved mDNS candidate has no permission** at a relay that was allocated
  before (`session.cpp:1019`).
- **mDNS candidates of the first batch are not asked for** (`session.cpp:529`).
  `session.cpp:543`: "Trickle batches may carry fresh HostMdns entries".
- **An unresolved mDNS candidate stays**, as a host candidate without an address
  (`session.cpp:1006`). Its comment: "Drop the unresolved entry".
- **Further addresses of an mDNS name** take their port through a reference that
  the first `push_back` may have invalidated (`session.cpp:1032`).
- **The resolver does not start again** (`mdns.cpp:531`): nothing resets
  `stopping_`. `mdns.hpp:183`: an interface change "requires `stop()` + `start()`".
- **A restart keeps the port mapping** (`session.cpp:580`); `session.cpp:897` says
  it is released.

## 7. Plan

1. The outbound signal queue, and which session an answer reaches; accessors that
   wait for the strand.
2. Two sessions composed, to study keepalives and restarts; a TURN server with
   expiring permissions and channels.
3. `Candidates`: priorities and blob round trips as operators against a reference
   definition on bounded inputs.
