--------------------------- MODULE LinkIceProofs ---------------------------
(***************************************************************************)
(* The reports of the link's registry, for any number of peers, sessions   *)
(* and threads of the host: no session is forgotten, none is reported      *)
(* twice, and a composer's is accepted once.                               *)
(*                                                                         *)
(* LinkInv says who still owes a session its close() or its report: the    *)
(* map that holds it, a thread in the middle of a call, or the worker.     *)
(* MapInv, on top of it, says that the maps from peers to sessions agree   *)
(* with those of the sessions.                                             *)
(***************************************************************************)
EXTENDS LinkIce, FiniteSetTheorems, TLAPS

\* Zenon proves most of the leaves, and does so faster than SMT.
USE ZenonT(4), SMTT(20), ZenonT(20)

\* The ids of sessions of the kernel and of a composer.
Every == Ids \cup Cids

\* What a host thread may be in the middle of.
Calls == {Idle} \cup [op : {"entered", "offer"}, peer : Peers]
         \cup [op : {"close"}, id : Ids]
         \cup [op : {"shutdown"}, ids : SUBSET Ids, live : SUBSET Every]

\* What the worker may be in the middle of.
Works == {Idle} \cup [op : {"notify"}, id : Ids]
         \cup [op : {"reap"}, drop : SUBSET Ids]
         \cup [op : {"close"}, id : Ids, drop : SUBSET Ids]

\* The types of the maps; those from peers to ids are MapInv's.
Types == /\ session \in [Every -> SessionType]
         /\ sessions \subseteq Ids /\ published_ids \subseteq Ids
         /\ composer_sessions \subseteq Cids
         /\ nominated \in [Cids -> BOOLEAN]
         /\ call \in [Threads -> Calls] /\ work \in Works
         /\ stage \in {"up", "sessions", "composer", "stopping", "down"}
         /\ notified \in [Ids -> Nat] /\ accepts \in [Cids -> Nat]

\* The id x was given to a session.
Made(x) == session[x].state # "None"

\* Nothing refers to an id before it was given to a session.
Untouched ==
    \A x \in Every : ~Made(x) =>
       /\ session[x] = NoSession
       /\ x \notin sessions \cup composer_sessions \cup published_ids
       /\ ~Closing(x) /\ ~Reporting(x)
       /\ x \in Ids => notified[x] = 0
       /\ x \in Cids => accepts[x] = 0 /\ ~nominated[x]

\* shutdown() runs once.
OneShutdown ==
    /\ Up \/ stage = "down" => \A t \in Threads : call[t].op # "shutdown"
    /\ \A t, u \in Threads :
          call[t].op = "shutdown" /\ call[u].op = "shutdown" => t = u

\* Thread t has taken x out of the map, and will close and report it.
Owes(t, x) == call[t].op = "close" /\ call[t].id = x
\* So has the worker.
WorkOwes(x) == work.op \in {"close", "notify"} /\ work.id = x

\* Before shutdown(), the map, one thread or the worker owes the kernel its
\* report of x, or it was made.
Reports ==
    Up => \A x \in Ids :
             /\ notified[x] <= 1
             /\ x \in sessions => ~WorkOwes(x)
             /\ WorkOwes(x) => notified[x] = 0
             /\ x \in sessions => notified[x] = 0
             /\ \A t \in Threads : Owes(t, x) =>
                   /\ x \notin sessions /\ ~WorkOwes(x) /\ notified[x] = 0
                   /\ \A u \in Threads : Owes(u, x) => t = u

\* shutdown() has done what it took on when it begins to wait for the worker.
Settled ==
    stage \in {"stopping", "down"} =>
       \A t \in Threads : call[t].op = "shutdown" =>
          /\ \A x \in call[t].live : session[x].closed
          /\ \A x \in call[t].ids : notified[x] > 0

\* An id that was published is known as such, or was reported, or shutdown()
\* is about to report it.
Published ==
    \A x \in Ids : Made(x) =>
       \/ x \in published_ids \/ notified[x] > 0
       \/ /\ stage \in {"sessions", "composer"}
          /\ \E t \in Threads : call[t].op = "shutdown" /\ x \in call[t].ids

\* on_accept is called when a registered composer session is nominated.
Accepts ==
    \A x \in composer_sessions : accepts[x] = IF nominated[x] THEN 1 ELSE 0

\* The inductive invariant.
LinkInv == /\ Types /\ Untouched /\ OneShutdown /\ Reports
           /\ RemovedIsDead /\ Settled /\ Published /\ Accepts

\* The fields of what a thread or the worker is doing.
LEMMA Fields ==
    /\ \A c \in Calls :
          /\ c.op = "entered" => c \in [op : {"entered"}, peer : Peers]
          /\ c.op = "offer" => c \in [op : {"offer"}, peer : Peers]
          /\ c.op = "close" => c \in [op : {"close"}, id : Ids]
          /\ c.op = "shutdown" =>
                c \in [op : {"shutdown"}, ids : SUBSET Ids, live : SUBSET Every]
          /\ c = Idle <=> c.op = "idle"
    /\ \A w \in Works :
          /\ w.op = "notify" => w \in [op : {"notify"}, id : Ids]
          /\ w.op = "reap" => w \in [op : {"reap"}, drop : SUBSET Ids]
          /\ w.op = "close" => w \in [op : {"close"}, id : Ids, drop : SUBSET Ids]
          /\ w = Idle <=> w.op = "idle"
BY DEF Calls, Works, Idle

\* The invariant holds initially.
LEMMA LinkInit == Init => LinkInv
<1> SUFFICES ASSUME Init PROVE LinkInv
  OBVIOUS
<1>1. NoSession \in SessionType /\ NoSession.state = "None"
  BY DEF NoSession, SessionType
<1>2. Idle.op = "idle" /\ Idle \in Calls /\ Idle \in Works
  BY DEF Idle, Calls, Works
<1>3. Types
  BY <1>1, <1>2 DEF Init, Types, Every
<1>4. \A x \in Every : ~Made(x) /\ session[x] = NoSession
  BY <1>1 DEF Init, Every, Made
<1>5. Untouched
  BY <1>2, <1>4 DEF Init, Untouched, Every, Closing, Reporting
<1>6. OneShutdown /\ Reports /\ Settled
  BY <1>2 DEF Init, OneShutdown, Reports, Settled, Owes, WorkOwes, Up
<1>7. Published /\ RemovedIsDead
  BY <1>4 DEF Published, RemovedIsDead, Unused, Every
<1>8. Accepts
  BY DEF Init, Accepts
<1> QED BY <1>3, <1>5, <1>6, <1>7, <1>8 DEF LinkInv


-----------------------------------------------------------------------------

\* What happens to the sessions in every step that makes none.
Grown == /\ session' \in [Every -> SessionType]
         /\ \A x \in Every :
               /\ session'[x].state = "None" <=> session[x].state = "None"
               /\ session[x].state = "None" => session'[x] = session[x]
               /\ session[x].closed => session'[x].closed
               /\ session[x].failed => session'[x].failed

\* A step that leaves the sessions alone.
LEMMA SameGrown == Types /\ UNCHANGED session => Grown
BY DEF Types, Grown

\* Only a step that makes a session uses a new id.
LEMMA StillUsed ==
    ASSUME Grown
    PROVE  \A x \in Every : x \notin Unused(Every)' => x \notin Unused(Every)
<1>1. NoSession.state = "None"
  BY DEF NoSession
<1> SUFFICES ASSUME NEW x \in Every, session[x] = NoSession
             PROVE  session'[x] = NoSession
  BY DEF Unused
<1> QED BY <1>1 DEF Grown

\* A session leaves the map, and the worker will report it.
LEMMA TakenReports ==
    ASSUME LinkInv, NEW x \in Ids, x \in sessions, sessions' = sessions \ {x},
           work.op \notin {"close", "notify"},
           work'.op \in {"close", "notify"}, work'.id = x,
           UNCHANGED <<stage, notified, call>>
    PROVE  Reports'
<1>1. \A y \in Ids : ~WorkOwes(y) /\ (WorkOwes(y)' <=> y = x)
  BY DEF WorkOwes
<1>2. \A t \in Threads, y \in Ids : Owes(t, y)' <=> Owes(t, y)
  BY DEF Owes
<1>3. Up' <=> Up
  BY DEF Up
<1> SUFFICES ASSUME Up, NEW y \in Ids
             PROVE  /\ notified[y] <= 1
                    /\ y \in sessions' => y # x
                    /\ y = x => notified[y] = 0
                    /\ y \in sessions' => notified[y] = 0
                    /\ \A t \in Threads : Owes(t, y) =>
                          /\ y \notin sessions' /\ y # x /\ notified[y] = 0
                          /\ \A u \in Threads : Owes(u, y) => t = u
  BY <1>1, <1>2, <1>3 DEF Reports
<1>4. /\ notified[y] <= 1 /\ (y \in sessions => notified[y] = 0)
      /\ \A t \in Threads : Owes(t, y) =>
            /\ y \notin sessions /\ notified[y] = 0
            /\ \A u \in Threads : Owes(u, y) => t = u
  BY DEF LinkInv, Reports
<1> QED BY <1>4

\* A session that exists may change its state.
LEMMA SetGrown ==
    ASSUME Types, NEW x \in Every, Made(x), NEW state \in {"Running", "Connected"},
           SetState(x, state)
    PROVE  Grown
<1> DEFINE s == [session[x] EXCEPT !.state = state]
<1>1. session[x] \in SessionType
  BY DEF Types
<1>2. /\ s \in SessionType /\ s.state = state /\ s.closed = session[x].closed
      /\ s.failed = session[x].failed
  BY <1>1 DEF SessionType
<1>3. session' = [session EXCEPT ![x] = s]
  BY DEF SetState
<1> HIDE DEF s
<1> QED BY <1>2, <1>3 DEF Types, Grown, Made

\* close() of sessions that exist.
LEMMA CloseGrown ==
    ASSUME Types, NEW X \in SUBSET Every, \A x \in X : Made(x), Close(X)
    PROVE  Grown /\ \A x \in X : session'[x].closed
<1>1. PICK kept \in SUBSET Overtaken(X) :
         session' = [x \in Every |->
                       IF x \notin X THEN session[x]
                       ELSE [session[x] EXCEPT !.closed = TRUE,
                                !.state = IF x \in kept THEN @ ELSE "Failed"]]
  BY DEF Close, Every
<1>2. ASSUME NEW x \in X
      PROVE  LET s == [session[x] EXCEPT !.closed = TRUE,
                          !.state = IF x \in kept THEN @ ELSE "Failed"]
             IN /\ s \in SessionType /\ s.closed
                /\ s.failed = session[x].failed /\ s.state # "None"
  <2>1. session[x] \in SessionType /\ session[x].state # "None"
    BY DEF Types, Made
  <2> QED BY <2>1 DEF SessionType
<1> QED BY <1>1, <1>2 DEF Types, Grown, Made

\* What the threads and the worker owe is what they owed.
SameDebts ==
    /\ \A x \in Every : /\ Closing(x)' <=> Closing(x)
                        /\ Reporting(x)' <=> Reporting(x)
    /\ \A x \in Ids : WorkOwes(x)' <=> WorkOwes(x)
    /\ \A t \in Threads :
          /\ call'[t].op = "shutdown" <=> call[t].op = "shutdown"
          /\ call[t].op = "shutdown" => call'[t] = call[t]
          /\ \A x \in Ids : Owes(t, x)' <=> Owes(t, x)

\* Steps that register, remove and report nothing.
LEMMA QuietStep ==
    ASSUME LinkInv, Types', Grown, SameDebts, Accepts',
           UNCHANGED <<sessions, composer_sessions, published_ids, notified, stage>>,
           \A x \in Cids : ~Made(x) => accepts'[x] = accepts[x]
                                       /\ nominated'[x] = nominated[x]
    PROVE  LinkInv'
<1>1. Untouched'
  BY DEF LinkInv, Untouched, Grown, SameDebts, Made
<1>2. OneShutdown'
  BY DEF LinkInv, OneShutdown, SameDebts, Up
<1>3. Reports'
  BY DEF LinkInv, Reports, SameDebts, Up
<1>4. RemovedIsDead'
  <2>1. \A x \in Every : x \notin Unused(Every)' => x \notin Unused(Every)
    BY StillUsed
  <2> QED BY <2>1 DEF LinkInv, RemovedIsDead, Grown, SameDebts, Every
<1>5. Settled'
  <2>1. \A t \in Threads : call[t].op = "shutdown" => call[t].live \subseteq Every
    BY Fields DEF LinkInv, Types
  <2> QED BY <2>1 DEF LinkInv, Settled, SameDebts, Grown
<1>6. Published'
  BY DEF LinkInv, Published, SameDebts, Grown, Made, Every
<1> QED BY <1>1, <1>2, <1>3, <1>4, <1>5, <1>6 DEF LinkInv

\* A call that has tested shutdown_ changes no map.
LEMMA EnterStep ==
    ASSUME LinkInv, NEW t \in Threads, NEW p \in Peers, Enter(t, p) PROVE LinkInv'
<1> DEFINE c == [op |-> "entered", peer |-> p]
<1>1. c \in Calls /\ c.op = "entered" /\ call[t].op = "idle"
  BY Fields DEF Calls, Enter, LinkInv, Types
<1>2. call' = [call EXCEPT ![t] = c] /\ UNCHANGED <<session, registry, composer, work, stage, reports>>
  BY DEF Enter, Continue
<1> HIDE DEF c
<1>3. Types' /\ Grown /\ Accepts'
  BY <1>1, <1>2, SameGrown DEF LinkInv, Types, Accepts, registry, composer, reports
<1>4. SameDebts
  BY <1>1, <1>2 DEF LinkInv, Types, SameDebts, Closing, Reporting, Owes, WorkOwes
<1> QED BY <1>2, <1>3, <1>4, QuietStep DEF registry, composer, reports

\* An offer reaches the composer's session, or goes on to the kernel's.
LEMMA OfferToComposerStep ==
    ASSUME LinkInv, NEW t \in Threads, OfferToComposer(t) PROVE LinkInv'
<1>1. PICK c : /\ c \in {Idle, [call[t] EXCEPT !.op = "offer"]}
               /\ call' = [call EXCEPT ![t] = c]
               /\ UNCHANGED <<session, registry, composer, work, stage, reports>>
  BY DEF OfferToComposer, Continue, Return
<1>2. call[t] \in [op : {"entered"}, peer : Peers]
  BY Fields DEF OfferToComposer, LinkInv, Types
<1>3. c \in Calls /\ c.op \in {"idle", "offer"} /\ call[t].op = "entered"
  BY <1>1, <1>2 DEF Calls, Idle
<1>4. Types' /\ Grown /\ Accepts'
  BY <1>1, <1>3, SameGrown DEF LinkInv, Types, Accepts, registry, composer, reports
<1>5. SameDebts
  BY <1>1, <1>3 DEF LinkInv, Types, SameDebts, Closing, Reporting, Owes, WorkOwes
<1> QED BY <1>1, <1>4, <1>5, QuietStep DEF registry, composer, reports

\* Handlers of a session that change its state only.
LEMMA StateStep ==
    ASSUME LinkInv, NEW x \in Every, Gather(x) \/ Recheck(x) PROVE LinkInv'
<1>1. /\ SetState(x, "Running") /\ Made(x)
      /\ UNCHANGED <<registry, composer, call, work, stage, reports>>
  BY DEF Gather, Recheck, Made
<1>2. Grown
  BY <1>1, SetGrown DEF LinkInv
<1>3. Types' /\ Accepts'
  BY <1>1, <1>2 DEF LinkInv, Types, Accepts, Grown, registry, composer, reports
<1>4. SameDebts
  BY <1>1 DEF SameDebts, Closing, Reporting, Owes, WorkOwes
<1> QED BY <1>1, <1>2, <1>3, <1>4, QuietStep DEF registry, composer, reports

\* A nomination is accepted once, while its entry exists.
LEMMA NominatedStep ==
    ASSUME LinkInv, NEW x \in Every, Nominated(x) PROVE LinkInv'
<1>1. /\ SetState(x, "Connected") /\ Made(x)
      /\ UNCHANGED <<registry, composer_sessions, call, work, stage, notified>>
  BY DEF Nominated, Made
<1>2. Grown
  BY <1>1, SetGrown DEF LinkInv
<1>3. /\ nominated' \in [Cids -> BOOLEAN] /\ accepts' \in [Cids -> Nat]
      /\ Accepts'
      /\ \A y \in Cids : y # x => accepts'[y] = accepts[y] /\ nominated'[y] = nominated[y]
  <2>1. nominated \in [Cids -> BOOLEAN] /\ accepts \in [Cids -> Nat]
        /\ composer_sessions \subseteq Cids /\ UNCHANGED composer_sessions
    BY <1>1 DEF LinkInv, Types
  <2>2. CASE UNCHANGED <<nominated, accepts>>
    BY <2>1, <2>2 DEF LinkInv, Accepts
  <2>3. CASE /\ x \in Cids /\ ~(x \in composer_sessions /\ nominated[x])
             /\ nominated' = [nominated EXCEPT ![x] = @ \/ x \in composer_sessions]
             /\ accepts' = [accepts EXCEPT ![x] = OneMore(@)]
    <3>1. /\ nominated' \in [Cids -> BOOLEAN]
          /\ nominated'[x] = (nominated[x] \/ x \in composer_sessions)
          /\ \A y \in Cids : y # x => nominated'[y] = nominated[y]
      BY <2>1, <2>3, Zenon
    <3>2. /\ accepts' \in [Cids -> Nat] /\ accepts'[x] = OneMore(accepts[x])
          /\ \A y \in Cids : y # x => accepts'[y] = accepts[y]
      BY <2>1, <2>3 DEF OneMore
    <3>3. x \in composer_sessions => accepts[x] = 0
      BY <2>3 DEF LinkInv, Accepts
    <3>4. ASSUME NEW y \in composer_sessions
          PROVE  accepts'[y] = IF nominated'[y] THEN 1 ELSE 0
      <4>1. CASE y = x
        <5>1. nominated'[y]
          BY <3>1, <4>1
        <5>2. accepts'[y] = 1
          BY <3>2, <3>3, <4>1 DEF OneMore
        <5> QED BY <5>1, <5>2
      <4>2. CASE y # x
        <5>1. y \in Cids /\ accepts[y] = IF nominated[y] THEN 1 ELSE 0
          BY <2>1 DEF LinkInv, Accepts
        <5>2. accepts'[y] = accepts[y] /\ nominated'[y] = nominated[y]
          BY <3>1, <3>2, <4>2, <5>1
        <5> QED BY <5>1, <5>2, Zenon
      <4> QED BY <4>1, <4>2
    <3>5. Accepts'
      BY <2>1, <3>4 DEF Accepts
    <3> QED BY <3>1, <3>2, <3>5
  <2> QED BY <2>2, <2>3 DEF Nominated, on_connected
<1>4. Types'
  BY <1>1, <1>2, <1>3 DEF LinkInv, Types, Grown, registry
<1>5. SameDebts
  BY <1>1 DEF SameDebts, Closing, Reporting, Owes, WorkOwes
<1> QED BY <1>1, <1>2, <1>3, <1>4, <1>5, QuietStep DEF registry


\* A session is made under an id that nobody refers to yet.
LEMMA NewMade ==
    ASSUME LinkInv, NEW x \in Every, x \in Unused(Every), NEW p \in Peers,
           session' = [session EXCEPT ![x] = NewSession(p)]
    PROVE  /\ session' \in [Every -> SessionType]
           /\ ~Made(x) /\ session'[x].state # "None"
           /\ \A y \in Every : y # x => session'[y] = session[y]
<1>1. NewSession(p) \in SessionType /\ NewSession(p).state = "New"
  BY DEF NewSession, NoSession, SessionType
<1>2. session[x] = NoSession /\ NoSession.state = "None"
  BY DEF Unused, NoSession
<1> QED BY <1>1, <1>2 DEF LinkInv, Types, Made

\* A connect, or an offer, registers a session of the kernel.
LEMMA RegisterStep ==
    ASSUME LinkInv, NEW x \in Ids, x \in Unused(Ids), NEW p \in Peers,
           Register(x, p), session' = [session EXCEPT ![x] = NewSession(p)],
           Types', SameDebts, UNCHANGED <<composer, stage, reports>>
    PROVE  LinkInv'
<1>1. /\ x \in Every /\ x \in Unused(Every)
      /\ sessions' = sessions \cup {x} /\ published_ids' = published_ids \cup {x}
      /\ UNCHANGED <<composer_sessions, nominated, stage, notified, accepts>>
  BY DEF Every, Unused, Register, composer, reports
<1>2. /\ session' \in [Every -> SessionType]
      /\ ~Made(x) /\ session'[x].state # "None"
      /\ \A y \in Every : y # x => session'[y] = session[y]
  BY <1>1, NewMade
<1>3. Untouched'
  BY <1>1, <1>2 DEF LinkInv, Untouched, SameDebts, Made
<1>4. OneShutdown'
  BY <1>1 DEF LinkInv, OneShutdown, SameDebts, Up
<1>5. Reports'
  <2>1. x \notin sessions /\ ~Reporting(x) /\ notified[x] = 0
    BY <1>1, <1>2 DEF LinkInv, Untouched
  <2>2. ~WorkOwes(x) /\ \A t \in Threads : ~Owes(t, x)
    BY <2>1 DEF Reporting, WorkOwes, Owes
  <2> QED BY <1>1, <2>1, <2>2 DEF LinkInv, Reports, SameDebts, Up
<1>6. RemovedIsDead'
  <2>1. \A y \in Every : y # x /\ y \notin Unused(Every)' => y \notin Unused(Every)
    BY <1>2 DEF Unused
  <2> QED BY <1>1, <1>2, <2>1 DEF LinkInv, RemovedIsDead, SameDebts, Every
<1>7. Settled'
  <2>1. \A t \in Threads : call[t].op = "shutdown" => call[t].live \subseteq Every
    BY Fields DEF LinkInv, Types
  <2>2. \A t \in Threads : call[t].op = "shutdown" => x \notin call[t].live
    BY <1>1, <1>2 DEF LinkInv, Untouched, Closing
  <2> QED BY <1>1, <1>2, <2>1, <2>2 DEF LinkInv, Settled, SameDebts
<1>8. Published'
  BY <1>1, <1>2 DEF LinkInv, Published, SameDebts, Made, Every
<1>9. Accepts'
  BY <1>1 DEF LinkInv, Accepts
<1> QED BY <1>3, <1>4, <1>5, <1>6, <1>7, <1>8, <1>9 DEF LinkInv

\* connect, and an offer that makes a session or finds one.
LEMMA ConnectStep ==
    ASSUME LinkInv, NEW t \in Threads, connect(t) \/ OfferToSession(t) PROVE LinkInv'
<1>1. /\ call[t].op \in {"entered", "offer"}
      /\ UNCHANGED <<session, registry>> \/ NewConnection(call[t].peer)
      /\ call' = [call EXCEPT ![t] = Idle]
      /\ UNCHANGED <<composer, work, stage, reports>>
  BY DEF connect, OfferToSession, Return
<1>2. call[t].peer \in Peers /\ Idle \in Calls /\ Idle.op = "idle"
  BY <1>1, Fields DEF LinkInv, Types, Calls, Idle
<1>3. SameDebts
  BY <1>1, <1>2 DEF LinkInv, Types, SameDebts, Closing, Reporting, Owes, WorkOwes
<1>4. CASE UNCHANGED <<session, registry>>
  <2>1. Types' /\ Grown /\ Accepts'
    BY <1>1, <1>2, <1>4, SameGrown DEF LinkInv, Types, Accepts, registry, composer, reports
  <2> QED BY <1>1, <1>3, <1>4, <2>1, QuietStep DEF registry, composer, reports
<1>5. CASE \E x \in Fresh(Ids) : /\ Register(x, call[t].peer)
                                 /\ session' = [session EXCEPT ![x] = NewSession(call[t].peer)]
  <2>1. PICK x \in Fresh(Ids) : /\ Register(x, call[t].peer)
                                /\ session' = [session EXCEPT ![x] = NewSession(call[t].peer)]
    BY <1>5
  <2>2. x \in Unused(Ids) /\ x \in Ids /\ x \in Every /\ x \in Unused(Every)
    BY DEF Fresh, Unused, Every
  <2>3. session' \in [Every -> SessionType]
    BY <1>2, <2>1, <2>2, NewMade
  <2>4. Types'
    BY <1>1, <1>2, <2>1, <2>2, <2>3 DEF LinkInv, Types, Register, composer, reports
  <2> QED BY <1>1, <1>2, <1>3, <2>1, <2>2, <2>4, RegisterStep
<1> QED BY <1>1, <1>4, <1>5 DEF NewConnection

\* A composer that connects registers its session.
LEMMA ComposerConnectStep ==
    ASSUME LinkInv, NEW t \in Threads, composer_connect(t) PROVE LinkInv'
<1>1. /\ call[t].op = "entered" /\ call' = [call EXCEPT ![t] = Idle]
      /\ UNCHANGED <<registry, nominated, work, stage, reports>>
      /\ \/ UNCHANGED <<session, composer>>
         \/ \E x \in Fresh(Cids) :
               /\ session' = [session EXCEPT ![x] = NewSession(call[t].peer)]
               /\ composer_sessions' = composer_sessions \cup {x}
  BY DEF composer_connect, Return, composer
<1>2. call[t].peer \in Peers /\ Idle \in Calls /\ Idle.op = "idle"
  BY <1>1, Fields DEF LinkInv, Types, Calls, Idle
<1>3. SameDebts
  BY <1>1, <1>2 DEF LinkInv, Types, SameDebts, Closing, Reporting, Owes, WorkOwes
<1>4. CASE UNCHANGED <<session, composer>>
  <2>1. Types' /\ Grown /\ Accepts'
    BY <1>1, <1>2, <1>4, SameGrown DEF LinkInv, Types, Accepts, registry, composer, reports
  <2> QED BY <1>1, <1>3, <1>4, <2>1, QuietStep DEF registry, composer, reports
<1>5. ASSUME NEW x \in Fresh(Cids),
             session' = [session EXCEPT ![x] = NewSession(call[t].peer)],
             composer_sessions' = composer_sessions \cup {x}
      PROVE  LinkInv'
  <2>1. x \in Unused(Cids) /\ x \in Cids /\ x \in Every /\ x \in Unused(Every)
    BY DEF Fresh, Unused, Every
  <2>2. /\ session' \in [Every -> SessionType]
        /\ ~Made(x) /\ session'[x].state # "None"
        /\ \A y \in Every : y # x => session'[y] = session[y]
    BY <1>2, <1>5, <2>1, NewMade
  <2>3. UNCHANGED <<sessions, published_ids, nominated, stage, notified, accepts>>
    BY <1>1 DEF registry, reports
  <2>4. Types'
    BY <1>1, <1>2, <1>5, <2>1, <2>2, <2>3 DEF LinkInv, Types
  <2>5. Untouched'
    BY <1>3, <1>5, <2>2, <2>3 DEF LinkInv, Untouched, SameDebts, Made
  <2>6. OneShutdown' /\ Reports'
    BY <1>3, <2>3 DEF LinkInv, OneShutdown, Reports, SameDebts, Up
  <2>7. RemovedIsDead'
    <3>1. \A y \in Every : y # x /\ y \notin Unused(Every)' => y \notin Unused(Every)
      BY <2>2 DEF Unused
    <3> QED BY <1>3, <1>5, <2>2, <2>3, <3>1 DEF LinkInv, RemovedIsDead, SameDebts, Every
  <2>8. Settled'
    <3>1. \A u \in Threads : call[u].op = "shutdown" => call[u].live \subseteq Every
      BY Fields DEF LinkInv, Types
    <3>2. \A u \in Threads : call[u].op = "shutdown" => x \notin call[u].live
      BY <2>1, <2>2 DEF LinkInv, Untouched, Closing
    <3> QED BY <1>3, <2>2, <2>3, <3>1, <3>2 DEF LinkInv, Settled, SameDebts
  <2>9. x \notin Ids
    BY <2>1, LinkAssumption DEF LinkAssumption
  <2>10. Published'
    BY <1>3, <2>2, <2>3, <2>9 DEF LinkInv, Published, SameDebts, Made, Every
  <2>11. Accepts'
    <3>1. accepts[x] = 0 /\ ~nominated[x]
      BY <2>1, <2>2 DEF LinkInv, Untouched
    <3> QED BY <1>5, <2>3, <3>1 DEF LinkInv, Accepts
  <2> QED BY <2>4, <2>5, <2>6, <2>7, <2>8, <2>10, <2>11 DEF LinkInv
<1> QED BY <1>1, <1>4, <1>5

\* The reaper's choice removes nothing yet.
LEMMA ReapStep == ASSUME LinkInv, reap_sessions PROVE LinkInv'
<1>1. PICK drop \in SUBSET Ids : work' = [op |-> "reap", drop |-> drop]
  BY DEF reap_sessions, LinkInv, Types
<1>2. /\ work = Idle /\ Idle.op = "idle"
      /\ UNCHANGED <<session, registry, composer, call, stage, reports>>
  BY DEF reap_sessions, Ready, Idle
<1>3. Types' /\ Grown /\ Accepts'
  <2>1. work' \in Works
    BY <1>1 DEF Works
  <2> QED BY <1>2, <2>1, SameGrown
          DEF LinkInv, Types, Accepts, registry, composer, reports
<1>4. SameDebts
  BY <1>1, <1>2 DEF SameDebts, Closing, Reporting, Owes, WorkOwes
<1> QED BY <1>2, <1>3, <1>4, QuietStep DEF registry, composer, reports

-----------------------------------------------------------------------------

\* Whoever takes a session out of its map owes it the rest.
LEMMA DisconnectStep ==
    ASSUME LinkInv, NEW t \in Threads, disconnect(t) PROVE LinkInv'
<1>1. PICK x \in sessions : /\ sessions' = sessions \ {x}
                            /\ call' = [call EXCEPT ![t] = [op |-> "close", id |-> x]]
                            /\ UNCHANGED published_ids
  BY DEF disconnect, Erase, Continue
<1>2. /\ call[t].op = "idle" /\ x \in Ids
      /\ UNCHANGED <<session, composer_sessions, nominated, work, stage, notified, accepts>>
  BY <1>1, Fields DEF disconnect, LinkInv, Types, composer, reports
<1> DEFINE c == [op |-> "close", id |-> x]
<1>3. c \in Calls /\ c.op = "close" /\ c.id = x /\ call' = [call EXCEPT ![t] = c]
  BY <1>1, <1>2 DEF Calls
<1> HIDE DEF c
<1>4. call'[t] = c /\ \A u \in Threads : u # t => call'[u] = call[u]
  BY <1>3 DEF LinkInv, Types
<1>5. Types'
  BY <1>1, <1>2, <1>3 DEF LinkInv, Types
<1>6. Made(x)
  BY <1>1, <1>2 DEF LinkInv, Untouched, Every
<1>7. \A y \in Every : /\ Closing(y)' <=> Closing(y) \/ y = x
                       /\ Reporting(y)' <=> Reporting(y) \/ y = x
  BY <1>2, <1>3, <1>4 DEF Closing, Reporting
<1>8. \A y \in Every : Made(y)' <=> Made(y)
  BY <1>2 DEF Made
<1>9. Untouched'
  BY <1>1, <1>2, <1>6, <1>7, <1>8 DEF LinkInv, Untouched
<1>10. OneShutdown' /\ Settled' /\ Published' /\ Accepts'
  BY <1>1, <1>2, <1>3, <1>4
     DEF LinkInv, OneShutdown, Settled, Published, Accepts, Up, Made
<1>11. Reports'
  <2>1. \A u \in Threads, y \in Ids : Owes(u, y)' <=> Owes(u, y) \/ (u = t /\ y = x)
    BY <1>2, <1>3, <1>4 DEF Owes
  <2> QED BY <1>1, <1>2, <2>1 DEF LinkInv, Reports, WorkOwes, Up
<1>12. RemovedIsDead'
  BY <1>1, <1>2, <1>7 DEF LinkInv, RemovedIsDead, Unused, Every
<1> QED BY <1>5, <1>9, <1>10, <1>11, <1>12 DEF LinkInv

\* The reaper takes its next session out, or finds it gone.
LEMMA ReapNextStep == ASSUME LinkInv, ReapNext PROVE LinkInv'
<1>1. /\ work \in [op : {"reap"}, drop : SUBSET Ids]
      /\ UNCHANGED <<session, composer, call, stage, reports>>
  BY Fields DEF ReapNext, LinkInv, Types
<1>2. CASE /\ UNCHANGED registry
           /\ work' = Idle \/ \E x : work' = [work EXCEPT !.drop = @ \ {x}]
  <2>1. work' \in Works /\ work'.op \in {"idle", "reap"}
    BY <1>1, <1>2 DEF Works, Idle
  <2>2. Types' /\ Grown /\ Accepts'
    BY <1>1, <1>2, <2>1, SameGrown
       DEF LinkInv, Types, Accepts, registry, composer, reports
  <2>3. SameDebts
    BY <1>1, <2>1 DEF SameDebts, Closing, Reporting, Owes, WorkOwes
  <2> QED BY <1>1, <1>2, <2>2, <2>3, QuietStep DEF registry, composer, reports
<1>3. ASSUME NEW x \in sessions, Erase(x),
             work' = [op |-> "close", id |-> x, drop |-> work.drop \ {x}]
      PROVE  LinkInv'
  <2>1. /\ sessions' = sessions \ {x} /\ x \in Ids
        /\ UNCHANGED <<session, published_ids, composer_sessions, nominated, call,
                       stage, notified, accepts>>
    BY <1>1, <1>3 DEF Erase, LinkInv, Types, composer, reports
  <2>2. work' \in Works /\ work'.op = "close" /\ work'.id = x /\ work.op = "reap"
    BY <1>1, <1>3, <2>1 DEF Works
  <2>3. Types'
    BY <2>1, <2>2 DEF LinkInv, Types
  <2>4. Made(x)
    BY <2>1 DEF LinkInv, Untouched, Every
  <2>5. \A y \in Every : /\ Closing(y)' <=> Closing(y) \/ y = x
                         /\ Reporting(y)' <=> Reporting(y) \/ y = x
    BY <2>1, <2>2 DEF Closing, Reporting
  <2>6. \A y \in Every : Made(y)' <=> Made(y)
    BY <2>1 DEF Made
  <2>7. Untouched'
    BY <2>1, <2>4, <2>5, <2>6 DEF LinkInv, Untouched
  <2>8. OneShutdown' /\ Settled' /\ Published' /\ Accepts'
    BY <2>1 DEF LinkInv, OneShutdown, Settled, Published, Accepts, Up, Made
  <2>9. Reports'
    BY <1>3, <2>1, <2>2, TakenReports
  <2>10. RemovedIsDead'
    BY <2>1, <2>5 DEF LinkInv, RemovedIsDead, Unused, Every
  <2> QED BY <2>3, <2>7, <2>8, <2>9, <2>10 DEF LinkInv
<1> QED BY <1>2, <1>3 DEF ReapNext

\* A session fails: the worker claims its report, or somebody else has it.
LEMMA FailedStep ==
    ASSUME LinkInv, NEW x \in Every, Failed(x) PROVE LinkInv'
<1> DEFINE s == [session[x] EXCEPT !.state = "Failed", !.failed = TRUE]
<1>1. /\ session' = [session EXCEPT ![x] = s]
      /\ session[x] \in SessionType /\ Made(x)
      /\ work = Idle /\ Idle.op = "idle" /\ UNCHANGED <<call, stage, reports>>
  <2>1. session[x] \in SessionType
    BY DEF LinkInv, Types
  <2> QED BY <2>1 DEF Failed, Made, Ready, LinkInv, Types, Idle
<1>2. /\ s \in SessionType /\ s.state = "Failed" /\ s.closed = session[x].closed
      /\ s.failed
  BY <1>1 DEF SessionType
<1> HIDE DEF s
<1>3. Grown /\ session'[x].failed
  BY <1>1, <1>2 DEF LinkInv, Types, Grown, Made
<1>4. UNCHANGED <<nominated, published_ids, stage, notified, accepts, call>>
  BY <1>1 DEF Failed, claim_disconnect, Erase, EraseComposer, composer, registry, reports
<1>5. CASE UNCHANGED <<registry, work, composer>>
  <2>1. Types' /\ Accepts'
    BY <1>3, <1>4, <1>5 DEF LinkInv, Types, Accepts, Grown, registry, composer
  <2>2. SameDebts
    BY <1>4, <1>5 DEF SameDebts, Closing, Reporting, Owes, WorkOwes
  <2> QED BY <1>3, <1>4, <1>5, <2>1, <2>2, QuietStep DEF registry, composer
<1>6. \A y \in Every : y \notin Unused(Every)' => y \notin Unused(Every)
  BY <1>3, StillUsed
<1>7. \A y \in Every : Made(y)' <=> Made(y)
  BY <1>3 DEF Grown, Made
<1>8. \A t \in Threads : call[t].op = "shutdown" => call[t].live \subseteq Every
  BY Fields DEF LinkInv, Types
<1>9. CASE /\ x \in composer_sessions /\ x \in Cids
           /\ composer_sessions' = composer_sessions \ {x} /\ UNCHANGED <<registry, work>>
  <2>1. x \notin Ids /\ UNCHANGED sessions
    BY <1>9, LinkAssumption DEF LinkAssumption, registry
  <2>2. Types' /\ Accepts'
    BY <1>3, <1>4, <1>9, <2>1 DEF LinkInv, Types, Accepts, Grown
  <2>3. SameDebts
    BY <1>4, <1>9 DEF SameDebts, Closing, Reporting, Owes, WorkOwes
  <2>4. Untouched'
    BY <1>3, <1>4, <1>9, <2>1, <2>3 DEF LinkInv, Untouched, Grown, SameDebts, Made
  <2>5. OneShutdown' /\ Reports'
    BY <1>4, <2>1, <2>3 DEF LinkInv, OneShutdown, Reports, SameDebts, Up
  <2>6. RemovedIsDead'
    BY <1>3, <1>4, <1>6, <1>9, <2>1, <2>3
       DEF LinkInv, RemovedIsDead, Grown, SameDebts, Every
  <2>7. Settled'
    BY <1>3, <1>4, <1>8 DEF LinkInv, Settled, Grown
  <2>8. Published'
    BY <1>4, <1>7 DEF LinkInv, Published, Every
  <2> QED BY <2>2, <2>4, <2>5, <2>6, <2>7, <2>8 DEF LinkInv
<1>10. CASE /\ x \in Ids /\ Up /\ x \in sessions /\ sessions' = sessions \ {x}
            /\ work' = [op |-> "notify", id |-> x] /\ UNCHANGED composer
  <2>1. /\ UNCHANGED composer_sessions /\ x \in Ids
        /\ work' \in Works /\ work'.op = "notify" /\ work'.id = x
    BY <1>10 DEF composer, Works
  <2>2. Types' /\ Accepts'
    BY <1>3, <1>4, <1>10, <2>1 DEF LinkInv, Types, Accepts, Grown
  <2>3. \A y \in Every : /\ Closing(y)' <=> Closing(y)
                         /\ Reporting(y)' <=> Reporting(y) \/ y = x
    BY <1>1, <1>4, <2>1 DEF Closing, Reporting
  <2>4. Untouched'
    BY <1>1, <1>3, <1>4, <1>10, <2>1, <2>3 DEF LinkInv, Untouched, Grown, Made
  <2>5. OneShutdown'
    BY <1>4 DEF LinkInv, OneShutdown, Up
  <2>6. Reports'
    BY <1>1, <1>4, <1>10, <2>1, TakenReports
  <2>7. RemovedIsDead'
    BY <1>3, <1>4, <1>6, <1>10, <2>1, <2>3 DEF LinkInv, RemovedIsDead, Grown, Every
  <2>8. Settled'
    BY <1>3, <1>4, <1>8 DEF LinkInv, Settled, Grown
  <2>9. Published'
    BY <1>4, <1>7 DEF LinkInv, Published, Every
  <2> QED BY <2>2, <2>4, <2>5, <2>6, <2>7, <2>8, <2>9 DEF LinkInv
<1> QED
  BY <1>5, <1>9, <1>10 DEF Failed, claim_disconnect, Erase, EraseComposer, Every, registry

-----------------------------------------------------------------------------

\* One more report.
LEMMA NotifiedMore ==
    ASSUME Types, NEW x \in Ids, notified' = [notified EXCEPT ![x] = @ + 1]
    PROVE  /\ notified' \in [Ids -> Nat] /\ notified'[x] = notified[x] + 1
           /\ \A y \in Ids : /\ y # x => notified'[y] = notified[y]
                             /\ notified[y] > 0 => notified'[y] > 0
           /\ notified'[x] > 0
BY DEF Types

\* A debt is paid: what a step that closes or reports x leaves to show.
LEMMA PaidStep ==
    ASSUME LinkInv, NEW x \in Ids, Made(x), Types', Grown,
           notified' = [notified EXCEPT ![x] = @ + 1],
           session'[x].closed \/ (Closing(x) => Closing(x)'),
           UNCHANGED <<registry, composer, stage, accepts>>,
           \A y \in Every : /\ Closing(y)' => Closing(y)
                            /\ Reporting(y)' => Reporting(y)
                            /\ y # x /\ Closing(y) => Closing(y)'
                            /\ y # x /\ Reporting(y) => Reporting(y)',
           \A u \in Threads :
              /\ call'[u].op = "shutdown" <=> call[u].op = "shutdown"
              /\ call[u].op = "shutdown" => call'[u] = call[u],
           Reports'
    PROVE  LinkInv'
<1>1. /\ notified' \in [Ids -> Nat] /\ notified'[x] > 0
      /\ \A y \in Ids : /\ y # x => notified'[y] = notified[y]
                        /\ notified[y] > 0 => notified'[y] > 0
  BY NotifiedMore DEF LinkInv
<1>2. /\ x \in Every
      /\ UNCHANGED <<sessions, published_ids, composer_sessions, nominated>>
  BY DEF Every, registry, composer
<1>3. Untouched'
  <2>1. \A y \in Every : ~Made(y)' => ~Made(y) /\ y # x /\ session'[y] = session[y]
    BY DEF Grown, Made
  <2> QED BY <1>1, <1>2, <2>1 DEF LinkInv, Untouched
<1>4. OneShutdown' /\ Accepts'
  BY <1>2 DEF LinkInv, OneShutdown, Accepts, Up
<1>5. RemovedIsDead'
  <2>1. \A y \in Every : y \notin Unused(Every)' => y \notin Unused(Every)
    BY StillUsed
  <2>2. ASSUME NEW y \in Every, y \notin Unused(Every)',
               y \notin (sessions \cup composer_sessions)'
        PROVE  /\ session'[y].closed \/ session'[y].failed \/ Closing(y)'
               /\ y \in Ids => notified'[y] > 0 \/ Reporting(y)'
    <3>1. /\ session[y].closed \/ session[y].failed \/ Closing(y)
          /\ y \in Ids => notified[y] > 0 \/ Reporting(y)
      BY <1>2, <2>1, <2>2 DEF LinkInv, RemovedIsDead, Every
    <3>2. /\ session[y].closed => session'[y].closed
          /\ session[y].failed => session'[y].failed
      BY DEF Grown
    <3> QED BY <1>1, <3>1, <3>2
  <2> QED BY <2>2 DEF RemovedIsDead, Every
<1>6. Settled'
  <2>1. \A t \in Threads : call[t].op = "shutdown" =>
           call[t].live \subseteq Every /\ call[t].ids \subseteq Ids
    BY Fields DEF LinkInv, Types
  <2> QED BY <1>1, <2>1 DEF LinkInv, Settled, Grown
<1>7. Published'
  BY <1>1, <1>2 DEF LinkInv, Published, Grown, Made, Every
<1> QED BY <1>3, <1>4, <1>5, <1>6, <1>7 DEF LinkInv

\* disconnect() closes and reports what it took out.
LEMMA DisconnectEndsStep ==
    ASSUME LinkInv, NEW t \in Threads, DisconnectEnds(t) PROVE LinkInv'
<1> DEFINE x == call[t].id
<1>1. /\ call[t].op = "close" /\ x \in Ids /\ x \in Every
      /\ Close({x}) /\ notified' = [notified EXCEPT ![x] = @ + 1]
      /\ call' = [call EXCEPT ![t] = Idle]
      /\ UNCHANGED <<registry, composer, work, stage, accepts>>
  BY Fields DEF DisconnectEnds, CloseAndNotify, Return, LinkInv, Types, Every
<1>2. call[t].id = x
  OBVIOUS
<1> HIDE DEF x
<1>3. Made(x)
  BY <1>1, <1>2 DEF LinkInv, Untouched, Closing
<1>4. Grown /\ session'[x].closed
  BY <1>1, <1>3, CloseGrown DEF LinkInv
<1>5. Idle \in Calls /\ Idle.op = "idle"
  BY DEF Calls, Idle
<1>6. call'[t] = Idle /\ \A u \in Threads : u # t => call'[u] = call[u]
  BY <1>1 DEF LinkInv, Types
<1>7. /\ notified' \in [Ids -> Nat] /\ notified'[x] = notified[x] + 1
      /\ \A y \in Ids : y # x => notified'[y] = notified[y]
  BY <1>1, NotifiedMore DEF LinkInv
<1>8. Types'
  BY <1>1, <1>4, <1>5, <1>7 DEF LinkInv, Types, Grown, registry, composer
<1>9. \A y \in Every : /\ Closing(y)' => Closing(y)
                       /\ Reporting(y)' => Reporting(y)
                       /\ y # x /\ Closing(y) => Closing(y)'
                       /\ y # x /\ Reporting(y) => Reporting(y)'
  BY <1>1, <1>2, <1>5, <1>6 DEF Closing, Reporting
<1>10. \A u \in Threads :
          /\ call'[u].op = "shutdown" <=> call[u].op = "shutdown"
          /\ call[u].op = "shutdown" => call'[u] = call[u]
  BY <1>1, <1>5, <1>6
<1>11. Reports'
  <2>1. \A u \in Threads, y \in Ids : Owes(u, y)' <=> Owes(u, y) /\ u # t
    BY <1>5, <1>6 DEF Owes
  <2>2. Owes(t, x) /\ UNCHANGED sessions
    BY <1>1, <1>2 DEF Owes, registry
  <2> QED BY <1>1, <1>7, <2>1, <2>2 DEF LinkInv, Reports, WorkOwes, Up
<1> QED BY <1>1, <1>3, <1>4, <1>8, <1>9, <1>10, <1>11, PaidStep

\* The reaper closes and reports what it took out.
LEMMA ReapEndsStep == ASSUME LinkInv, ReapEnds PROVE LinkInv'
<1> DEFINE x == work.id
<1>1. /\ work.op = "close" /\ x \in Ids /\ x \in Every /\ work.drop \in SUBSET Ids
      /\ Close({x}) /\ notified' = [notified EXCEPT ![x] = @ + 1]
      /\ work' = [op |-> "reap", drop |-> work.drop]
      /\ UNCHANGED <<registry, composer, call, stage, accepts>>
  BY Fields DEF ReapEnds, CloseAndNotify, LinkInv, Types, Every
<1>2. work.id = x
  OBVIOUS
<1> HIDE DEF x
<1>3. Made(x)
  BY <1>1, <1>2 DEF LinkInv, Untouched, Closing
<1>4. Grown /\ session'[x].closed
  BY <1>1, <1>3, CloseGrown DEF LinkInv
<1>5. work' \in Works /\ work'.op = "reap"
  BY <1>1 DEF Works
<1>6. /\ notified' \in [Ids -> Nat] /\ notified'[x] = notified[x] + 1
      /\ \A y \in Ids : y # x => notified'[y] = notified[y]
  BY <1>1, NotifiedMore DEF LinkInv
<1>7. Types'
  BY <1>1, <1>4, <1>5, <1>6 DEF LinkInv, Types, Grown, registry, composer
<1>8. \A y \in Every : /\ Closing(y)' => Closing(y)
                       /\ Reporting(y)' => Reporting(y)
                       /\ y # x /\ Closing(y) => Closing(y)'
                       /\ y # x /\ Reporting(y) => Reporting(y)'
  BY <1>1, <1>2, <1>5 DEF Closing, Reporting
<1>9. Reports'
  <2>1. WorkOwes(x) /\ UNCHANGED sessions /\ \A y \in Ids : ~WorkOwes(y)'
    BY <1>1, <1>2, <1>5 DEF WorkOwes, registry
  <2> QED BY <1>1, <1>6, <2>1 DEF LinkInv, Reports, Owes, Up
<1> QED BY <1>1, <1>3, <1>4, <1>7, <1>8, <1>9, PaidStep

\* The worker reports the session that failed.
LEMMA NotifyStep == ASSUME LinkInv, Notify PROVE LinkInv'
<1> DEFINE x == work.id
<1>1. /\ work.op = "notify" /\ x \in Ids /\ x \in Every
      /\ notified' = [notified EXCEPT ![x] = @ + 1] /\ work' = Idle
      /\ UNCHANGED <<session, registry, composer, call, stage, accepts>>
  BY Fields DEF Notify, LinkInv, Types, Every
<1>2. work.id = x
  OBVIOUS
<1> HIDE DEF x
<1>3. Made(x)
  BY <1>1, <1>2 DEF LinkInv, Untouched, Reporting
<1>4. Grown
  BY <1>1, SameGrown DEF LinkInv
<1>5. work' \in Works /\ work'.op = "idle"
  BY <1>1 DEF Works, Idle
<1>6. /\ notified' \in [Ids -> Nat] /\ notified'[x] = notified[x] + 1
      /\ \A y \in Ids : y # x => notified'[y] = notified[y]
  BY <1>1, NotifiedMore DEF LinkInv
<1>7. Types'
  BY <1>1, <1>4, <1>5, <1>6 DEF LinkInv, Types, Grown, registry, composer
<1>8. \A y \in Every : /\ Closing(y)' <=> Closing(y)
                       /\ Reporting(y)' => Reporting(y)
                       /\ y # x /\ Reporting(y) => Reporting(y)'
  BY <1>1, <1>2, <1>5 DEF Closing, Reporting
<1>9. Reports'
  <2>1. WorkOwes(x) /\ UNCHANGED sessions /\ \A y \in Ids : ~WorkOwes(y)'
    BY <1>1, <1>2, <1>5 DEF WorkOwes, registry
  <2> QED BY <1>1, <1>6, <2>1 DEF LinkInv, Reports, Owes, Up
<1> QED BY <1>1, <1>3, <1>4, <1>7, <1>8, <1>9, PaidStep

\* A composer's session is erased and closed in one step.
LEMMA DisconnectComposerStep ==
    ASSUME LinkInv, NEW t \in Threads, disconnect_composer(t) PROVE LinkInv'
<1>1. PICK x \in composer_sessions :
         /\ composer_sessions' = composer_sessions \ {x} /\ Close({x})
         /\ UNCHANGED nominated
  BY DEF disconnect_composer, EraseComposer
<1>2. /\ x \in Cids /\ x \in Every /\ Made(x)
      /\ UNCHANGED <<registry, call, work, stage, reports>>
  BY <1>1 DEF disconnect_composer, LinkInv, Types, Untouched, Every
<1>3. Grown /\ session'[x].closed
  BY <1>1, <1>2, CloseGrown DEF LinkInv
<1>4. x \notin Ids /\ UNCHANGED <<sessions, published_ids, notified, accepts>>
  BY <1>2, LinkAssumption DEF LinkAssumption, registry, reports
<1>5. Types' /\ Accepts'
  BY <1>1, <1>2, <1>3, <1>4 DEF LinkInv, Types, Accepts, Grown
<1>6. SameDebts
  BY <1>2 DEF SameDebts, Closing, Reporting, Owes, WorkOwes
<1>7. Untouched'
  BY <1>1, <1>3, <1>4, <1>6 DEF LinkInv, Untouched, Grown, SameDebts, Made
<1>8. OneShutdown' /\ Reports'
  BY <1>2, <1>4, <1>6 DEF LinkInv, OneShutdown, Reports, SameDebts, Up
<1>9. RemovedIsDead'
  <2>1. \A y \in Every : y \notin Unused(Every)' => y \notin Unused(Every)
    BY <1>3, StillUsed
  <2> QED BY <1>1, <1>3, <1>4, <1>6, <2>1
          DEF LinkInv, RemovedIsDead, Grown, SameDebts, Every
<1>10. Settled'
  <2>1. \A u \in Threads : call[u].op = "shutdown" => call[u].live \subseteq Every
    BY Fields DEF LinkInv, Types
  <2> QED BY <1>2, <1>3, <1>4, <2>1 DEF LinkInv, Settled, Grown
<1>11. Published'
  BY <1>2, <1>3, <1>4 DEF LinkInv, Published, Grown, Made, Every
<1> QED BY <1>5, <1>7, <1>8, <1>9, <1>10, <1>11 DEF LinkInv

-----------------------------------------------------------------------------

\* shutdown() takes the kernel's sessions on, ...
LEMMA ShutdownStep ==
    ASSUME LinkInv, NEW t \in Threads, shutdown(t) PROVE LinkInv'
<1> DEFINE c == [op |-> "shutdown", ids |-> published_ids, live |-> sessions]
<1>1. /\ call[t].op = "idle" /\ Up /\ stage' = "sessions"
      /\ call' = [call EXCEPT ![t] = c] /\ sessions' = {} /\ published_ids' = {}
      /\ UNCHANGED <<session, composer_sessions, nominated, work, notified, accepts>>
  BY Fields DEF shutdown, Continue, LinkInv, Types, composer, reports
<1>2. /\ c \in Calls /\ c.op = "shutdown" /\ c.ids = published_ids
      /\ c.live = sessions
  BY DEF Calls, LinkInv, Types, Every
<1> HIDE DEF c
<1>3. call'[t] = c /\ \A u \in Threads : u # t => call'[u] = call[u]
  BY <1>1 DEF LinkInv, Types
<1>4. Types'
  BY <1>1, <1>2 DEF LinkInv, Types
<1>5. \A y \in Every : /\ Closing(y)' <=> Closing(y) \/ y \in sessions
                       /\ Reporting(y)' <=> Reporting(y) \/ y \in published_ids
  BY <1>1, <1>2, <1>3 DEF Closing, Reporting
<1>6. Untouched'
  BY <1>1, <1>5 DEF LinkInv, Untouched, Made
<1>7. OneShutdown' /\ Reports' /\ Settled' /\ Accepts'
  <2>1. \A u \in Threads : call[u].op # "shutdown"
    BY <1>1 DEF LinkInv, OneShutdown
  <2>2. stage' = "sessions" /\ stage' # "up"
    BY <1>1
  <2>3. OneShutdown'
    BY <1>2, <1>3, <2>1, <2>2 DEF OneShutdown, Up
  <2>4. Reports' /\ Settled'
    BY <2>2 DEF Reports, Settled, Up
  <2> QED BY <1>1, <2>3, <2>4 DEF LinkInv, Accepts
<1>8. \A x \in Ids : Made(x) => x \in published_ids \/ notified[x] > 0
  BY <1>1 DEF LinkInv, Published, Up
<1>9. RemovedIsDead'
  <2>1. \A x \in Ids : x \notin Unused(Every) => Made(x)
    BY DEF LinkInv, Untouched, Unused, Every
  <2> QED BY <1>1, <1>5, <1>8, <2>1 DEF LinkInv, RemovedIsDead, Unused, Every
<1>10. Published'
  BY <1>1, <1>2, <1>3, <1>8 DEF LinkInv, Published, Made
<1> QED BY <1>4, <1>6, <1>7, <1>9, <1>10 DEF LinkInv

\* ... then the composer's, ...
LEMMA ShutdownComposerStep ==
    ASSUME LinkInv, NEW t \in Threads, ShutdownComposer(t) PROVE LinkInv'
<1> DEFINE c == [call[t] EXCEPT !.live = @ \cup composer_sessions]
<1>1. /\ call[t].op = "shutdown" /\ stage = "sessions" /\ stage' = "composer"
      /\ call' = [call EXCEPT ![t] = c] /\ composer_sessions' = {}
      /\ UNCHANGED <<session, sessions, published_ids, nominated, work, notified,
                     accepts>>
  BY DEF ShutdownComposer, Continue, registry, reports
<1>2. call[t] \in [op : {"shutdown"}, ids : SUBSET Ids, live : SUBSET Every]
  BY <1>1, Fields DEF LinkInv, Types
<1>3. /\ c \in Calls /\ c.op = "shutdown" /\ c.ids = call[t].ids
      /\ c.live = call[t].live \cup composer_sessions
  BY <1>2 DEF Calls, LinkInv, Types, Every
<1> HIDE DEF c
<1>4. call'[t] = c /\ \A u \in Threads : u # t => call'[u] = call[u]
  BY <1>1 DEF LinkInv, Types
<1>5. Types'
  BY <1>1, <1>3 DEF LinkInv, Types
<1>6. \A y \in Every : /\ Closing(y)' <=> Closing(y) \/ y \in composer_sessions
                       /\ Reporting(y)' <=> Reporting(y)
  BY <1>1, <1>3, <1>4 DEF Closing, Reporting
<1>7. Untouched'
  BY <1>1, <1>6 DEF LinkInv, Untouched, Made
<1>8. OneShutdown' /\ Reports' /\ Settled' /\ Accepts'
  <2>1. \A u \in Threads : call'[u].op = "shutdown" => u = t
    <3>1. \A u \in Threads : call[u].op = "shutdown" => u = t
      BY <1>1 DEF LinkInv, OneShutdown
    <3> QED BY <1>4, <3>1
  <2>2. OneShutdown'
    BY <1>1, <2>1 DEF OneShutdown, Up
  <2>3. Reports' /\ Settled' /\ Accepts'
    BY <1>1 DEF Reports, Settled, Accepts, Up
  <2> QED BY <2>2, <2>3
<1>9. RemovedIsDead'
  <2>1. composer_sessions \cap Ids = {}
    BY LinkAssumption DEF LinkAssumption, LinkInv, Types
  <2> QED BY <1>1, <1>6, <2>1 DEF LinkInv, RemovedIsDead, Unused, Every
<1>10. Published'
  BY <1>1, <1>3, <1>4 DEF LinkInv, Published, Made
<1> QED BY <1>5, <1>7, <1>8, <1>9, <1>10 DEF LinkInv

\* ... closes and reports what it took on, ...
LEMMA ShutdownReportsStep ==
    ASSUME LinkInv, NEW t \in Threads, ShutdownReports(t) PROVE LinkInv'
<1>1. /\ call[t].op = "shutdown" /\ stage = "composer" /\ stage' = "stopping"
      /\ Close(call[t].live)
      /\ UNCHANGED <<sessions, published_ids, composer_sessions, nominated, call,
                     work, accepts>>
      /\ notified' = [x \in Ids |-> IF x \in call[t].ids THEN notified[x] + 1
                                    ELSE notified[x]]
  BY DEF ShutdownReports, registry, composer
<1>2. call[t].live \subseteq Every /\ call[t].ids \subseteq Ids
  BY <1>1, Fields DEF LinkInv, Types
<1>3. \A x \in call[t].live \cup call[t].ids : x \in Every /\ Made(x)
  BY <1>1, <1>2 DEF LinkInv, Untouched, Closing, Reporting, Every
<1>4. Grown /\ \A x \in call[t].live : session'[x].closed
  BY <1>1, <1>2, <1>3, CloseGrown DEF LinkInv
<1>5. /\ notified' \in [Ids -> Nat]
      /\ \A x \in Ids : /\ notified[x] > 0 => notified'[x] > 0
                        /\ x \in call[t].ids => notified'[x] > 0
                        /\ x \notin call[t].ids => notified'[x] = notified[x]
  BY <1>1 DEF LinkInv, Types
<1>6. Types' /\ Accepts'
  BY <1>1, <1>4, <1>5 DEF LinkInv, Types, Accepts, Grown
<1>7. \A y \in Every : (Closing(y)' <=> Closing(y)) /\ (Reporting(y)' <=> Reporting(y))
  BY <1>1 DEF Closing, Reporting
<1>8. Untouched'
  BY <1>1, <1>3, <1>4, <1>5, <1>7 DEF LinkInv, Untouched, Grown, Made
<1>9. OneShutdown' /\ Reports'
  BY <1>1 DEF LinkInv, OneShutdown, Reports, Up
<1>10. RemovedIsDead'
  <2>1. \A y \in Every : y \notin Unused(Every)' => y \notin Unused(Every)
    BY <1>4, StillUsed
  <2> QED BY <1>1, <1>4, <1>5, <1>7, <2>1 DEF LinkInv, RemovedIsDead, Grown, Every
<1>11. Settled'
  <2>1. \A u \in Threads : call[u].op = "shutdown" => u = t
    BY <1>1 DEF LinkInv, OneShutdown
  <2> QED BY <1>1, <1>2, <1>4, <1>5, <2>1 DEF Settled
<1>12. Published'
  <2>1. \A u \in Threads : call[u].op = "shutdown" => u = t
    BY <1>1 DEF LinkInv, OneShutdown
  <2>2. \A x \in Ids : Made(x)' => Made(x)
    BY <1>4 DEF Grown, Made, Every
  <2>3. \A x \in Ids : Made(x) =>
           x \in published_ids \/ notified[x] > 0 \/ x \in call[t].ids
    BY <2>1 DEF LinkInv, Published
  <2> QED BY <1>1, <1>5, <2>2, <2>3 DEF Published
<1> QED BY <1>6, <1>8, <1>9, <1>10, <1>11, <1>12 DEF LinkInv

\* ... and returns when the worker has stopped.
LEMMA ShutdownJoinsStep ==
    ASSUME LinkInv, NEW t \in Threads, ShutdownJoins(t) PROVE LinkInv'
<1>1. /\ call[t].op = "shutdown" /\ stage = "stopping" /\ stage' = "down"
      /\ call' = [call EXCEPT ![t] = Idle]
      /\ UNCHANGED <<session, sessions, published_ids, composer_sessions, nominated,
                     work, notified, accepts>>
  BY DEF ShutdownJoins, Return, registry, composer, reports
<1>2. Idle \in Calls /\ Idle.op = "idle"
  BY DEF Calls, Idle
<1>3. call'[t] = Idle /\ \A u \in Threads : u # t => call'[u] = call[u]
  BY <1>1 DEF LinkInv, Types
<1>4. \A u \in Threads : call[u].op = "shutdown" => u = t
  BY <1>1 DEF LinkInv, OneShutdown
<1>5. call[t].live \subseteq Every /\ call[t].ids \subseteq Ids
  BY <1>1, Fields DEF LinkInv, Types
<1>6. /\ \A x \in call[t].live : session[x].closed
      /\ \A x \in call[t].ids : notified[x] > 0
  BY <1>1 DEF LinkInv, Settled
<1>7. Types' /\ Accepts'
  BY <1>1, <1>2 DEF LinkInv, Types, Accepts
<1>8. \A y \in Every : /\ Closing(y)' => Closing(y)
                       /\ Reporting(y)' => Reporting(y)
                       /\ Closing(y) => Closing(y)' \/ session[y].closed
                       /\ Reporting(y) => Reporting(y)' \/ y \in call[t].ids
  BY <1>1, <1>2, <1>3, <1>6 DEF Closing, Reporting
<1>9. Untouched'
  BY <1>1, <1>8 DEF LinkInv, Untouched, Made
<1>10. OneShutdown' /\ Reports' /\ Settled'
  <2>1. \A u \in Threads : call'[u].op # "shutdown"
    BY <1>2, <1>3, <1>4
  <2>2. stage' = "down" /\ stage' # "up"
    BY <1>1
  <2> QED BY <2>1, <2>2 DEF OneShutdown, Reports, Settled, Up
<1>11. RemovedIsDead'
  BY <1>1, <1>6, <1>8 DEF LinkInv, RemovedIsDead, Unused, Every
<1>12. Published'
  BY <1>1 DEF LinkInv, Published, Made
<1> QED BY <1>7, <1>9, <1>10, <1>11, <1>12 DEF LinkInv

\* Every step keeps the invariant.
LEMMA LinkStep == LinkInv /\ [Next]_vars => LinkInv'
<1> SUFFICES ASSUME LinkInv, [Next]_vars PROVE LinkInv'
  OBVIOUS
<1>1. ASSUME NEW t \in Threads,
             \/ \E p \in Peers : Enter(t, p)
             \/ disconnect(t) \/ disconnect_composer(t) \/ shutdown(t)
             \/ Step(t)
      PROVE  LinkInv'
  BY <1>1, EnterStep, DisconnectStep, DisconnectComposerStep, ShutdownStep,
     ConnectStep, ComposerConnectStep, OfferToComposerStep, DisconnectEndsStep,
     ShutdownComposerStep, ShutdownReportsStep, ShutdownJoinsStep DEF Step
<1>2. ASSUME NEW x \in Ids \cup Cids,
             Gather(x) \/ Recheck(x) \/ Nominated(x) \/ Failed(x)
      PROVE  LinkInv'
  BY <1>2, StateStep, NominatedStep, FailedStep DEF Every
<1>3. CASE reap_sessions \/ WorkerStep
  BY <1>3, ReapStep, ReapNextStep, ReapEndsStep, NotifyStep DEF WorkerStep
<1>4. CASE UNCHANGED vars
  <2>1. /\ UNCHANGED <<session, call, work, stage, nominated>>
        /\ UNCHANGED <<sessions, composer_sessions, published_ids, notified, accepts>>
    BY <1>4 DEF vars, registry, composer, reports
  <2>2. Types' /\ Grown /\ Accepts'
    BY <2>1, SameGrown DEF LinkInv, Types, Accepts
  <2>3. SameDebts
    BY <2>1 DEF SameDebts, Closing, Reporting, Owes, WorkOwes
  <2> QED BY <2>1, <2>2, <2>3, QuietStep
<1> QED BY <1>1, <1>2, <1>3, <1>4 DEF Next

\* The invariant always holds.
LEMMA LinkAlways == Spec => []LinkInv
BY LinkInit, LinkStep, PTL DEF Spec

\* The kernel is told at most once that a connection is gone, for any number
\* of threads that disconnect, sessions that fail and rounds of the reaper,
\* and never while the session is registered (claim_disconnect, disconnect).
THEOREM LinkReportsOnce == Spec => []ReportedOnce
<1>1. LinkInv => ReportedOnce
  BY DEF LinkInv, Reports, ReportedOnce
<1> QED BY <1>1, LinkAlways, PTL

\* No session that left its map is forgotten: it was closed or has failed,
\* and was reported, or a thread, the worker or shutdown() will do so.
THEOREM LinkForgetsNone == Spec => []RemovedIsDead
<1>1. LinkInv => RemovedIsDead
  BY DEF LinkInv
<1> QED BY <1>1, LinkAlways, PTL

\* When shutdown() returns, every id that was published before it has been
\* reported to the kernel.
THEOREM LinkShutdown == Spec => []ShutdownReportsAll
<1>1. ASSUME LinkInv PROVE ShutdownReportsAll
  <2>1. \A x \in Ids : x \notin Unused(Ids) => Made(x)
    BY <1>1 DEF LinkInv, Untouched, Unused, Every
  <2>2. \A x \in Ids : notified[x] \in Nat
    BY <1>1 DEF LinkInv, Types
  <2> QED BY <1>1, <2>1, <2>2 DEF LinkInv, Published, ShutdownReportsAll
<1> QED BY <1>1, LinkAlways, PTL

\* While its entry is registered, a composer's connection is accepted at most
\* once, however often its session is nominated (ComposerEntry::nominated).
THEOREM LinkAcceptsOnce == Spec => []AcceptedOnce
<1>1. ASSUME LinkInv PROVE AcceptedOnce
  <2>1. \A x \in composer_sessions : accepts[x] = 0 \/ accepts[x] = 1
    BY <1>1 DEF LinkInv, Accepts
  <2> QED BY <2>1 DEF AcceptedOnce
<1> QED BY <1>1, LinkAlways, PTL

-----------------------------------------------------------------------------
\* The elements of a finite set of naturals are numbered by how many come
\* before them, from 0 to one less than there are.
LEMMA BeforeNumbers ==
    ASSUME NEW K, K \subseteq Nat, IsFiniteSet(K)
    PROVE  /\ Cardinality(K) \in Nat
           /\ \A i, j \in K : i < j => Before(K, i) < Before(K, j)
           /\ \A k \in 1..Cardinality(K) : \E i \in K : Before(K, i) = k - 1
           /\ \A i \in K : Before(K, i) \in 0..Cardinality(K) - 1
<1> DEFINE Low(i) == {j \in K : j < i}
           f == [i \in K |-> Before(K, i)]
<1>1. Cardinality(K) \in Nat
  BY FS_CardinalityType
<1>2. ASSUME NEW i \in K
      PROVE  /\ IsFiniteSet(Low(i)) /\ Cardinality(Low(i)) \in Nat
             /\ Cardinality(Low(i)) < Cardinality(K)
  <2>1. Low(i) \in SUBSET K /\ i \notin Low(i) /\ i \in Nat
    OBVIOUS
  <2>2. IsFiniteSet(Low(i)) /\ Cardinality(Low(i)) <= Cardinality(K)
        /\ Cardinality(K) # Cardinality(Low(i))
    BY <2>1, FS_Subset
  <2>3. Cardinality(Low(i)) \in Nat
    BY <2>2, FS_CardinalityType
  <2> HIDE DEF Low
  <2> QED BY <1>1, <2>2, <2>3
<1>3. ASSUME NEW i \in K, NEW j \in K, i < j
      PROVE  Before(K, i) < Before(K, j)
  <2>1. i \in Nat /\ j \in Nat
    OBVIOUS
  <2>2. Low(i) \in SUBSET Low(j) /\ i \in Low(j) /\ i \notin Low(i)
    <3>1. \A k \in K : k < i => k < j
      BY <1>3, <2>1
    <3>2. Low(i) \in SUBSET Low(j)
      BY <3>1
    <3>3. i \in Low(j) /\ i \notin Low(i)
      BY <1>3, <2>1
    <3> QED BY <3>2, <3>3
  <2>3. Cardinality(Low(i)) <= Cardinality(Low(j))
        /\ Cardinality(Low(i)) # Cardinality(Low(j))
    BY <1>2, <2>2, FS_Subset
  <2>4. Cardinality(Low(i)) \in Nat /\ Cardinality(Low(j)) \in Nat
    BY <1>2
  <2>5. Before(K, i) = Cardinality(Low(i)) /\ Before(K, j) = Cardinality(Low(j))
    BY DEF Before
  <2> HIDE DEF Low
  <2> QED BY <2>3, <2>4, <2>5
<1>4. \A i \in K : Before(K, i) \in 0..Cardinality(K) - 1
  <2>1. \A i \in K : Before(K, i) = Cardinality(Low(i))
    BY DEF Before
  <2> HIDE DEF Low
  <2> QED BY <1>1, <1>2, <2>1
<1>5. f \in Injection(K, 0..Cardinality(K) - 1)
  <2>1. f \in [K -> 0..Cardinality(K) - 1]
    BY <1>4
  <2>2. ASSUME NEW i \in K, NEW j \in K, f[i] = f[j] PROVE i = j
    <3>1. i \in Nat /\ j \in Nat /\ Before(K, i) = Before(K, j)
          /\ Before(K, i) \in Nat
      BY <1>1, <1>4, <2>2
    <3>2. ~(i < j) /\ ~(j < i)
      BY <1>3, <3>1
    <3> QED BY <3>1, <3>2
  <2> QED BY <2>1, <2>2 DEF Injection, IsInjective
<1>6. IsFiniteSet(0..Cardinality(K) - 1)
      /\ Cardinality(0..Cardinality(K) - 1) = Cardinality(K)
  <2>1. 0 \in Int /\ Cardinality(K) - 1 \in Int
    BY <1>1
  <2>2. /\ IsFiniteSet(0..Cardinality(K) - 1)
        /\ Cardinality(0..Cardinality(K) - 1)
              = IF 0 > Cardinality(K) - 1 THEN 0 ELSE Cardinality(K) - 1 - 0 + 1
    BY <2>1, FS_Interval
  <2> DEFINE c == Cardinality(0..Cardinality(K) - 1)
  <2>3. c = IF 0 > Cardinality(K) - 1 THEN 0 ELSE Cardinality(K) - 1 - 0 + 1
    BY <2>2
  <2> HIDE DEF c
  <2>4. c = Cardinality(K)
    BY <1>1, <2>3
  <2> QED BY <2>2, <2>4 DEF c
<1>7. f \in Surjection(K, 0..Cardinality(K) - 1)
  BY <1>5, <1>6, FS_Injection
<1>8. ASSUME NEW k \in 1..Cardinality(K) PROVE \E i \in K : Before(K, i) = k - 1
  <2>1. k - 1 \in 0..Cardinality(K) - 1
    BY <1>1
  <2> QED BY <1>7, <2>1 DEF Surjection
<1> QED BY <1>1, <1>3, <1>4, <1>8

\* e is ids without x: every position of e is a position of ids, a later one
\* for a later one, and every position that does not hold x is among them.
Without(ids, x, e) ==
    \E g \in [DOMAIN e -> DOMAIN ids] :
       /\ \A k \in DOMAIN e : e[k] = ids[g[k]] /\ e[k] # x
       /\ \A k, l \in DOMAIN e : k < l => g[k] < g[l]
       /\ \A i \in DOMAIN ids : ids[i] # x => \E k \in DOMAIN e : g[k] = i

\* erase_peer_id removes x and nothing else, and keeps the order of the rest.
LEMMA EraseKeeps ==
    ASSUME NEW S, NEW ids \in Seq(S), NEW x
    PROVE  /\ erase_peer_id(ids, x) \in Seq(S)
           /\ Without(ids, x, erase_peer_id(ids, x))
<1> DEFINE K == {i \in DOMAIN ids : ids[i] # x}
           n == Cardinality(K)
           e == erase_peer_id(ids, x)
           g == [k \in 1..n |-> CHOOSE i \in K : Before(K, i) = k - 1]
<1>1. DOMAIN ids = 1..Len(ids) /\ Len(ids) \in Nat
  OBVIOUS
<1>2. K \subseteq Nat /\ IsFiniteSet(K)
  <2>1. K \in SUBSET (1..Len(ids)) /\ IsFiniteSet(1..Len(ids))
    BY <1>1, FS_Interval
  <2> QED BY <2>1, FS_Subset
<1>3. K \subseteq DOMAIN ids
  OBVIOUS
<1>4. \A i \in DOMAIN ids : i \in K <=> ids[i] # x
  OBVIOUS
<1>5. e = [k \in 1..n |-> ids[g[k]]]
  BY DEF erase_peer_id
<1> HIDE DEF K, e
<1>6. n \in Nat
  BY <1>2, BeforeNumbers
<1>7. ASSUME NEW k \in 1..n PROVE g[k] \in K /\ Before(K, g[k]) = k - 1
  BY <1>2, BeforeNumbers
<1>8. g \in [1..n -> K]
  BY <1>7
<1> HIDE DEF g
<1>9. DOMAIN e = 1..n /\ \A k \in 1..n : e[k] = ids[g[k]]
  BY <1>5
<1>10. \A k \in 1..n : g[k] \in DOMAIN ids /\ ids[g[k]] # x /\ ids[g[k]] \in S
  BY <1>1, <1>3, <1>4, <1>7
<1>11. e \in Seq(S)
  BY <1>5, <1>6, <1>10
<1>12. ASSUME NEW k \in 1..n, NEW l \in 1..n, k < l PROVE g[k] < g[l]
  <2>1. g[k] \in Nat /\ g[l] \in Nat /\ g[k] \in K /\ g[l] \in K
    BY <1>2, <1>7
  <2>2. Before(K, g[k]) = k - 1 /\ Before(K, g[l]) = l - 1
    BY <1>7
  <2>3. g[k] # g[l]
    BY <1>6, <1>12, <2>2
  <2>4. ~(g[l] < g[k])
    <3>1. g[l] < g[k] => Before(K, g[l]) < Before(K, g[k])
      BY <1>2, <2>1, BeforeNumbers
    <3>2. ~(l - 1 < k - 1)
      BY <1>6, <1>12
    <3> QED BY <2>2, <3>1, <3>2
  <2> QED BY <2>1, <2>3, <2>4
<1>13. ASSUME NEW i \in K PROVE \E k \in 1..n : g[k] = i
  <2>1. Before(K, i) \in 0..n - 1 /\ i \in Nat
    BY <1>2, BeforeNumbers
  <2> DEFINE k == Before(K, i) + 1
  <2>2. k \in 1..n /\ k - 1 = Before(K, i)
    BY <1>6, <2>1
  <2>3. g[k] \in K /\ g[k] \in Nat /\ Before(K, g[k]) = Before(K, i)
    BY <1>2, <1>7, <2>2
  <2>4. ~(g[k] < i) /\ ~(i < g[k])
    <3> HIDE DEF k
    <3>1. /\ g[k] < i => Before(K, g[k]) < Before(K, i)
          /\ i < g[k] => Before(K, i) < Before(K, g[k])
      BY <1>2, <2>3, BeforeNumbers
    <3>2. Before(K, i) \in Nat
      BY <1>6, <2>1
    <3> QED BY <2>3, <3>1, <3>2
  <2>5. g[k] = i
    BY <2>1, <2>3, <2>4
  <2> QED BY <2>2, <2>5
<1>14. g \in [DOMAIN e -> DOMAIN ids]
  BY <1>8, <1>9, <1>3
<1>15. /\ \A k \in DOMAIN e : e[k] = ids[g[k]] /\ e[k] # x
       /\ \A k, l \in DOMAIN e : k < l => g[k] < g[l]
       /\ \A i \in DOMAIN ids : ids[i] # x => \E k \in DOMAIN e : g[k] = i
  BY <1>4, <1>9, <1>10, <1>12, <1>13
<1>16. Without(ids, x, e)
  BY <1>14, <1>15 DEF Without
<1> QED BY <1>11, <1>16 DEF e

\* The list ids holds the elements of X, each once.
HoldsOnce(ids, X) ==
    /\ ids \in Seq(Ids)
    /\ \A i, j \in DOMAIN ids : ids[i] = ids[j] => i = j
    /\ \A x \in Ids : (\E i \in DOMAIN ids : ids[i] = x) <=> x \in X

\* erase_peer_id takes one element out.
LEMMA EraseHolds ==
    ASSUME NEW ids, NEW X, HoldsOnce(ids, X), NEW x \in Ids
    PROVE  HoldsOnce(erase_peer_id(ids, x), X \ {x})
<1> DEFINE e == erase_peer_id(ids, x)
<1>1. ids \in Seq(Ids)
  BY DEF HoldsOnce
<1>2. e \in Seq(Ids) /\ Without(ids, x, e)
  BY <1>1, EraseKeeps
<1> HIDE DEF e
<1>3. PICK g \in [DOMAIN e -> DOMAIN ids] :
         /\ \A k \in DOMAIN e : e[k] = ids[g[k]] /\ e[k] # x
         /\ \A k, l \in DOMAIN e : k < l => g[k] < g[l]
         /\ \A i \in DOMAIN ids : ids[i] # x => \E k \in DOMAIN e : g[k] = i
  BY <1>2 DEF Without
<1>4. DOMAIN ids \subseteq Nat /\ DOMAIN e \subseteq Nat
  BY <1>1, <1>2
<1>5. ASSUME NEW k \in DOMAIN e, NEW l \in DOMAIN e, e[k] = e[l] PROVE k = l
  <2>1. g[k] = g[l]
    BY <1>3, <1>5 DEF HoldsOnce
  <2>2. ~(k < l) /\ ~(l < k)
    <3>1. g[k] \in Nat /\ ~(g[k] < g[k])
      BY <1>3, <1>4
    <3> QED BY <1>3, <2>1, <3>1
  <2> QED BY <1>4, <2>2
<1>6. ASSUME NEW y \in Ids
      PROVE  (\E k \in DOMAIN e : e[k] = y) <=> y \in X \ {x}
  <2>1. ASSUME NEW k \in DOMAIN e, e[k] = y PROVE y \in X \ {x}
    BY <1>3, <2>1 DEF HoldsOnce
  <2>2. ASSUME y \in X, y # x PROVE \E k \in DOMAIN e : e[k] = y
    <3>1. PICK i \in DOMAIN ids : ids[i] = y
      BY <2>2 DEF HoldsOnce
    <3>2. PICK k \in DOMAIN e : g[k] = i
      BY <1>3, <2>2, <3>1
    <3> QED BY <1>3, <3>1, <3>2
  <2> QED BY <2>1, <2>2
<1> QED BY <1>2, <1>5, <1>6 DEF HoldsOnce, e

\* push_back puts one in.
LEMMA AppendHolds ==
    ASSUME NEW ids, NEW X, HoldsOnce(ids, X), NEW x \in Ids, x \notin X
    PROVE  HoldsOnce(Append(ids, x), X \cup {x})
<1> DEFINE e == Append(ids, x)
<1>1. ids \in Seq(Ids) /\ Len(ids) \in Nat /\ DOMAIN ids = 1..Len(ids)
  BY DEF HoldsOnce
<1>2. /\ e \in Seq(Ids) /\ DOMAIN e = 1..Len(ids) + 1
      /\ e[Len(ids) + 1] = x /\ \A i \in 1..Len(ids) : e[i] = ids[i]
  BY <1>1
<1> HIDE DEF e
<1>3. \A i \in DOMAIN e : i \in DOMAIN ids \/ i = Len(ids) + 1
  BY <1>1, <1>2
<1>4. Len(ids) + 1 \in DOMAIN e /\ DOMAIN ids \subseteq DOMAIN e
  BY <1>1, <1>2
<1>5. \A i \in DOMAIN ids : e[i] = ids[i] /\ ids[i] # x
  BY <1>1, <1>2 DEF HoldsOnce
<1>6. \A i, j \in DOMAIN e : e[i] = e[j] => i = j
  BY <1>2, <1>3, <1>5 DEF HoldsOnce
<1>7. ASSUME NEW y \in Ids
      PROVE  (\E i \in DOMAIN e : e[i] = y) <=> y \in X \cup {x}
  <2>1. (\E i \in DOMAIN ids : ids[i] = y) <=> y \in X
    BY DEF HoldsOnce
  <2> QED BY <1>2, <1>3, <1>4, <1>5, <2>1
<1> QED BY <1>2, <1>6, <1>7 DEF HoldsOnce, e

\* Such a list is as long as the set is large.
LEMMA HoldsAll ==
    ASSUME NEW ids, NEW X, X \subseteq Ids, HoldsOnce(ids, X)
    PROVE  /\ {ids[i] : i \in DOMAIN ids} = X
           /\ Len(ids) = Cardinality(X)
<1>1. ids \in Seq(Ids) /\ Len(ids) \in Nat /\ DOMAIN ids = 1..Len(ids)
  BY DEF HoldsOnce
<1>2. \A i \in DOMAIN ids : ids[i] \in Ids
  BY <1>1
<1>3. \A i \in DOMAIN ids : ids[i] \in X
  BY <1>2 DEF HoldsOnce
<1>4. \A x \in X : \E i \in DOMAIN ids : ids[i] = x
  BY DEF HoldsOnce
<1> DEFINE f == [i \in 1..Len(ids) |-> ids[i]]
<1>5. f \in Bijection(1..Len(ids), X)
  <2>1. f \in [1..Len(ids) -> X]
    BY <1>1, <1>3
  <2>2. \A i, j \in 1..Len(ids) : f[i] = f[j] => i = j
    BY <1>1 DEF HoldsOnce
  <2>3. \A x \in X : \E i \in 1..Len(ids) : f[i] = x
    BY <1>1, <1>4
  <2> HIDE DEF f
  <2>4. f \in Injection(1..Len(ids), X)
    BY <2>1, <2>2 DEF Injection, IsInjective
  <2>5. f \in Surjection(1..Len(ids), X)
    BY <2>1, <2>3 DEF Surjection
  <2> QED BY <2>4, <2>5 DEF Bijection
<1>6. ExistsBijection(1..Len(ids), X)
  BY <1>5 DEF ExistsBijection
<1>7. IsFiniteSet(1..Len(ids)) /\ Cardinality(1..Len(ids)) = Len(ids)
  <2> DEFINE c == Cardinality(1..Len(ids))
  <2>1. IsFiniteSet(1..Len(ids)) /\ c = IF 1 > Len(ids) THEN 0 ELSE Len(ids) - 1 + 1
    <3>1. 1 \in Int /\ Len(ids) \in Int
      BY <1>1
    <3> QED BY <3>1, FS_Interval
  <2> HIDE DEF c
  <2>2. c = Len(ids)
    <3>1. c = IF 1 > Len(ids) THEN 0 ELSE Len(ids) - 1 + 1
      BY <2>1
    <3>2. Len(ids) \in Nat
      BY <1>1
    <3> QED BY <3>1, <3>2
  <2> QED BY <2>1, <2>2 DEF c
<1>8. Cardinality(X) = Len(ids)
  BY <1>6, <1>7, FS_Bijection
<1> QED BY <1>3, <1>4, <1>8

-----------------------------------------------------------------------------

\* The kernel's sessions of peer p.
SessionsOf(p) == {x \in sessions : session[x].peer = p}

\* peer_to_ids_ lists the sessions of every peer.
PeerIndex == /\ peer_to_ids \in [Peers -> Seq(Ids)]
             /\ \A p \in Peers : HoldsOnce(peer_to_ids[p], SessionsOf(p))

\* composer_peer_to_id_ leads to the composer's session of every peer.
ComposerIndex ==
    /\ composer_peer_to_id \in [Peers -> Cids \cup {None}]
    /\ \A p \in Peers, x \in Cids :
          composer_peer_to_id[p] = x <=> x \in composer_sessions /\ session[x].peer = p

\* A session belongs to a peer.
Belongs == \A x \in Every : Made(x) => session[x].peer \in Peers

\* The inductive invariant of the maps, on top of LinkInv.
MapInv == PeerIndex /\ ComposerIndex /\ Belongs

\* The maps are empty at first.
LEMMA MapInit == Init => MapInv
<1> SUFFICES ASSUME Init PROVE MapInv
  OBVIOUS
<1>1. NoSession.state = "None"
  BY DEF NoSession
<1>2. Belongs
  BY <1>1 DEF Init, Belongs, Made, Every
<1>3. ComposerIndex
  BY LinkAssumption DEF Init, ComposerIndex, LinkAssumption
<1>4. <<>> \in Seq(Ids) /\ DOMAIN <<>> = {}
  OBVIOUS
<1>5. \A p \in Peers : SessionsOf(p) = {} /\ peer_to_ids[p] = <<>>
  BY DEF Init, SessionsOf
<1>6. \A p \in Peers : HoldsOnce(peer_to_ids[p], SessionsOf(p))
  BY <1>4, <1>5 DEF HoldsOnce
<1>7. PeerIndex
  BY <1>4, <1>6 DEF Init, PeerIndex
<1> QED BY <1>2, <1>3, <1>7 DEF MapInv

\* No session changes its peer, and none is made.
SamePeers == \A x \in Every : /\ session'[x].peer = session[x].peer
                              /\ Made(x)' <=> Made(x)

\* Steps that change no map of the kernel's.
LEMMA PeerIndexSame ==
    ASSUME LinkInv, PeerIndex, SamePeers, UNCHANGED <<sessions, peer_to_ids>>
    PROVE  PeerIndex'
<1>1. \A p \in Peers : SessionsOf(p)' = SessionsOf(p)
  BY DEF SessionsOf, SamePeers, LinkInv, Types, Every
<1> QED BY <1>1 DEF PeerIndex, HoldsOnce

\* disconnect, claim_disconnect and the reaper take a session out of both maps.
LEMMA PeerIndexErase ==
    ASSUME LinkInv, MapInv, SamePeers, NEW x \in sessions, Erase(x)
    PROVE  PeerIndex'
<1> DEFINE p == session[x].peer
<1>1. x \in Ids /\ x \in Every /\ Made(x)
  BY DEF LinkInv, Types, Untouched, Every
<1>2. p \in Peers
  BY <1>1 DEF MapInv, Belongs
<1>3. /\ sessions' = sessions \ {x}
      /\ peer_to_ids' = [peer_to_ids EXCEPT ![p] = erase_peer_id(@, x)]
  BY DEF Erase
<1>4. session[x].peer = p
  OBVIOUS
<1> HIDE DEF p
<1>5. HoldsOnce(erase_peer_id(peer_to_ids[p], x), SessionsOf(p) \ {x})
  BY <1>1, <1>2, EraseHolds DEF MapInv, PeerIndex
<1>6. \A r \in Peers : SessionsOf(r)' = IF r = p THEN SessionsOf(r) \ {x} ELSE SessionsOf(r)
  BY <1>3, <1>4 DEF SessionsOf, SamePeers, LinkInv, Types, Every
<1>7. /\ peer_to_ids'[p] = erase_peer_id(peer_to_ids[p], x)
      /\ \A r \in Peers : r # p => peer_to_ids'[r] = peer_to_ids[r]
      /\ peer_to_ids' \in [Peers -> Seq(Ids)]
  BY <1>2, <1>3, <1>5 DEF MapInv, PeerIndex, HoldsOnce
<1>8. ASSUME NEW r \in Peers PROVE HoldsOnce(peer_to_ids'[r], SessionsOf(r)')
  <2>1. CASE r = p
    BY <1>5, <1>6, <1>7, <2>1
  <2>2. CASE r # p
    BY <1>6, <1>7, <2>2 DEF MapInv, PeerIndex
  <2> QED BY <2>1, <2>2
<1> QED BY <1>7, <1>8 DEF PeerIndex, HoldsOnce

\* connect and an offer enter a session under both.
LEMMA PeerIndexRegister ==
    ASSUME LinkInv, MapInv, NEW x \in Ids, x \in Unused(Ids), NEW p \in Peers,
           Register(x, p), session' = [session EXCEPT ![x] = NewSession(p)]
    PROVE  PeerIndex'
<1>1. x \in Every /\ x \in Unused(Every)
  BY DEF Every, Unused
<1>2. /\ ~Made(x) /\ session' \in [Every -> SessionType]
      /\ \A y \in Every : y # x => session'[y] = session[y]
  BY <1>1, NewMade
<1>3. x \notin sessions
  BY <1>1, <1>2 DEF LinkInv, Untouched
<1>4. session'[x].peer = p
  BY <1>1 DEF NewSession, NoSession, LinkInv, Types
<1>5. /\ sessions' = sessions \cup {x}
      /\ peer_to_ids' = [peer_to_ids EXCEPT ![p] = Append(@, x)]
  BY DEF Register
<1>6. \A y \in sessions : y # x /\ session'[y] = session[y]
  BY <1>2, <1>3 DEF LinkInv, Types, Every
<1>7. \A r \in Peers : SessionsOf(r)' = IF r = p THEN SessionsOf(r) \cup {x} ELSE SessionsOf(r)
  BY <1>4, <1>5, <1>6 DEF SessionsOf
<1>8. HoldsOnce(Append(peer_to_ids[p], x), SessionsOf(p) \cup {x})
  <2>1. x \notin SessionsOf(p)
    BY <1>3 DEF SessionsOf
  <2> QED BY <2>1, AppendHolds DEF MapInv, PeerIndex
<1>9. /\ peer_to_ids'[p] = Append(peer_to_ids[p], x)
      /\ \A r \in Peers : r # p => peer_to_ids'[r] = peer_to_ids[r]
      /\ peer_to_ids' \in [Peers -> Seq(Ids)]
  BY <1>5, <1>8 DEF MapInv, PeerIndex, HoldsOnce
<1>10. ASSUME NEW r \in Peers PROVE HoldsOnce(peer_to_ids'[r], SessionsOf(r)')
  <2>1. CASE r = p
    BY <1>7, <1>8, <1>9, <2>1
  <2>2. CASE r # p
    BY <1>7, <1>9, <2>2 DEF MapInv, PeerIndex
  <2> QED BY <2>1, <2>2
<1> QED BY <1>9, <1>10 DEF PeerIndex, HoldsOnce

\* Steps that change no map of the composer's.
LEMMA ComposerIndexSame ==
    ASSUME ComposerIndex, UNCHANGED <<composer_sessions, composer_peer_to_id>>,
           \A x \in composer_sessions : session'[x].peer = session[x].peer
    PROVE  ComposerIndex'
BY DEF ComposerIndex

\* disconnect and on_failed take a composer's session out of both maps.
LEMMA ComposerIndexErase ==
    ASSUME LinkInv, MapInv, SamePeers, NEW x \in composer_sessions, EraseComposer(x)
    PROVE  ComposerIndex'
<1> DEFINE p == session[x].peer
<1>1. x \in Cids /\ x \in Every /\ Made(x)
  BY DEF LinkInv, Types, Untouched, Every
<1>2. p \in Peers /\ composer_peer_to_id[p] = x
  BY <1>1 DEF MapInv, Belongs, ComposerIndex
<1>3. /\ composer_sessions' = composer_sessions \ {x}
      /\ composer_peer_to_id' = [composer_peer_to_id EXCEPT ![p] = None]
  BY DEF EraseComposer
<1>4. session[x].peer = p
  OBVIOUS
<1> HIDE DEF p
<1>5. /\ composer_peer_to_id' \in [Peers -> Cids \cup {None}]
      /\ composer_peer_to_id'[p] = None
      /\ \A r \in Peers : r # p => composer_peer_to_id'[r] = composer_peer_to_id[r]
  BY <1>2, <1>3 DEF MapInv, ComposerIndex
<1>6. ASSUME NEW r \in Peers, NEW y \in Cids
      PROVE  composer_peer_to_id'[r] = y
                <=> y \in composer_sessions' /\ session'[y].peer = r
  <2>1. session'[y].peer = session[y].peer /\ y # None
    BY LinkAssumption DEF SamePeers, Every, LinkAssumption
  <2>2. /\ composer_peer_to_id[r] = y <=> y \in composer_sessions /\ session[y].peer = r
        /\ composer_peer_to_id[p] = y <=> y \in composer_sessions /\ session[y].peer = p
    BY <1>2 DEF MapInv, ComposerIndex
  <2>3. CASE r = p
    BY <1>2, <1>3, <1>5, <2>1, <2>2, <2>3
  <2>4. CASE r # p
    BY <1>3, <1>4, <1>5, <2>1, <2>2, <2>4
  <2> QED BY <2>3, <2>4
<1> QED BY <1>5, <1>6 DEF ComposerIndex

\* composer_connect enters a session under both, if its peer has none.
LEMMA ComposerIndexRegister ==
    ASSUME LinkInv, MapInv, NEW x \in Cids, x \in Unused(Cids), NEW p \in Peers,
           composer_peer_to_id[p] = None,
           session' = [session EXCEPT ![x] = NewSession(p)],
           composer_sessions' = composer_sessions \cup {x},
           composer_peer_to_id' = [composer_peer_to_id EXCEPT ![p] = x]
    PROVE  ComposerIndex'
<1>1. x \in Every /\ x \in Unused(Every)
  BY DEF Every, Unused
<1>2. ~Made(x) /\ \A y \in Every : y # x => session'[y] = session[y]
  BY <1>1, NewMade
<1>3. x \notin composer_sessions
  BY <1>1, <1>2 DEF LinkInv, Untouched
<1>4. session'[x].peer = p
  BY <1>1 DEF NewSession, NoSession, LinkInv, Types
<1>5. /\ composer_peer_to_id' \in [Peers -> Cids \cup {None}]
      /\ composer_peer_to_id'[p] = x
      /\ \A r \in Peers : r # p => composer_peer_to_id'[r] = composer_peer_to_id[r]
  BY DEF MapInv, ComposerIndex
<1>6. ASSUME NEW r \in Peers, NEW y \in Cids
      PROVE  composer_peer_to_id'[r] = y
                <=> y \in composer_sessions' /\ session'[y].peer = r
  <2>1. /\ composer_peer_to_id[r] = y <=> y \in composer_sessions /\ session[y].peer = r
        /\ composer_peer_to_id[p] = y <=> y \in composer_sessions /\ session[y].peer = p
    BY DEF MapInv, ComposerIndex
  <2>2. y # None
    BY LinkAssumption DEF LinkAssumption
  <2>3. y # x => session'[y] = session[y]
    BY <1>2 DEF Every
  <2>4. CASE y = x
    BY <1>3, <1>4, <1>5, <2>1, <2>4
  <2>5. CASE y # x
    BY <1>5, <2>1, <2>2, <2>3, <2>5
  <2> QED BY <2>4, <2>5
<1> QED BY <1>5, <1>6 DEF ComposerIndex

\* A session that is made belongs to its peer.
LEMMA BelongsNew ==
    ASSUME LinkInv, Belongs, NEW x \in Every, x \in Unused(Every), NEW p \in Peers,
           session' = [session EXCEPT ![x] = NewSession(p)]
    PROVE  Belongs' /\ \A y \in Every : y # x => session'[y] = session[y]
<1>1. \A y \in Every : y # x => session'[y] = session[y]
  BY NewMade
<1>2. session'[x].peer = p
  BY DEF NewSession, NoSession, LinkInv, Types
<1> QED BY <1>1, <1>2 DEF Belongs, Made

\* Handlers and close() leave a session's peer alone.
LEMMA PeersKept ==
    ASSUME LinkInv,
           \/ UNCHANGED session
           \/ \E X \in SUBSET Every : (\A x \in X : Made(x)) /\ Close(X)
           \/ \E x \in Every, state \in {"Running", "Connected"} :
                 Made(x) /\ SetState(x, state)
           \/ \E x \in Every : Failed(x)
    PROVE  SamePeers
<1>1. session \in [Every -> SessionType]
  BY DEF LinkInv, Types
<1>2. CASE UNCHANGED session
  BY <1>2 DEF SamePeers, Made
<1>3. ASSUME NEW X \in SUBSET Every, \A x \in X : Made(x), Close(X)
      PROVE  SamePeers
  <2>1. PICK kept \in SUBSET Overtaken(X) :
           session' = [x \in Every |->
                         IF x \notin X THEN session[x]
                         ELSE [session[x] EXCEPT !.closed = TRUE,
                                  !.state = IF x \in kept THEN @ ELSE "Failed"]]
    BY <1>3 DEF Close, Every
  <2>2. \A x \in X : session'[x].peer = session[x].peer
    BY <1>1, <2>1 DEF SessionType
  <2>3. \A x \in Every : x \notin X => session'[x] = session[x]
    BY <2>1
  <2>4. Grown
    BY <1>3, CloseGrown DEF LinkInv
  <2> QED BY <2>2, <2>3, <2>4 DEF SamePeers, Grown, Made
<1>4. ASSUME NEW x \in Every, NEW state \in {"Running", "Connected"},
             Made(x), SetState(x, state)
      PROVE  SamePeers
  <2>1. Grown
    BY <1>4, SetGrown DEF LinkInv
  <2>2. session'[x].peer = session[x].peer
        /\ \A y \in Every : y # x => session'[y] = session[y]
    BY <1>1, <1>4 DEF SetState, SessionType
  <2> QED BY <2>1, <2>2 DEF SamePeers, Grown, Made
<1>5. ASSUME NEW x \in Every, Failed(x) PROVE SamePeers
  <2>1. /\ session' = [session EXCEPT ![x] = [session[x] EXCEPT !.state = "Failed",
                                                                !.failed = TRUE]]
        /\ Made(x)
    BY <1>1, <1>5 DEF Failed, Made
  <2>2. session'[x].peer = session[x].peer /\ session'[x].state = "Failed"
        /\ \A y \in Every : y # x => session'[y] = session[y]
    BY <1>1, <2>1 DEF SessionType
  <2> QED BY <2>1, <2>2 DEF SamePeers, Made
<1> QED BY <1>2, <1>3, <1>4, <1>5

\* Steps that leave all maps alone.
LEMMA MapQuiet ==
    ASSUME LinkInv, MapInv, SamePeers,
           UNCHANGED <<sessions, peer_to_ids, composer_sessions, composer_peer_to_id>>
    PROVE  MapInv'
<1>1. PeerIndex'
  BY PeerIndexSame DEF MapInv
<1>2. ComposerIndex'
  BY ComposerIndexSame DEF MapInv, SamePeers, LinkInv, Types, Every
<1>3. Belongs'
  BY DEF MapInv, Belongs, SamePeers
<1> QED BY <1>1, <1>2, <1>3 DEF MapInv

\* Steps that take a session of the kernel out of the maps.
LEMMA MapErase ==
    ASSUME LinkInv, MapInv, SamePeers, NEW x \in sessions, Erase(x),
           UNCHANGED <<composer_sessions, composer_peer_to_id>>
    PROVE  MapInv'
<1>1. PeerIndex'
  BY PeerIndexErase
<1>2. ComposerIndex'
  BY ComposerIndexSame DEF MapInv, SamePeers, LinkInv, Types, Every
<1>3. Belongs'
  BY DEF MapInv, Belongs, SamePeers
<1> QED BY <1>1, <1>2, <1>3 DEF MapInv

\* Steps that take a session of a composer out of the maps.
LEMMA MapEraseComposer ==
    ASSUME LinkInv, MapInv, SamePeers, NEW x \in composer_sessions, EraseComposer(x),
           UNCHANGED <<sessions, peer_to_ids>>
    PROVE  MapInv'
<1>1. PeerIndex'
  BY PeerIndexSame DEF MapInv
<1>2. ComposerIndex'
  BY ComposerIndexErase
<1>3. Belongs'
  BY DEF MapInv, Belongs, SamePeers
<1> QED BY <1>1, <1>2, <1>3 DEF MapInv

\* A connect, or an offer, that makes a session.
LEMMA MapConnect ==
    ASSUME LinkInv, MapInv, NEW t \in Threads, connect(t) \/ OfferToSession(t)
    PROVE  MapInv'
<1>1. /\ call[t].op \in {"entered", "offer"} /\ UNCHANGED composer
      /\ UNCHANGED <<session, registry>> \/ NewConnection(call[t].peer)
  BY DEF connect, OfferToSession
<1>2. call[t].peer \in Peers
  BY <1>1, Fields DEF LinkInv, Types
<1>3. UNCHANGED <<composer_sessions, composer_peer_to_id>>
  BY <1>1 DEF composer
<1>4. CASE UNCHANGED <<session, registry>>
  <2>1. SamePeers /\ UNCHANGED <<sessions, peer_to_ids>>
    BY <1>4, PeersKept DEF registry
  <2> QED BY <1>3, <2>1, MapQuiet
<1>5. ASSUME NEW x \in Fresh(Ids), Register(x, call[t].peer),
             session' = [session EXCEPT ![x] = NewSession(call[t].peer)]
      PROVE  MapInv'
  <2>1. x \in Ids /\ x \in Unused(Ids) /\ x \in Every /\ x \in Unused(Every)
    BY DEF Fresh, Unused, Every
  <2>2. PeerIndex'
    BY <1>2, <1>5, <2>1, PeerIndexRegister
  <2>3. Belongs' /\ \A y \in Every : y # x => session'[y] = session[y]
    BY <1>2, <1>5, <2>1, BelongsNew DEF MapInv
  <2>4. \A y \in composer_sessions : y \in Every /\ y # x
    BY <2>1, LinkAssumption DEF LinkAssumption, LinkInv, Types, Every
  <2>5. ComposerIndex'
    BY <1>3, <2>3, <2>4, ComposerIndexSame DEF MapInv
  <2> QED BY <2>2, <2>3, <2>5 DEF MapInv
<1> QED BY <1>1, <1>4, <1>5 DEF NewConnection

\* A composer that connects, again or for the first time.
LEMMA MapComposerConnect ==
    ASSUME LinkInv, MapInv, NEW t \in Threads, composer_connect(t)
    PROVE  MapInv'
<1>1. call[t].op = "entered" /\ UNCHANGED <<sessions, peer_to_ids>>
  BY DEF composer_connect, registry
<1>2. call[t].peer \in Peers
  BY <1>1, Fields DEF LinkInv, Types
<1>3. CASE UNCHANGED <<session, composer>>
  <2>1. SamePeers /\ UNCHANGED <<composer_sessions, composer_peer_to_id>>
    BY <1>3, PeersKept DEF composer
  <2> QED BY <1>1, <2>1, MapQuiet
<1>4. ASSUME NEW x \in Fresh(Cids), composer_peer_to_id[call[t].peer] = None,
             session' = [session EXCEPT ![x] = NewSession(call[t].peer)],
             composer_sessions' = composer_sessions \cup {x},
             composer_peer_to_id' = [composer_peer_to_id EXCEPT ![call[t].peer] = x]
      PROVE  MapInv'
  <2>1. x \in Cids /\ x \in Unused(Cids) /\ x \in Every /\ x \in Unused(Every)
    BY DEF Fresh, Unused, Every
  <2>2. ComposerIndex'
    BY <1>2, <1>4, <2>1, ComposerIndexRegister
  <2>3. Belongs' /\ \A y \in Every : y # x => session'[y] = session[y]
    BY <1>2, <1>4, <2>1, BelongsNew DEF MapInv
  <2>4. \A y \in sessions : y \in Every /\ y # x
    BY <2>1, LinkAssumption DEF LinkAssumption, LinkInv, Types, Every
  <2>5. \A p \in Peers : SessionsOf(p)' = SessionsOf(p)
    BY <1>1, <2>3, <2>4 DEF SessionsOf
  <2>6. PeerIndex'
    BY <1>1, <2>5 DEF MapInv, PeerIndex, HoldsOnce
  <2> QED BY <2>2, <2>3, <2>6 DEF MapInv
<1> QED BY <1>3, <1>4 DEF composer_connect

\* shutdown() clears the maps of the kernel, then those of the composer.
LEMMA MapShutdown ==
    ASSUME LinkInv, MapInv, NEW t \in Threads, shutdown(t) \/ ShutdownComposer(t)
    PROVE  MapInv'
<1>1. UNCHANGED session
  BY DEF shutdown, ShutdownComposer
<1>2. SamePeers
  BY <1>1, PeersKept
<1>3. Belongs'
  BY <1>2 DEF MapInv, Belongs, SamePeers
<1>4. CASE shutdown(t)
  <2>1. /\ sessions' = {} /\ peer_to_ids' = [p \in Peers |-> <<>>]
        /\ UNCHANGED <<composer_sessions, composer_peer_to_id>>
    BY <1>4 DEF shutdown, composer
  <2>2. <<>> \in Seq(Ids) /\ DOMAIN <<>> = {}
    OBVIOUS
  <2>3. \A p \in Peers : SessionsOf(p)' = {} /\ peer_to_ids'[p] = <<>>
    BY <2>1 DEF SessionsOf
  <2>4. PeerIndex'
    BY <2>1, <2>2, <2>3 DEF PeerIndex, HoldsOnce
  <2>5. ComposerIndex'
    BY <1>2, <2>1, ComposerIndexSame DEF MapInv, SamePeers, LinkInv, Types, Every
  <2> QED BY <1>3, <2>4, <2>5 DEF MapInv
<1>5. CASE ShutdownComposer(t)
  <2>1. /\ composer_sessions' = {} /\ composer_peer_to_id' = [p \in Peers |-> None]
        /\ UNCHANGED <<sessions, peer_to_ids>>
    BY <1>5 DEF ShutdownComposer, registry
  <2>2. ComposerIndex'
    BY <2>1, LinkAssumption DEF ComposerIndex, LinkAssumption
  <2>3. PeerIndex'
    BY <1>2, <2>1, PeerIndexSame DEF MapInv
  <2> QED BY <1>3, <2>2, <2>3 DEF MapInv
<1> QED BY <1>4, <1>5

\* Every step keeps the maps in agreement.
LEMMA MapStep == LinkInv /\ MapInv /\ [Next]_vars => MapInv'
<1> SUFFICES ASSUME LinkInv, MapInv, [Next]_vars PROVE MapInv'
  OBVIOUS
<1> DEFINE SameMaps == UNCHANGED <<sessions, peer_to_ids, composer_sessions,
                                   composer_peer_to_id>>
<1>1. ASSUME NEW t \in Threads,
             \/ \E p \in Peers : Enter(t, p)
             \/ OfferToComposer(t) \/ ShutdownJoins(t)
      PROVE  MapInv'
  <2>1. UNCHANGED session /\ SameMaps
    BY <1>1 DEF Enter, OfferToComposer, ShutdownJoins, registry, composer
  <2> QED BY <2>1, PeersKept, MapQuiet
<1>2. ASSUME NEW t \in Threads, disconnect(t) PROVE MapInv'
  <2>1. PICK x \in sessions : Erase(x)
    BY <1>2 DEF disconnect
  <2>2. UNCHANGED session /\ UNCHANGED <<composer_sessions, composer_peer_to_id>>
    BY <1>2 DEF disconnect, composer
  <2> QED BY <2>1, <2>2, PeersKept, MapErase
<1>3. ASSUME NEW t \in Threads, disconnect_composer(t) PROVE MapInv'
  <2>1. PICK x \in composer_sessions : EraseComposer(x) /\ Close({x})
    BY <1>3 DEF disconnect_composer
  <2>2. {x} \in SUBSET Every /\ \A y \in {x} : Made(y)
    BY DEF LinkInv, Types, Untouched, Every
  <2>3. UNCHANGED <<sessions, peer_to_ids>>
    BY <1>3 DEF disconnect_composer, registry
  <2> QED BY <2>1, <2>2, <2>3, PeersKept, MapEraseComposer
<1>4. ASSUME NEW t \in Threads, DisconnectEnds(t) \/ ShutdownReports(t) PROVE MapInv'
  <2>1. PICK X \in SUBSET Every : (\A x \in X : Made(x)) /\ Close(X)
    <3>1. CASE DisconnectEnds(t)
      <4>1. call[t].op = "close" /\ Close({call[t].id}) /\ call[t].id \in Ids
        BY <3>1, Fields DEF DisconnectEnds, CloseAndNotify, LinkInv, Types
      <4>2. call[t].id \in Every /\ Made(call[t].id)
        BY <4>1 DEF LinkInv, Untouched, Closing, Every
      <4> QED BY <4>1, <4>2
    <3>2. CASE ShutdownReports(t)
      <4>1. /\ call[t].op = "shutdown" /\ Close(call[t].live)
            /\ call[t].live \in SUBSET Every
        BY <3>2, Fields DEF ShutdownReports, LinkInv, Types
      <4>2. \A x \in call[t].live : Made(x)
        BY <4>1 DEF LinkInv, Untouched, Closing
      <4> QED BY <4>1, <4>2
    <3> QED BY <1>4, <3>1, <3>2
  <2>2. SameMaps
    BY <1>4 DEF DisconnectEnds, ShutdownReports, registry, composer
  <2> QED BY <2>1, <2>2, PeersKept, MapQuiet
<1>5. ASSUME NEW x \in Every, Gather(x) \/ Recheck(x) \/ Nominated(x) PROVE MapInv'
  <2>1. /\ Made(x) /\ SameMaps
        /\ SetState(x, "Running") \/ SetState(x, "Connected")
    BY <1>5 DEF Gather, Recheck, Nominated, Made, registry, composer
  <2>2. SamePeers
    BY <2>1, PeersKept
  <2> QED BY <2>1, <2>2, MapQuiet
<1>6. ASSUME NEW x \in Every, Failed(x) PROVE MapInv'
  <2>1. SamePeers
    BY <1>6, PeersKept
  <2>2. CASE SameMaps
    BY <2>1, <2>2, MapQuiet
  <2>3. CASE x \in sessions /\ Erase(x) /\ UNCHANGED composer
    BY <2>1, <2>3, MapErase DEF composer
  <2>4. CASE x \in composer_sessions /\ EraseComposer(x) /\ UNCHANGED registry
    BY <2>1, <2>4, MapEraseComposer DEF registry
  <2> QED BY <1>6, <2>2, <2>3, <2>4 DEF Failed, claim_disconnect, registry, composer
<1>7. ASSUME reap_sessions \/ Notify PROVE MapInv'
  <2>1. UNCHANGED session /\ SameMaps
    BY <1>7 DEF reap_sessions, Notify, registry, composer
  <2> QED BY <2>1, PeersKept, MapQuiet
<1>8. ASSUME ReapNext PROVE MapInv'
  <2>1. UNCHANGED session /\ UNCHANGED <<composer_sessions, composer_peer_to_id>>
    BY <1>8 DEF ReapNext, composer
  <2>2. CASE UNCHANGED <<sessions, peer_to_ids>>
    BY <2>1, <2>2, PeersKept, MapQuiet
  <2>3. ASSUME NEW x \in sessions, Erase(x) PROVE MapInv'
    BY <2>1, <2>3, PeersKept, MapErase
  <2> QED BY <1>8, <2>2, <2>3 DEF ReapNext, registry
<1>9. ASSUME ReapEnds PROVE MapInv'
  <2>1. work.op = "close" /\ Close({work.id}) /\ work.id \in Ids
    BY <1>9, Fields DEF ReapEnds, CloseAndNotify, LinkInv, Types
  <2>2. {work.id} \in SUBSET Every /\ \A x \in {work.id} : Made(x)
    BY <2>1 DEF LinkInv, Untouched, Closing, Every
  <2>3. SameMaps
    BY <1>9 DEF ReapEnds, registry, composer
  <2> QED BY <2>1, <2>2, <2>3, PeersKept, MapQuiet
<1>10. CASE UNCHANGED vars
  <2>1. UNCHANGED session /\ SameMaps
    BY <1>10 DEF vars, registry, composer
  <2> QED BY <2>1, PeersKept, MapQuiet
<1> HIDE DEF SameMaps
<1>11. ASSUME NEW t \in Threads, Step(t) PROVE MapInv'
  BY <1>1, <1>4, <1>11, MapConnect, MapComposerConnect, MapShutdown DEF Step
<1>12. ASSUME NEW t \in Threads,
              \/ \E p \in Peers : Enter(t, p)
              \/ disconnect(t) \/ disconnect_composer(t) \/ shutdown(t)
       PROVE  MapInv'
  BY <1>1, <1>2, <1>3, <1>12, MapShutdown
<1> QED BY <1>5, <1>6, <1>7, <1>8, <1>9, <1>10, <1>11, <1>12
        DEF Next, WorkerStep, Every

\* Both invariants always hold.
LEMMA MapAlways == Spec => [](LinkInv /\ MapInv)
BY LinkInit, LinkStep, MapInit, MapStep, PTL DEF Spec

\* The maps hold ids of sessions that exist, and the peer indexes ids of their
\* kind, for any number of peers and sessions.
THEOREM LinkTypes == Spec => []TypeOK
<1>1. ASSUME LinkInv, MapInv PROVE TypeOK
  <2>1. NoSession.state = "None"
    BY DEF NoSession
  <2>2. \A x \in Every : x \in sessions \cup composer_sessions => session[x] # NoSession
    BY <1>1, <2>1 DEF LinkInv, Untouched, Made
  <2>3. /\ sessions \subseteq Ids \ Unused(Ids)
        /\ composer_sessions \subseteq Cids \ Unused(Cids)
    BY <1>1, <2>2 DEF LinkInv, Types, Unused, Every
  <2> QED BY <1>1, <2>3
          DEF LinkInv, Types, MapInv, PeerIndex, ComposerIndex, TypeOK, Every
<1> QED BY <1>1, MapAlways, PTL

\* Between two steps of any threads the maps agree: a registered session is
\* in its peer's list exactly once, and no peer leads to an id that is gone
\* (erase_peer_id, disconnect, claim_disconnect, on_failed, shutdown).
THEOREM LinkMapsAgree == Spec => []MapsAgree
<1>1. ASSUME LinkInv, MapInv PROVE MapsAgree
  <2>1. ASSUME NEW p \in Peers
        PROVE  /\ {peer_to_ids[p][i] : i \in DOMAIN peer_to_ids[p]} = SessionsOf(p)
               /\ Len(peer_to_ids[p]) = Cardinality(SessionsOf(p))
    <3>1. SessionsOf(p) \subseteq Ids
      BY <1>1 DEF SessionsOf, LinkInv, Types
    <3> QED BY <1>1, <3>1, HoldsAll DEF MapInv, PeerIndex
  <2>2. ASSUME NEW p \in Peers
        PROVE  {x \in composer_sessions : session[x].peer = p}
                  = {composer_peer_to_id[p]} \ {None}
    <3>1. /\ composer_peer_to_id[p] \in Cids \cup {None} /\ composer_sessions \subseteq Cids
          /\ \A x \in Cids : composer_peer_to_id[p] = x
                                <=> x \in composer_sessions /\ session[x].peer = p
      BY <1>1 DEF MapInv, ComposerIndex, LinkInv, Types
    <3>2. None \notin Cids
      BY LinkAssumption DEF LinkAssumption
    <3> QED BY <3>1, <3>2
  <2> QED BY <2>1, <2>2 DEF MapsAgree, SessionsOf
<1> QED BY <1>1, MapAlways, PTL
=============================================================================
