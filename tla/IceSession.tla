----------------------------- MODULE IceSession -----------------------------
(***************************************************************************)
(* One ICE session (IceSession in session.cpp): gathering over STUN and    *)
(* TURN, trickled remote candidates, connectivity checks, nomination,      *)
(* consent, restart and close.                                             *)
(*                                                                         *)
(* Handlers run one at a time on the session's strand, so each is one      *)
(* action.  close() is the exception: its caller stores Failed from        *)
(* another thread, at any point of a running handler, and posts the rest.  *)
(* A handler that stores the state after that moment overwrites it.        *)
(*                                                                         *)
(* The environment is the peer (any request or answer it may send to what  *)
(* this session signalled or sent, late and repeated answers included),    *)
(* the signalling channel, the STUN and TURN servers and the operator.     *)
(* MaxInputs bounds how many inputs of the peer, the channel and the       *)
(* operator one behaviour has; answers and timers are not bounded.         *)
(***************************************************************************)
EXTENDS IceChecks

CONSTANTS HostCands,     \* gathered in gather() itself, portmap included
          SrflxCand,     \* the candidate a STUN answer adds
          RelayCand,     \* the candidate a TURN allocation adds
          RelayAllowed,  \* the candidate filter admits RelayCand
          HasStun,       \* cfg_.stun_servers is not empty
          TurnServers,   \* how many TURN servers are tried
          Roles,         \* the roles (controlling?) it may be created with
          WinsTie,       \* tiebreaker_ >= the peer's
          Signalled,     \* endpoints the peer may signal
          Ufrags,        \* the peer's credentials, one per ICE restart
          ConsentMax,    \* cfg_.consent_max_failures
          MaxRecovery,   \* cfg_.consent_max_recovery
          MaxAttempts,   \* cfg_.auto_restart_max_attempts, 0 when disabled
          MaxInputs      \* bound

ASSUME SessionAssumption ==
    /\ HostCands \subseteq Locals
    /\ SrflxCand \in Locals
    /\ RelayCand \in Locals
    /\ RelayAllowed \in BOOLEAN
    /\ HasStun \in BOOLEAN
    /\ TurnServers \in Nat
    /\ Roles \subseteq BOOLEAN
    /\ WinsTie \in BOOLEAN
    /\ Signalled \subseteq Endpoints
    /\ Ufrags \subseteq Nat \ {0}
    /\ ConsentMax \in Nat \ {0}
    /\ MaxRecovery \in Nat
    /\ MaxAttempts \in Nat
    /\ MaxInputs \in Nat

VARIABLES s,        \* the session
          closing,  \* close(): not called, "marked", or its task has run
          inputs    \* how many bounded inputs have happened

vars == <<s, closing, inputs>>

States == {"New", "Gathering", "WaitingRemote", "Checking", "Connected",
           "Failed"}

Contexts == [end : Endpoints, relay : BOOLEAN] \cup {NoNom}

SessionType ==
    [state : States, controlling : BOOLEAN, local : SUBSET Locals,
     remote : SUBSET Endpoints, ufrag : Ufrags \cup {0},
     symmetric : BOOLEAN, check_list : CheckLists,
     nominee_selected : BOOLEAN, pending_nom : Contexts,
     nominated : Contexts,
     check_timer : BOOLEAN, wait_timer : BOOLEAN, wait_armed : BOOLEAN,
     keepalive_timer : BOOLEAN, consent_missed : 0..ConsentMax,
     recovery : 0..MaxRecovery, attempts : 0..MaxAttempts,
     backoff : BOOLEAN,
     stun_posted : BOOLEAN, probes : BOOLEAN, gather_timer : BOOLEAN,
     stun_gathered : BOOLEAN, turn_gathering : BOOLEAN,
     turn : {"None", "Allocating", "Allocated"}, turn_attempt : 0..TurnServers,
     turn_timer : BOOLEAN, turn_posted : BOOLEAN, alloc_posted : BOOLEAN,
     signalled : SUBSET Locals]

NewSession(controlling) ==
    [state |-> "New", controlling |-> controlling /\ ~Lite, local |-> {},
     remote |-> {}, ufrag |-> 0, symmetric |-> FALSE, check_list |-> NoPairs,
     nominee_selected |-> FALSE, pending_nom |-> NoNom, nominated |-> NoNom,
     check_timer |-> FALSE, wait_timer |-> FALSE, wait_armed |-> FALSE,
     keepalive_timer |-> FALSE, consent_missed |-> 0, recovery |-> 0,
     attempts |-> 0, backoff |-> FALSE,
     stun_posted |-> FALSE, probes |-> FALSE, gather_timer |-> FALSE,
     stun_gathered |-> FALSE, turn_gathering |-> FALSE, turn |-> "None",
     turn_attempt |-> 0, turn_timer |-> FALSE, turn_posted |-> FALSE,
     alloc_posted |-> FALSE, signalled |-> {}]

(***************************************************************************)
(* Gathering                                                               *)
(***************************************************************************)
\* on_gathered: the link signals the candidates of this moment to the peer.
on_gathered(t) == [t EXCEPT !.signalled = t.local]

on_gathering_complete(t) ==
    LET quiet == [t EXCEPT !.probes = FALSE, !.gather_timer = FALSE]
    IN on_gathered(
         IF t.state # "Gathering" THEN quiet
         ELSE IF t.remote # {} THEN StartChecking(quiet)
         ELSE [quiet EXCEPT !.state = "WaitingRemote"])

\* TURN is settled; without STUN, or after its answer, gathering is over.
TurnSettled(t) ==
    LET settled == [t EXCEPT !.turn_gathering = FALSE]
    IN IF t.stun_gathered \/ ~HasStun THEN on_gathering_complete(settled)
       ELSE settled

\* built: build_turn_client finds a carrier for the server's transport
try_next_turn_attempt(t, built) ==
    LET idle == [t EXCEPT !.turn = "None", !.turn_timer = FALSE,
                          !.turn_posted = FALSE]
    IN IF t.turn_attempt >= TurnServers THEN TurnSettled(idle)
       ELSE IF built
       THEN [idle EXCEPT !.turn = "Allocating", !.turn_timer = TRUE]
       ELSE [idle EXCEPT !.turn_attempt = @ + 1, !.turn_posted = TRUE]

gather_relay(t, built) ==
    IF TurnServers = 0 THEN t
    ELSE try_next_turn_attempt(
           [t EXCEPT !.turn_gathering = TRUE, !.turn_attempt = 0], built)

\* The interfaces do not change between two gatherings.
gather_host_candidates(t) == [t EXCEPT !.local = t.local \cup HostCands]

gather(t, built) ==
    LET begun == [t EXCEPT !.state = "Gathering"]
        relayed == gather_relay(gather_host_candidates(begun), built)
    IN IF HasStun THEN [relayed EXCEPT !.stun_posted = TRUE]
       ELSE IF relayed.turn_gathering THEN relayed
       ELSE on_gathering_complete(relayed)

\* Faulty variant of start_multi_stun_probes: no timeout bounds the wait.
ProbeUntimed(t, reached) ==
    LET begun == [t EXCEPT !.stun_posted = FALSE, !.probes = reached]
    IN IF reached THEN begun ELSE on_gathering_complete(begun)

\* reached: some server resolved to an endpoint the carrier opened
start_multi_stun_probes(t, reached) ==
    LET begun == [t EXCEPT !.stun_posted = FALSE, !.probes = reached]
    IN IF reached THEN [begun EXCEPT !.gather_timer = TRUE]
       ELSE on_gathering_complete(begun)

handle_gather_response(t) ==
    LET heard == [t EXCEPT !.probes = FALSE, !.stun_gathered = TRUE,
                           !.local = t.local \cup {SrflxCand}]
    IN IF t.stun_gathered THEN heard
       ELSE IF t.turn_gathering THEN [heard EXCEPT !.gather_timer = TRUE]
       ELSE on_gathering_complete(heard)

\* The task on_alloc posts: the relay candidate joins, or is filtered out.
on_alloc(t) ==
    LET taken == [t EXCEPT !.alloc_posted = FALSE, !.turn_timer = FALSE]
        joined == TurnSettled([taken EXCEPT !.local = @ \cup {RelayCand}])
        rebuilt == run_next_check(build_check_list(joined), {})
    IN IF ~RelayAllowed THEN taken
       ELSE IF joined.remote = {} \/ joined.state # "Checking" THEN joined
       ELSE IF rebuilt.controlling THEN rebuilt
       ELSE on_gathered(rebuilt)

(***************************************************************************)
(* Restart, nomination and consent                                         *)
(***************************************************************************)
\* Faulty variant of restart: a session that has failed starts over.
RestartFailed(t, built) ==
    gather([NewSession(t.controlling) EXCEPT
              !.pending_nom = t.pending_nom,
              !.attempts = t.attempts, !.backoff = t.backoff,
              !.stun_posted = t.stun_posted, !.turn_posted = t.turn_posted,
              !.alloc_posted = t.alloc_posted], built)

\* What restart() leaves alone: the role, the deferred nomination, the
\* auto-restart budget, and tasks that are already posted.
restart(t, built) ==
    LET fresh == [NewSession(t.controlling) EXCEPT
                    !.controlling = t.controlling,
                    !.pending_nom = t.pending_nom,
                    !.attempts = t.attempts, !.backoff = t.backoff]
    IN IF t.state = "Failed" THEN t
       ELSE gather([fresh EXCEPT !.stun_posted = t.stun_posted,
                                 !.turn_posted = t.turn_posted,
                                 !.alloc_posted = t.alloc_posted], built)

\* early: the previous auto-restart is less than the backoff ago
notify_consent_loss(t, early, built) ==
    IF t.attempts >= MaxAttempts THEN Fail(t)
    ELSE IF t.backoff /\ early THEN [t EXCEPT !.consent_missed = 0]
    ELSE restart([t EXCEPT !.attempts = @ + 1, !.backoff = TRUE,
                           !.consent_missed = 0], built)

on_keepalive(t, early, built) ==
    LET missed == [t EXCEPT !.consent_missed = @ + 1]
    IN IF t.state # "Connected" \/ Lite THEN t
       ELSE IF missed.consent_missed < ConsentMax
       THEN [missed EXCEPT !.keepalive_timer = TRUE]
       ELSE IF t.recovery < MaxRecovery
       THEN StartChecking([missed EXCEPT !.recovery = @ + 1,
                                         !.consent_missed = 0])
       ELSE notify_consent_loss(missed, early, built)

\* Faulty variant of on_nominated: the backoff of an earlier restart stays.
NominatedInBackoff(t, context, built) ==
    on_keepalive(
        [t EXCEPT !.state = "Connected", !.nominated = context,
                  !.check_timer = FALSE, !.wait_timer = FALSE,
                  !.wait_armed = FALSE, !.consent_missed = 0,
                  !.recovery = 0, !.attempts = 0],
        FALSE, built)

\* Faulty variant of on_nominated: the restart budget is not renewed.
NominatedOnBudget(t, context, built) ==
    on_keepalive(
        [t EXCEPT !.state = "Connected", !.nominated = context,
                  !.check_timer = FALSE, !.wait_timer = FALSE,
                  !.wait_armed = FALSE, !.consent_missed = 0,
                  !.recovery = 0, !.backoff = FALSE],
        FALSE, built)

on_nominated(t, context, built) ==
    on_keepalive(
        [t EXCEPT !.state = "Connected", !.nominated = context,
                  !.check_timer = FALSE, !.wait_timer = FALSE,
                  !.wait_armed = FALSE, !.consent_missed = 0,
                  !.recovery = 0, !.attempts = 0, !.backoff = FALSE],
        FALSE, built)

handle_check_response(t, p, built) ==
    LET list == Complete([t.check_list EXCEPT ![p].valid = TRUE],
                         p, "Succeeded")
        good == [t EXCEPT !.check_list = list]
        deferred == [t EXCEPT !.check_list =
                                  [list EXCEPT ![p].pending = FALSE]]
        own == [end |-> p[2],
                relay |-> p[1] \in RelayLocals \/ p[2] \in RelayEnds]
    IN IF t.state # "Checking" THEN t
       ELSE IF ~t.controlling
       THEN IF t.check_list[p].pending
            THEN on_nominated(deferred, t.pending_nom, built)
            ELSE good
       ELSE IF Aggressive \/ t.check_list[p].nominee
       THEN on_nominated(good, own, built)
       ELSE IF t.nominee_selected \/ t.check_list[p].valid THEN good
       ELSE select_nominee(good)

(***************************************************************************)
(* The peer's requests and signals                                         *)
(***************************************************************************)
\* Faulty variant of use_candidate: a listed pair is nominated unverified.
UseUnverified(t, context, elapsed, built) ==
    IF \E p \in Listed(t.check_list) : p[2] = context.end
    THEN on_nominated(t, context, built)
    ELSE run_next_check([t EXCEPT !.pending_nom = context], elapsed)

use_candidate(t, context, elapsed, built) ==
    LET match == {p \in Listed(t.check_list) : p[2] = context.end}
        p == First(match)
        pair == t.check_list[p]
        noted == [t EXCEPT !.pending_nom = context]
        marked == [noted EXCEPT !.check_list = [t.check_list EXCEPT ![p] =
                     [pair EXCEPT !.pending = TRUE,
                                  !.state = IF pair.state = "Frozen"
                                            THEN "Waiting" ELSE pair.state]]]
    IN IF match = {} THEN run_next_check(noted, elapsed)
       ELSE IF pair.state = "Succeeded"
       THEN on_nominated(t, context, built)
       ELSE run_next_check(marked, elapsed)

handle_binding_request(t, context, peerControls, named, elapsed, built) ==
    LET conflict == peerControls = t.controlling
        played == IF conflict THEN switch_role(t) ELSE t
        marked == IF named /\ ~played.controlling
                  THEN use_candidate(played, context,
                                     IF conflict THEN {} ELSE elapsed, built)
                  ELSE played
    IN IF conflict /\ WinsTie THEN t
       ELSE maybe_trigger_check_from_peer(marked, context.end)

add_remote_candidates(t, ufrag, ends, eoc) ==
    LET changed == t.ufrag # 0 /\ t.ufrag # ufrag
        fresh == [t EXCEPT
                    !.ufrag = ufrag,
                    !.check_list = IF changed THEN NoPairs ELSE t.check_list]
        picked == IF /\ eoc /\ t.controlling /\ ~Aggressive
                     /\ ~t.nominee_selected
                  THEN select_nominee(fresh) ELSE fresh
        remote == IF changed THEN ends ELSE picked.remote \cup ends
        merged == [picked EXCEPT !.remote = remote]
    IN IF remote = {} THEN merged
       ELSE IF t.state \in {"WaitingRemote", "Gathering"}
       THEN IF t.local = {} THEN merged
            ELSE StartChecking(IF t.controlling THEN merged
                               ELSE on_gathered(merged))
       ELSE IF t.state = "Checking"
       THEN run_next_check(build_check_list(merged), {})
       ELSE merged

set_peer_signal_flags(t, symmetric) ==
    LET flagged == [t EXCEPT !.symmetric = symmetric]
    IN IF symmetric = t.symmetric THEN t ELSE RebuildIfChecking(flagged)

CloseTask(t) ==
    [t EXCEPT !.check_timer = FALSE, !.keepalive_timer = FALSE,
              !.gather_timer = FALSE, !.turn_timer = FALSE,
              !.wait_timer = FALSE, !.wait_armed = FALSE,
              !.nominated = NoNom]

(***************************************************************************)
(* The session's actions                                                   *)
(***************************************************************************)
Init == /\ \E controlling \in Roles : s = NewSession(controlling)
        /\ closing = "No" /\ inputs = 0

\* A handler's outcome; close() may store Failed just before the handler
\* stores its own state.
Outcome(t) == /\ s' = t
              /\ \/ closing' = closing
                 \/ /\ closing = "No" /\ t.state # s.state
                    /\ closing' = "marked"

Handle(t) == Outcome(t) /\ UNCHANGED inputs

Input(t) == inputs < MaxInputs /\ inputs' = inputs + 1 /\ Outcome(t)

\* Whether a carrier serves the TURN server that is tried next.
Built == IF TurnServers = 0 THEN {FALSE} ELSE BOOLEAN

\* The carriers deliver until close()'s task has unsubscribed.
Subscribed == closing # "closed"

Gather == /\ s.state = "New" /\ closing = "No"
          /\ \E built \in Built : Handle(gather(s, built))

StunStart == /\ s.stun_posted
             /\ \E reached \in BOOLEAN :
                    Handle(start_multi_stun_probes(s, reached))

StunAnswer == Subscribed /\ s.probes /\ Handle(handle_gather_response(s))

GatherTimeout == s.gather_timer /\ Handle(on_gathering_complete(s))

TurnNext == /\ s.turn_posted
            /\ \E built \in Built : Handle(try_next_turn_attempt(s, built))

TurnTimeout ==
    /\ s.turn_timer
    /\ \/ /\ s.turn = "Allocated"
          /\ Handle([s EXCEPT !.turn_timer = FALSE])
       \/ /\ s.turn # "Allocated"
          /\ \E built \in Built : Handle(try_next_turn_attempt(
                 [s EXCEPT !.turn_timer = FALSE,
                           !.turn_attempt = s.turn_attempt + 1], built))

TurnAllocated == /\ Subscribed /\ s.turn = "Allocating"
                 /\ Handle([s EXCEPT !.turn = "Allocated",
                                     !.alloc_posted = TRUE])

OnAlloc == s.alloc_posted /\ Handle(on_alloc(s))

CheckTick(elapsed) ==
    /\ s.check_timer
    /\ Handle(run_next_check([s EXCEPT !.check_timer = FALSE], elapsed))

WaitExpires ==
    /\ s.wait_timer
    /\ Handle(IF s.state = "Connected" THEN [s EXCEPT !.wait_timer = FALSE]
              ELSE Fail([s EXCEPT !.wait_timer = FALSE]))

KeepaliveTick ==
    /\ s.keepalive_timer
    /\ \E early \in BOOLEAN, built \in Built :
          Handle(on_keepalive([s EXCEPT !.keepalive_timer = FALSE],
                              early, built))

CheckAnswer(p) ==
    /\ Subscribed /\ s.state # "Connected" /\ s.check_list[p].retries > 0
    /\ \E built \in Built : Handle(handle_check_response(s, p, built))

\* A late check's or a path-MTU probe's answer refreshes consent.
ConsentAnswer == /\ Subscribed /\ s.state = "Connected"
                 /\ Handle([s EXCEPT !.consent_missed = 0])

CheckError(p) == /\ Subscribed /\ s.check_list[p].retries > 0
                 /\ Input(on_check_error(s, p))

\* A 487 answer is not matched to the check it answers.
RoleConflictAnswer == /\ Subscribed /\ ~WinsTie /\ s.ufrag # 0
                      /\ Input(switch_role(s))

InFlight == In(s.check_list, {"InProgress"})

BindingRequest ==
    /\ Subscribed /\ s.signalled # {}
    /\ \E e \in Endpoints, relay, peerControls, useCandidate \in BOOLEAN,
          elapsed \in SUBSET InFlight, built \in Built :
          /\ relay => s.turn = "Allocated"
          /\ useCandidate => peerControls
          /\ Input(handle_binding_request(s, [end |-> e, relay |-> relay],
                       peerControls, useCandidate, elapsed, built))

RemoteCandidates ==
    /\ s.state # "New"
    /\ \E ufrag \in Ufrags, ends \in SUBSET Signalled, eoc \in BOOLEAN :
          Input(add_remote_candidates(s, ufrag, ends, eoc))

PeerFlags == \E symmetric \in BOOLEAN :
                Input(set_peer_signal_flags(s, symmetric))

\* Restart by the operator, or by the link when an interface changes.
Restart == s.state # "New" /\ \E built \in Built : Input(restart(s, built))

Close == /\ closing = "No" /\ closing' = "marked"
         /\ s' = Fail(s) /\ UNCHANGED inputs

CloseTaskRuns == /\ closing = "marked" /\ closing' = "closed"
                 /\ s' = CloseTask(s) /\ UNCHANGED inputs

Next == \/ Gather \/ StunStart \/ StunAnswer \/ GatherTimeout
        \/ TurnNext \/ TurnTimeout \/ TurnAllocated \/ OnAlloc
        \/ \E elapsed \in SUBSET InFlight : CheckTick(elapsed)
        \/ WaitExpires \/ KeepaliveTick
        \/ \E p \in Pairs : CheckAnswer(p) \/ CheckError(p)
        \/ ConsentAnswer \/ RoleConflictAnswer \/ BindingRequest
        \/ RemoteCandidates \/ PeerFlags \/ Restart
        \/ Close \/ CloseTaskRuns

\* Timers fire and posted tasks run; nothing is assumed of the peer, the
\* servers or the operator.
Fairness == /\ WF_vars(StunStart) /\ WF_vars(GatherTimeout)
            /\ WF_vars(TurnNext) /\ WF_vars(TurnTimeout)
            /\ WF_vars(OnAlloc) /\ WF_vars(CheckTick(InFlight))
            /\ WF_vars(WaitExpires) /\ WF_vars(KeepaliveTick)
            /\ WF_vars(CloseTaskRuns)

Spec == Init /\ [][Next]_vars

FairSpec == Spec /\ Fairness

(***************************************************************************)
(* Properties                                                              *)
(***************************************************************************)
\* The members stay in their types: counters within their budgets, every
\* listed pair well formed.
TypeOK == /\ s \in SessionType
          /\ closing \in {"No", "marked", "closed"}
          /\ inputs \in 0..MaxInputs

\* A session that is checking has a timer that will move it on: whichever
\* handler ran last, run_next_check armed the check timer, or left the
\* nomination wait to run out (session.cpp run_next_check).
NoLostWakeup == s.state = "Checking" /\ ~Lite /\ Subscribed
                    => s.check_timer \/ s.wait_timer

\* A connected session always has its next consent check scheduled: no path
\* through on_keepalive, consent recovery, auto-restart and its backoff
\* leaves a session connected and unwatched.
ConsentWatched == s.state = "Connected" /\ ~Lite /\ Subscribed
                      => s.keepalive_timer

\* A Frozen pair waits for a sibling that is still to complete, so that the
\* fallback unfreeze_stuck_pairs ("defensive") never has anything to do.
FrozenHasLeader == Led(s.check_list)

\* The controller commits to one pair: no two pairs of a list carry
\* USE-CANDIDATE checks, and none does before nominee_selected_ is set.
OneNominee ==
    /\ Sole(s.check_list)
    /\ \A p \in Pairs : s.check_list[p].nominee => s.nominee_selected

\* The scheduler keeps its own checks within kCheckConcurrencyCap; only
\* triggered checks, which bypass the queue, come on top.
CapRespected ==
    Cardinality({p \in InFlight : ~s.check_list[p].triggered}) <= Cap

\* A connected session has its whole auto-restart budget and no backoff to
\* wait for, whatever losses of consent, restarts and nominations came before,
\* so its next loss of consent is neither refused nor dropped (README.md:77,
\* "Counter resets on successful nomination").  The comment on
\* auto_restart_attempts_ in session.hpp says otherwise, that only restart()
\* by the operator resets it: restart() does not touch the counter.
RestartBudget == s.state = "Connected" => s.attempts = 0 /\ ~s.backoff

\* A session becomes connected only after one of its checks was answered,
\* and a controlling one only to an endpoint whose own check was.
ConnectsOnAnswer ==
    [][s.state # "Connected" /\ s'.state = "Connected"
         => \E p \in Valid(s'.check_list) :
               s'.controlling => p[2] = s'.nominated.end]_vars

\* Checking ends, in a nomination or a failure, once the peer's and the
\* operator's inputs stop: retries, the cap and the wait are all bounded.
CheckingEnds == s.state = "Checking" /\ closing = "No"
                    ~> s.state # "Checking" \/ closing # "No"

\* Gathering ends with the local candidates signalled to the peer, whatever
\* the STUN and TURN servers do (gather, on_gathering_complete).
GatherCompletes ==
    s.state = "Gathering" /\ closing = "No"
        ~> (s.state # "Gathering" /\ s.signalled # {}) \/ closing # "No"

\* What the link can tell of a session.
LifeOf(t) == IF t.state \in {"Gathering", "WaitingRemote", "Checking"}
             THEN "Running" ELSE t.state

Life == INSTANCE SessionLife WITH life <- LifeOf(s), closed <- closing # "No"

\* The session implements the life cycle its link relies on: it starts once,
\* connects only while it runs or after it failed, fails only once it was
\* started or closed, and never starts over after a failure.
ImplementsLife == Life!Spec

\* "making the session declare Failed while checks are still in flight"
\* (run_next_check) must not happen: no session fails with the answer to
\* its USE-CANDIDATE check outstanding.
NomineeNotAbandoned ==
    [][s.state = "Checking" /\ s'.state = "Failed" /\ closing' = "No"
         => ~\E p \in Pairs : /\ s.check_list[p].nominee
                             /\ s.check_list[p].state = "Succeeded"]_vars

\* "controlled agent must not transition to Connected until the nominated
\* pair's connectivity check succeeds" (handle_binding_request).
NominatedPairVerified ==
    [][s.state # "Connected" /\ s'.state = "Connected"
         => \E p \in Valid(s'.check_list) : p[2] = s'.nominated.end]_vars

\* close() marks "the FSM dead synchronously".
ClosedIsDead == closing = "closed" => s.state = "Failed"
=============================================================================
