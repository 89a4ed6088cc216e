-------------------------- MODULE SessionLifeProofs --------------------------
(***************************************************************************)
(* A session implements the life cycle of SessionLife, for every set of    *)
(* candidates, every role and any number of inputs, when more than one     *)
(* consent check may be missed.  Each handler is shown to leave new and    *)
(* failed sessions alone (Tame); on_nominated is the exception.            *)
(*                                                                         *)
(* The second part is about how a session becomes connected: a handler     *)
(* leaves it unconnected and its check list fit (Calm), or connects it by  *)
(* an answer (Earned).  Whatever a fit list goes through, no more of the   *)
(* scheduler's own checks are in flight than the cap admits.               *)
(*                                                                         *)
(* The third part is about gathering: a session that gathers has a timer   *)
(* running or a task posted that will move it on (Tended).                 *)
(***************************************************************************)
EXTENDS IceSessionProofs, FiniteSetTheorems

\* Zenon proves most of the leaves, and does so faster than SMT.
USE ZenonT(4), SMTT(20), ZenonT(20)

\* All that these lemmas need of a session record.
Rec(t) == /\ "state" \in DOMAIN t /\ "remote" \in DOMAIN t
          /\ "consent_missed" \in DOMAIN t

\* A handler starts no session that is new or failed, and makes none new.
Tame(t, u) == /\ Rec(u)
              /\ t.state \in {"New", "Failed"} => u.state = t.state
              /\ t.state # "New" => u.state # "New"

\* A session that gathers and knows no remote candidate.
Bare(t) == /\ Rec(t)
           /\ t.state \in {"Gathering", "WaitingRemote"}
           /\ t.remote = {}

\* The driver fails checking sessions only.
LEMMA RunNextTame ==
    ASSUME NEW t, Rec(t), NEW elapsed
    PROVE  /\ Tame(t, run_next_check(t, elapsed))
           /\ run_next_check(t, elapsed).state \in {t.state, "Failed"}
BY DEF run_next_check, Tame, Rec, Fail

\* Building the check list moves no session.
LEMMA BuildTame ==
    ASSUME NEW t, Rec(t)
    PROVE  Rec(build_check_list(t)) /\ build_check_list(t).state = t.state
BY DEF build_check_list, Rec

\* Checks that start leave the session checking or failed.
LEMMA StartTame ==
    ASSUME NEW t, Rec(t)
    PROVE  /\ Rec(StartChecking(t))
           /\ StartChecking(t).state \in {"Checking", "Failed"}
<1> DEFINE u == build_check_list([t EXCEPT !.state = "Checking"])
<1>1. Rec([t EXCEPT !.state = "Checking"]) /\ [t EXCEPT !.state = "Checking"].state = "Checking"
  BY DEF Rec
<1>2. Rec(u) /\ u.state = "Checking"
  BY <1>1, BuildTame
<1>3. StartChecking(t) = begin_checks(u)
  BY DEF StartChecking
<1> HIDE DEF u
<1>4. \A dl : Rec([u EXCEPT !.check_list = dl]) /\ [u EXCEPT !.check_list = dl].state = "Checking"
  BY <1>2 DEF Rec
<1>5. \/ begin_checks(u) = u
      \/ \E dl : begin_checks(u) = run_next_check([u EXCEPT !.check_list = dl], {})
  BY DEF begin_checks
<1>6. ASSUME NEW dl
      PROVE  /\ Rec(run_next_check([u EXCEPT !.check_list = dl], {}))
             /\ run_next_check([u EXCEPT !.check_list = dl], {}).state
                  \in {"Checking", "Failed"}
  BY <1>4, RunNextTame DEF Tame
<1> QED BY <1>2, <1>3, <1>5, <1>6

\* Gathering that completes starts the checks of a gathering session only,
\* and only with remote candidates.
LEMMA GatheringCompleteTame ==
    ASSUME NEW t, Rec(t)
    PROVE  /\ Tame(t, on_gathering_complete(t))
           /\ Bare(t) => Bare(on_gathering_complete(t))
<1> DEFINE quiet == [t EXCEPT !.probes = FALSE, !.gather_timer = FALSE]
           idle == [quiet EXCEPT !.state = "WaitingRemote"]
<1>1. Rec(quiet) /\ quiet.state = t.state /\ (Bare(t) => Bare(quiet))
  BY DEF Rec, Bare
<1>2. Rec(idle) /\ idle.state = "WaitingRemote" /\ (Bare(t) => Bare(idle))
  BY <1>1 DEF Rec, Bare
<1>3. ASSUME NEW u, Rec(u)
      PROVE  /\ Rec(on_gathered(u)) /\ on_gathered(u).state = u.state
             /\ Bare(u) => Bare(on_gathered(u))
  BY <1>3 DEF Rec, Bare, on_gathered
<1>4. on_gathering_complete(t) =
        on_gathered(IF t.state # "Gathering" THEN quiet
                    ELSE IF t.remote # {} THEN StartChecking(quiet)
                    ELSE idle)
  BY DEF on_gathering_complete
<1> HIDE DEF quiet, idle
<1>5. CASE t.state # "Gathering"
  BY <1>1, <1>3, <1>4, <1>5 DEF Tame
<1>6. CASE t.state = "Gathering" /\ t.remote # {}
  BY <1>1, <1>3, <1>4, <1>6, StartTame DEF Tame, Bare
<1>7. CASE t.state = "Gathering" /\ t.remote = {}
  BY <1>2, <1>3, <1>4, <1>7 DEF Tame
<1> QED BY <1>5, <1>6, <1>7

\* The same for the end of the TURN walk and for its steps.
LEMMA SettledTame ==
    ASSUME NEW t, Rec(t)
    PROVE  Tame(t, TurnSettled(t)) /\ (Bare(t) => Bare(TurnSettled(t)))
<1> DEFINE u == [t EXCEPT !.turn_gathering = FALSE]
<1>1. Rec(u) /\ u.state = t.state /\ (Bare(t) => Bare(u))
  BY DEF Rec, Bare
<1>2. TurnSettled(t) \in {u, on_gathering_complete(u)}
  BY DEF TurnSettled
<1> HIDE DEF u
<1>3. Tame(u, on_gathering_complete(u)) /\ (Bare(u) => Bare(on_gathering_complete(u)))
  BY <1>1, GatheringCompleteTame
<1> QED BY <1>1, <1>2, <1>3 DEF Tame

\* The next TURN attempt starts no session and revives none.
LEMMA AttemptTame ==
    ASSUME NEW t, Rec(t), NEW built
    PROVE  /\ Tame(t, try_next_turn_attempt(t, built))
           /\ Bare(t) => Bare(try_next_turn_attempt(t, built))
<1> DEFINE idle == [t EXCEPT !.turn = "None", !.turn_timer = FALSE,
                             !.turn_posted = FALSE]
           trying == [idle EXCEPT !.turn = "Allocating", !.turn_timer = TRUE]
           next == [idle EXCEPT !.turn_attempt = @ + 1, !.turn_posted = TRUE]
<1>1. Rec(idle) /\ idle.state = t.state /\ (Bare(t) => Bare(idle))
  BY DEF Rec, Bare
<1>2. try_next_turn_attempt(t, built) \in {TurnSettled(idle), trying, next}
  BY DEF try_next_turn_attempt
<1> HIDE DEF idle
<1>3. Rec(trying) /\ trying.state = idle.state /\ (Bare(idle) => Bare(trying))
  BY <1>1 DEF Rec, Bare
<1>4. Rec(next) /\ next.state = idle.state /\ (Bare(idle) => Bare(next))
  BY <1>1 DEF Rec, Bare
<1> HIDE DEF trying, next
<1>5. Tame(idle, TurnSettled(idle)) /\ (Bare(idle) => Bare(TurnSettled(idle)))
  BY <1>1, SettledTame
<1> QED BY <1>1, <1>2, <1>3, <1>4, <1>5 DEF Tame

\* A session that has gathered is not new; without remote candidates it does
\* not get as far as the checks.
LEMMA GatherTame ==
    ASSUME NEW t, Rec(t), NEW built
    PROVE  /\ Rec(gather(t, built)) /\ gather(t, built).state # "New"
           /\ t.remote = {} => Bare(gather(t, built))
<1> DEFINE u == gather_host_candidates([t EXCEPT !.state = "Gathering"])
           v == [u EXCEPT !.turn_gathering = TRUE, !.turn_attempt = 0]
           relayed == gather_relay(u, built)
           w == [relayed EXCEPT !.stun_posted = TRUE]
           bare == t.remote = {}
<1>1. Rec(u) /\ u.state = "Gathering" /\ (bare => Bare(u))
  BY DEF Rec, Bare, gather_host_candidates
<1>2. gather(t, built) \in {relayed, w, on_gathering_complete(relayed)}
  BY DEF gather
<1> HIDE DEF u
<1>3. Rec(v) /\ v.state = "Gathering" /\ (bare => Bare(v))
  BY <1>1 DEF Rec, Bare
<1>4. relayed \in {u, try_next_turn_attempt(v, built)}
  BY DEF gather_relay
<1> HIDE DEF v, bare
<1>5. Rec(relayed) /\ relayed.state # "New" /\ (bare => Bare(relayed))
  BY <1>1, <1>3, <1>4, AttemptTame DEF Tame
<1> HIDE DEF relayed
<1>6. Rec(w) /\ w.state = relayed.state /\ (Bare(relayed) => Bare(w))
  BY <1>5 DEF Rec, Bare
<1> HIDE DEF w
<1>7. /\ Tame(relayed, on_gathering_complete(relayed))
      /\ Bare(relayed) => Bare(on_gathering_complete(relayed))
  BY <1>5, GatheringCompleteTame
<1>8. /\ Rec(gather(t, built)) /\ gather(t, built).state # "New"
      /\ bare => Bare(gather(t, built))
  BY <1>2, <1>5, <1>6, <1>7 DEF Tame
<1> QED BY <1>8 DEF bare

\* A session that has failed is not restarted.
LEMMA RestartTame ==
    ASSUME NEW t, Rec(t), t.state # "New", NEW built
    PROVE  /\ Tame(t, restart(t, built))
           /\ t.state # "Failed" => Bare(restart(t, built))
<1> DEFINE fresh == [NewSession(t.controlling) EXCEPT
                       !.controlling = t.controlling,
                       !.pending_nom = t.pending_nom,
                       !.attempts = t.attempts, !.backoff = t.backoff]
           u == [fresh EXCEPT !.stun_posted = t.stun_posted,
                              !.turn_posted = t.turn_posted,
                              !.alloc_posted = t.alloc_posted]
<1>1. Rec(fresh) /\ fresh.remote = {}
  BY DEF Rec, NewSession
<1>2. restart(t, built) = IF t.state = "Failed" THEN t ELSE gather(u, built)
  BY DEF restart
<1> HIDE DEF fresh
<1>3. Rec(u) /\ u.remote = {}
  BY <1>1 DEF Rec
<1> HIDE DEF u
<1> QED BY <1>2, <1>3, GatherTame DEF Tame, Bare

-----------------------------------------------------------------------------

\* A missed consent check disturbs connected sessions only; the first after a
\* nomination does no more than to arm the timer.
LEMMA KeepaliveTame ==
    ASSUME NEW t, Rec(t), NEW early, NEW built
    PROVE  /\ Tame(t, on_keepalive(t, early, built))
           /\ t.state = "Connected" /\ t.consent_missed = 0 /\ ConsentMax > 1
                => on_keepalive(t, early, built).state = "Connected"
<1> DEFINE missed == [t EXCEPT !.consent_missed = @ + 1]
           again == [missed EXCEPT !.keepalive_timer = TRUE]
           recovering == [missed EXCEPT !.recovery = @ + 1, !.consent_missed = 0]
           waiting == [missed EXCEPT !.consent_missed = 0]
           trying == [missed EXCEPT !.attempts = @ + 1, !.backoff = TRUE,
                                    !.consent_missed = 0]
           lost == notify_consent_loss(missed, early, built)
<1>1. /\ Rec(missed) /\ missed.state = t.state
      /\ t.consent_missed = 0 => missed.consent_missed = 1
  BY DEF Rec
<1>2. on_keepalive(t, early, built) =
        IF t.state # "Connected" \/ Lite THEN t
        ELSE IF missed.consent_missed < ConsentMax THEN again
        ELSE IF t.recovery < MaxRecovery THEN StartChecking(recovering)
        ELSE lost
  BY DEF on_keepalive
<1>3. lost \in {Fail(missed), waiting, restart(trying, built)}
  BY DEF notify_consent_loss
<1> HIDE DEF missed, lost
<1>4. Rec(again) /\ again.state = t.state
  BY <1>1 DEF Rec
<1>5. Rec(recovering)
  BY <1>1 DEF Rec
<1>6. Rec(waiting) /\ waiting.state = t.state
  BY <1>1 DEF Rec
<1>7. Rec(trying) /\ trying.state = t.state
  BY <1>1 DEF Rec
<1>8. Rec(Fail(missed)) /\ Fail(missed).state = "Failed"
  BY <1>1 DEF Rec, Fail
<1> HIDE DEF again, recovering, waiting, trying
<1>9. Rec(StartChecking(recovering)) /\ StartChecking(recovering).state # "New"
  BY <1>5, StartTame
<1>10. t.state = "Connected" => Rec(lost) /\ lost.state # "New"
  BY <1>3, <1>6, <1>7, <1>8, RestartTame DEF Tame
<1>11. CASE t.state # "Connected" \/ Lite
  BY <1>2, <1>11 DEF Tame
<1>12. CASE t.state = "Connected" /\ ~Lite
  <2>1. t.consent_missed = 0 /\ ConsentMax > 1 => missed.consent_missed < ConsentMax
    BY <1>1
  <2> QED BY <1>2, <1>4, <1>9, <1>10, <1>12, <2>1 DEF Tame
<1> QED BY <1>11, <1>12

\* A nomination connects the session, whatever it was.
LEMMA NominatedConnects ==
    ASSUME NEW t, Rec(t), NEW context, NEW built, ConsentMax > 1
    PROVE  /\ Rec(on_nominated(t, context, built))
           /\ on_nominated(t, context, built).state = "Connected"
<1> DEFINE u == [t EXCEPT !.state = "Connected", !.nominated = context,
                  !.check_timer = FALSE, !.wait_timer = FALSE,
                  !.wait_armed = FALSE, !.consent_missed = 0,
                  !.recovery = 0, !.attempts = 0, !.backoff = FALSE]
<1>1. Rec(u) /\ u.state = "Connected" /\ u.consent_missed = 0
  BY DEF Rec
<1>2. on_nominated(t, context, built) = on_keepalive(u, FALSE, built)
  BY DEF on_nominated
<1> HIDE DEF u
<1>3. Tame(u, on_keepalive(u, FALSE, built))
  BY <1>1, KeepaliveTame
<1>4. on_keepalive(u, FALSE, built).state = "Connected"
  BY <1>1, KeepaliveTame
<1> QED BY <1>2, <1>3, <1>4 DEF Tame

\* Selecting the nominee moves no session.
LEMMA SelectTame ==
    ASSUME NEW t, Rec(t)
    PROVE  Rec(select_nominee(t)) /\ select_nominee(t).state = t.state
BY DEF Rec, select_nominee

\* An answer moves checking sessions only.
LEMMA ResponseTame ==
    ASSUME NEW t, Rec(t), NEW p, NEW built, ConsentMax > 1
    PROVE  Tame(t, handle_check_response(t, p, built))
<1> DEFINE set(dl) == [t EXCEPT !.check_list = dl]
           good == set(Complete([t.check_list EXCEPT ![p].valid = TRUE], p, "Succeeded"))
<1>1. \A dl : Rec(set(dl)) /\ set(dl).state = t.state
  BY DEF Rec
<1>2. CASE t.state # "Checking"
  BY <1>2 DEF handle_check_response, Tame
<1>3. CASE t.state = "Checking"
  <2>1. \/ handle_check_response(t, p, built) \in {good, select_nominee(good)}
        \/ \E dl, context : handle_check_response(t, p, built)
                              = on_nominated(set(dl), context, built)
    BY <1>3 DEF handle_check_response
  <2>2. Rec(good) /\ good.state = "Checking"
    BY <1>1, <1>3
  <2> HIDE DEF good, set
  <2>3. Rec(select_nominee(good)) /\ select_nominee(good).state = "Checking"
    BY <2>2, SelectTame
  <2>4. \A dl, context : /\ Rec(on_nominated(set(dl), context, built))
                         /\ on_nominated(set(dl), context, built).state = "Connected"
    BY <1>1, NominatedConnects
  <2> QED BY <1>3, <2>1, <2>2, <2>3, <2>4 DEF Tame
<1> QED BY <1>2, <1>3

-----------------------------------------------------------------------------

\* The answers and tasks of gathering.
LEMMA StunTame ==
    ASSUME NEW t, Rec(t), NEW reached
    PROVE  /\ Tame(t, start_multi_stun_probes(t, reached))
           /\ Tame(t, handle_gather_response(t))
<1> DEFINE begun == [t EXCEPT !.stun_posted = FALSE, !.probes = reached]
           heard == [t EXCEPT !.probes = FALSE, !.stun_gathered = TRUE,
                              !.local = t.local \cup {SrflxCand}]
           timed(u) == [u EXCEPT !.gather_timer = TRUE]
<1>1. Rec(begun) /\ begun.state = t.state /\ Rec(heard) /\ heard.state = t.state
  BY DEF Rec
<1>2. /\ start_multi_stun_probes(t, reached) \in {timed(begun), on_gathering_complete(begun)}
      /\ handle_gather_response(t) \in {heard, timed(heard), on_gathering_complete(heard)}
  BY DEF start_multi_stun_probes, handle_gather_response
<1> HIDE DEF begun, heard
<1>3. ASSUME NEW u, Rec(u) PROVE Rec(timed(u)) /\ timed(u).state = u.state
  BY <1>3 DEF Rec
<1> HIDE DEF timed
<1>4. Tame(begun, on_gathering_complete(begun)) /\ Tame(heard, on_gathering_complete(heard))
  BY <1>1, GatheringCompleteTame
<1>5. Tame(t, start_multi_stun_probes(t, reached))
  BY <1>1, <1>2, <1>3, <1>4 DEF Tame
<1>6. Tame(t, handle_gather_response(t))
  BY <1>1, <1>2, <1>3, <1>4 DEF Tame
<1> QED BY <1>5, <1>6

\* A list that is rebuilt under way.
LEMMA RebuildTame ==
    ASSUME NEW t, Rec(t)
    PROVE  /\ Tame(t, run_next_check(build_check_list(t), {}))
           /\ Tame(t, RebuildIfChecking(t))
<1>1. Tame(t, run_next_check(build_check_list(t), {}))
  BY BuildTame, RunNextTame DEF Tame
<1> QED BY <1>1 DEF RebuildIfChecking, Tame

\* An allocation starts no session and revives none.
LEMMA AllocTame ==
    ASSUME NEW t, Rec(t)
    PROVE  Tame(t, on_alloc(t))
<1> DEFINE taken == [t EXCEPT !.alloc_posted = FALSE, !.turn_timer = FALSE]
           wider == [taken EXCEPT !.local = @ \cup {RelayCand}]
           joined == TurnSettled(wider)
           rebuilt == run_next_check(build_check_list(joined), {})
<1>1. Rec(taken) /\ taken.state = t.state
  BY DEF Rec
<1>2. on_alloc(t) \in {taken, joined, rebuilt, on_gathered(rebuilt)}
  BY DEF on_alloc
<1> HIDE DEF taken
<1>3. Rec(wider) /\ wider.state = t.state
  BY <1>1 DEF Rec
<1> HIDE DEF wider
<1>4. Tame(wider, joined)
  BY <1>3, SettledTame
<1> HIDE DEF joined
<1>5. Tame(joined, rebuilt)
  BY <1>4, RebuildTame DEF Tame
<1> HIDE DEF rebuilt
<1>6. Rec(on_gathered(rebuilt)) /\ on_gathered(rebuilt).state = rebuilt.state
  BY <1>5 DEF Tame, Rec, on_gathered
<1> QED BY <1>1, <1>2, <1>3, <1>4, <1>5, <1>6 DEF Tame

\* A switch of roles moves checking sessions only.
LEMMA SwitchTame ==
    ASSUME NEW t, Rec(t)
    PROVE  Tame(t, switch_role(t))
<1> DEFINE u == [t EXCEPT !.controlling = ~t.controlling]
<1>1. Rec(u) /\ u.state = t.state
  BY DEF Rec
<1>2. switch_role(t) = RebuildIfChecking(u)
  BY DEF switch_role
<1> HIDE DEF u
<1> QED BY <1>1, <1>2, RebuildTame DEF Tame

\* So do the peer's flags.
LEMMA FlagsTame ==
    ASSUME NEW t, Rec(t), NEW symmetric
    PROVE  Tame(t, set_peer_signal_flags(t, symmetric))
<1> DEFINE u == [t EXCEPT !.symmetric = symmetric]
<1>1. Rec(u) /\ u.state = t.state
  BY DEF Rec
<1>2. set_peer_signal_flags(t, symmetric) \in {t, RebuildIfChecking(u)}
  BY DEF set_peer_signal_flags
<1> HIDE DEF u
<1> QED BY <1>1, <1>2, RebuildTame DEF Tame

\* A triggered check moves no session.
LEMMA TriggerTame ==
    ASSUME NEW t, Rec(t), NEW e
    PROVE  /\ Rec(maybe_trigger_check_from_peer(t, e))
           /\ maybe_trigger_check_from_peer(t, e).state = t.state
<1>1. \/ maybe_trigger_check_from_peer(t, e) = t
      \/ \E dl : maybe_trigger_check_from_peer(t, e) = [t EXCEPT !.check_list = dl]
  BY DEF maybe_trigger_check_from_peer
<1> QED BY <1>1 DEF Rec

\* USE-CANDIDATE is the one input that connects a session in any state.
LEMMA UseTame ==
    ASSUME NEW t, Rec(t), NEW context, NEW elapsed, NEW built, ConsentMax > 1
    PROVE  \/ Tame(t, use_candidate(t, context, elapsed, built))
           \/ /\ Rec(use_candidate(t, context, elapsed, built))
              /\ use_candidate(t, context, elapsed, built).state = "Connected"
<1> DEFINE noted == [t EXCEPT !.pending_nom = context]
<1>1. Rec(noted) /\ noted.state = t.state
  BY DEF Rec
<1>2. \/ use_candidate(t, context, elapsed, built) = run_next_check(noted, elapsed)
      \/ use_candidate(t, context, elapsed, built) = on_nominated(t, context, built)
      \/ \E dl : use_candidate(t, context, elapsed, built)
                   = run_next_check([noted EXCEPT !.check_list = dl], elapsed)
  BY DEF use_candidate
<1> HIDE DEF noted
<1>3. ASSUME NEW dl
      PROVE  Tame(t, run_next_check([noted EXCEPT !.check_list = dl], elapsed))
  <2> DEFINE u == [noted EXCEPT !.check_list = dl]
  <2>1. Rec(u) /\ u.state = t.state
    BY <1>1 DEF Rec
  <2> HIDE DEF u
  <2>2. Tame(t, run_next_check(u, elapsed))
    BY <2>1, RunNextTame DEF Tame
  <2> QED BY <2>2 DEF u
<1>4. Tame(t, run_next_check(noted, elapsed))
  BY <1>1, RunNextTame DEF Tame
<1> QED BY <1>2, <1>3, <1>4, NominatedConnects

\* A request may connect the session, whatever its state; otherwise it is tame.
LEMMA RequestTame ==
    ASSUME NEW t, Rec(t), NEW context, NEW peerControls, NEW named, NEW elapsed,
           NEW built, ConsentMax > 1
    PROVE  LET u == handle_binding_request(t, context, peerControls, named,
                                           elapsed, built)
           IN Tame(t, u) \/ (Rec(u) /\ u.state = "Connected")
<1> DEFINE conflict == peerControls = t.controlling
           played == IF conflict THEN switch_role(t) ELSE t
           since == IF conflict THEN {} ELSE elapsed
           used == use_candidate(played, context, since, built)
           marked == IF named /\ ~played.controlling THEN used ELSE played
           result == handle_binding_request(t, context, peerControls, named,
                                            elapsed, built)
<1>1. result = IF conflict /\ WinsTie THEN t
               ELSE maybe_trigger_check_from_peer(marked, context.end)
  BY DEF handle_binding_request
<1>2. Tame(t, played)
  BY SwitchTame DEF Tame
<1> HIDE DEF conflict, played, since
<1>3. Tame(played, used) \/ (Rec(used) /\ used.state = "Connected")
  BY <1>2, UseTame DEF Tame
<1> HIDE DEF used
<1>4. Tame(t, marked) \/ (Rec(marked) /\ marked.state = "Connected")
  BY <1>2, <1>3 DEF Tame
<1> HIDE DEF marked
<1>5. /\ Rec(maybe_trigger_check_from_peer(marked, context.end))
      /\ maybe_trigger_check_from_peer(marked, context.end).state = marked.state
  BY <1>4, TriggerTame DEF Tame
<1> HIDE DEF result
<1>6. Tame(t, result) \/ (Rec(result) /\ result.state = "Connected")
  BY <1>1, <1>4, <1>5 DEF Tame
<1> QED BY <1>6 DEF result

\* A batch of candidates starts the checks of gathering and waiting sessions
\* only.
LEMMA CandidatesTame ==
    ASSUME NEW t, Rec(t), NEW ufrag, NEW ends, NEW eoc
    PROVE  Tame(t, add_remote_candidates(t, ufrag, ends, eoc))
<1> DEFINE changed == t.ufrag # 0 /\ t.ufrag # ufrag
           fresh == [t EXCEPT
                       !.ufrag = ufrag,
                       !.check_list = IF changed THEN NoPairs ELSE t.check_list]
           picked == IF /\ eoc /\ t.controlling /\ ~Aggressive
                        /\ ~t.nominee_selected
                     THEN select_nominee(fresh) ELSE fresh
           remote == IF changed THEN ends ELSE picked.remote \cup ends
           merged == [picked EXCEPT !.remote = remote]
           result == add_remote_candidates(t, ufrag, ends, eoc)
<1>1. Rec(fresh) /\ fresh.state = t.state
  BY DEF Rec
<1>2. \/ result = merged
      \/ /\ t.state \in {"WaitingRemote", "Gathering"}
         /\ result \in {StartChecking(merged), StartChecking(on_gathered(merged))}
      \/ /\ t.state = "Checking"
         /\ result = run_next_check(build_check_list(merged), {})
  BY DEF add_remote_candidates
<1> HIDE DEF changed, fresh, result
<1>3. Rec(picked) /\ picked.state = t.state
  BY <1>1, SelectTame
<1> HIDE DEF picked, remote
<1>4. Rec(merged) /\ merged.state = t.state
  BY <1>3 DEF Rec
<1> HIDE DEF merged
<1>5. Rec(on_gathered(merged))
  BY <1>4 DEF Rec, on_gathered
<1>6. Tame(t, result)
  BY <1>2, <1>4, <1>5, StartTame, RebuildTame DEF Tame
<1> QED BY <1>6 DEF result

-----------------------------------------------------------------------------

\* A new session has no timer, no task, no request and no candidate that a
\* handler could act on.
Fresh(t) == t.state = "New" =>
                /\ ~t.wait_timer /\ ~t.gather_timer /\ ~t.turn_timer
                /\ ~t.stun_posted /\ ~t.turn_posted /\ ~t.alloc_posted
                /\ ~t.probes /\ t.turn = "None"
                /\ t.signalled = {} /\ t.remote = {}

\* The members Fresh depends on.
Idle(t, u) == /\ u.state = t.state
              /\ u.wait_timer = t.wait_timer /\ u.gather_timer = t.gather_timer
              /\ u.turn_timer = t.turn_timer /\ u.stun_posted = t.stun_posted
              /\ u.turn_posted = t.turn_posted
              /\ u.alloc_posted = t.alloc_posted
              /\ u.probes = t.probes /\ u.turn = t.turn
              /\ u.signalled = t.signalled /\ u.remote = t.remote

\* The inductive invariant of the refinement.
LifeInv == SessionInv /\ Fresh(s)

\* The steps a handler may make a session take.
Step(t, u) == \/ Tame(t, u)
              \/ t.state # "New" /\ u.state = "Connected"
              \/ t.state = "New" /\ u.state \in {"Gathering", "WaitingRemote"}

\* A typed session is a record these lemmas apply to.
LEMMA TypeRec == ASSUME NEW t \in SessionType PROVE Rec(t) /\ t.state \in States
BY DEF SessionType, Rec

\* A handler's outcome is a step of the life cycle, also when close() was
\* called while it ran.
LEMMA OutcomeLife ==
    ASSUME s \in SessionType, closing \in {"No", "marked", "closed"},
           NEW t, t.state \in States, Step(s, t), Outcome(t)
    PROVE  [Life!Next]_(Life!vars)
<1>1. s.state \in States
  BY TypeRec
<1>2. s' = t
  BY DEF Outcome
<1>3. CASE closing' = closing
  <2>1. \/ LifeOf(s') = LifeOf(s)
        \/ Life!Moves
    BY <1>1, <1>2 DEF Step, Tame, States, LifeOf, Life!Moves, Life!Begins,
       Life!Connects, Life!StartsOver, Life!Fails
  <2> QED BY <1>3, <2>1 DEF Life!Next, Life!vars
<1>4. CASE closing = "No" /\ t.state # s.state /\ closing' = "marked"
  <2>1. \/ LifeOf(s') = "Failed"
        \/ LifeOf(s) = "Running" /\ LifeOf(s') = LifeOf(s)
        \/ Life!Moves
    BY <1>1, <1>2, <1>4 DEF Step, Tame, States, LifeOf, Life!Moves,
       Life!Begins, Life!Connects, Life!StartsOver, Life!Fails
  <2> QED BY <1>4, <2>1 DEF Life!Next, Life!Closes
<1> QED BY <1>3, <1>4 DEF Outcome

\* What a step of the session has to show.
Lives == [Life!Next]_(Life!vars) /\ Fresh(s')

\* Every action of the session is a step of the life cycle.
LEMMA LifeStep ==
    ASSUME LifeInv, [Next]_vars, ConsentMax > 1
    PROVE  Lives
<1>1. /\ s \in SessionType /\ Rec(s) /\ s.state \in States /\ Fresh(s)
      /\ closing \in {"No", "marked", "closed"}
  BY TypeRec DEF LifeInv, SessionInv, Good, Safe, Stable
<1>2. s'.state \in States
  <2>1. SessionInv'
    BY SessionStep DEF LifeInv
  <2>2. s' \in SessionType
    BY <2>1 DEF SessionInv, Good, Safe, Stable
  <2> QED BY <2>2, TypeRec
<1>3. ASSUME NEW t, Outcome(t), Step(s, t), Fresh(t) PROVE Lives
  BY <1>1, <1>2, <1>3, OutcomeLife DEF Outcome, Lives
<1>4. ASSUME NEW t, Outcome(t), Tame(s, t), s.state # "New" PROVE Lives
  BY <1>3, <1>4 DEF Tame, Step, Fresh
<1>5. ASSUME NEW t, Outcome(t), Rec(t), Idle(s, t) PROVE Lives
  <2>1. Tame(s, t)
    BY <1>5 DEF Tame, Idle
  <2>2. Fresh(t)
    BY <1>1, <1>5 DEF Fresh, Idle
  <2> QED BY <1>3, <1>5, <2>1, <2>2 DEF Step
<1>6. ASSUME NEW t, Handle(t) \/ Input(t) PROVE Outcome(t)
  BY <1>6 DEF Handle, Input
<1>7. CASE Gather
  <2>1. s.state = "New" /\ \E built \in Built : Outcome(gather(s, built))
    BY <1>6, <1>7 DEF Gather
  <2>2. ASSUME NEW built
        PROVE  Bare(gather(s, built))
    BY <1>1, <2>1, GatherTame DEF Fresh
  <2>3. ASSUME NEW built
        PROVE  Step(s, gather(s, built)) /\ Fresh(gather(s, built))
    BY <2>1, <2>2 DEF Step, Bare, Fresh
  <2> QED BY <1>3, <2>1, <2>3
<1>8. CASE StunStart
  BY <1>1, <1>4, <1>6, <1>8, StunTame DEF StunStart, Fresh
<1>9. CASE StunAnswer
  BY <1>1, <1>4, <1>6, <1>9, StunTame DEF StunAnswer, Fresh
<1>10. CASE GatherTimeout
  BY <1>1, <1>4, <1>6, <1>10, GatheringCompleteTame DEF GatherTimeout, Fresh
<1>11. CASE TurnNext
  BY <1>1, <1>4, <1>6, <1>11, AttemptTame DEF TurnNext, Fresh
<1>12. CASE TurnTimeout
  <2> DEFINE done == [s EXCEPT !.turn_timer = FALSE]
             next == [s EXCEPT !.turn_timer = FALSE,
                               !.turn_attempt = s.turn_attempt + 1]
  <2>1. /\ Rec(done) /\ done.state = s.state
        /\ Rec(next) /\ next.state = s.state
    BY <1>1 DEF Rec
  <2>2. s.state # "New"
    BY <1>1, <1>12 DEF TurnTimeout, Fresh
  <2>3. \/ Outcome(done)
        \/ \E built \in Built : Outcome(try_next_turn_attempt(next, built))
    BY <1>6, <1>12 DEF TurnTimeout
  <2> HIDE DEF done, next
  <2>4. Tame(s, done) /\ \A built : Tame(s, try_next_turn_attempt(next, built))
    BY <2>1, AttemptTame DEF Tame
  <2> QED BY <1>4, <2>2, <2>3, <2>4
<1>13. CASE TurnAllocated
  <2> DEFINE u == [s EXCEPT !.turn = "Allocated", !.alloc_posted = TRUE]
  <2>1. Rec(u) /\ u.state = s.state
    BY <1>1 DEF Rec
  <2>2. s.state # "New" /\ Outcome(u)
    BY <1>1, <1>6, <1>13 DEF TurnAllocated, Fresh
  <2> HIDE DEF u
  <2> QED BY <1>4, <2>1, <2>2 DEF Tame
<1>14. CASE OnAlloc
  BY <1>1, <1>4, <1>6, <1>14, AllocTame DEF OnAlloc, Fresh
<1>15. ASSUME NEW elapsed, CheckTick(elapsed) PROVE Lives
  <2> DEFINE u == [s EXCEPT !.check_timer = FALSE]
  <2>1. Rec(u) /\ Idle(s, u)
    BY <1>1 DEF SessionType, Rec, Idle
  <2>2. Outcome(run_next_check(u, elapsed))
    BY <1>6, <1>15 DEF CheckTick
  <2> HIDE DEF u
  <2>3. CASE s.state = "New"
    <3>1. run_next_check(u, elapsed) = u
      BY <2>1, <2>3 DEF run_next_check, Idle
    <3> QED BY <1>5, <2>1, <2>2, <3>1
  <2>4. CASE s.state # "New"
    <3>1. Tame(s, run_next_check(u, elapsed))
      BY <2>1, RunNextTame DEF Tame, Idle
    <3> QED BY <1>4, <2>2, <2>4, <3>1
  <2> QED BY <2>3, <2>4
<1>16. CASE WaitExpires
  <2> DEFINE u == [s EXCEPT !.wait_timer = FALSE]
  <2>1. Rec(u) /\ u.state = s.state /\ Rec(Fail(u)) /\ Fail(u).state = "Failed"
    BY <1>1 DEF Rec, Fail
  <2>2. s.state # "New" /\ (Outcome(u) \/ Outcome(Fail(u)))
    BY <1>1, <1>6, <1>16 DEF WaitExpires, Fresh
  <2> HIDE DEF u
  <2>3. Tame(s, u) /\ Tame(s, Fail(u))
    BY <2>1, <2>2 DEF Tame
  <2> QED BY <1>4, <2>2, <2>3
<1>17. CASE KeepaliveTick
  <2> DEFINE u == [s EXCEPT !.keepalive_timer = FALSE]
  <2>1. Rec(u) /\ Idle(s, u)
    BY <1>1 DEF SessionType, Rec, Idle
  <2>2. PICK early \in BOOLEAN, built \in Built :
             Outcome(on_keepalive(u, early, built))
    BY <1>6, <1>17 DEF KeepaliveTick
  <2> HIDE DEF u
  <2>3. CASE s.state = "New"
    <3>1. on_keepalive(u, early, built) = u
      BY <2>1, <2>3 DEF on_keepalive, Idle
    <3> QED BY <1>5, <2>1, <2>2, <3>1
  <2>4. CASE s.state # "New"
    <3>1. Tame(s, on_keepalive(u, early, built))
      BY <2>1, KeepaliveTame DEF Tame, Idle
    <3> QED BY <1>4, <2>2, <2>4, <3>1
  <2> QED BY <2>3, <2>4
<1>18. ASSUME NEW p \in Pairs, CheckAnswer(p) PROVE Lives
  <2>1. PICK built \in Built : Outcome(handle_check_response(s, p, built))
    BY <1>6, <1>18 DEF CheckAnswer
  <2>2. CASE s.state = "New"
    <3>1. handle_check_response(s, p, built) = s
      BY <2>2 DEF handle_check_response
    <3>2. Idle(s, s)
      BY DEF Idle
    <3> QED BY <1>1, <1>5, <2>1, <3>1, <3>2
  <2>3. CASE s.state # "New"
    BY <1>1, <1>4, <2>1, <2>3, ResponseTame
  <2> QED BY <2>2, <2>3
<1>19. ASSUME NEW p \in Pairs, CheckError(p) PROVE Lives
  <2>1. PICK dl : Outcome([s EXCEPT !.check_list = dl])
    BY <1>6, <1>19 DEF CheckError, on_check_error
  <2>2. Rec([s EXCEPT !.check_list = dl]) /\ Idle(s, [s EXCEPT !.check_list = dl])
    BY <1>1 DEF SessionType, Rec, Idle
  <2> QED BY <1>5, <2>1, <2>2
<1>20. CASE ConsentAnswer
  <2> DEFINE u == [s EXCEPT !.consent_missed = 0]
  <2>1. Rec(u) /\ Idle(s, u)
    BY <1>1 DEF SessionType, Rec, Idle
  <2>2. Outcome(u)
    BY <1>6, <1>20 DEF ConsentAnswer
  <2> HIDE DEF u
  <2> QED BY <1>5, <2>1, <2>2
<1>21. CASE RoleConflictAnswer
  <2> DEFINE u == [s EXCEPT !.controlling = ~s.controlling]
  <2>1. Outcome(switch_role(s)) /\ switch_role(s) = RebuildIfChecking(u)
    BY <1>6, <1>21 DEF RoleConflictAnswer, switch_role
  <2>2. Rec(u) /\ Idle(s, u)
    BY <1>1 DEF SessionType, Rec, Idle
  <2> HIDE DEF u
  <2>3. CASE s.state = "New"
    <3>1. RebuildIfChecking(u) = u
      BY <2>2, <2>3 DEF RebuildIfChecking, Idle
    <3> QED BY <1>5, <2>1, <2>2, <3>1
  <2>4. CASE s.state # "New"
    BY <1>1, <1>4, <2>1, <2>4, SwitchTame
  <2> QED BY <2>3, <2>4
<1>22. CASE BindingRequest
  <2>1. PICK t : /\ Outcome(t)
                 /\ Tame(s, t) \/ (Rec(t) /\ t.state = "Connected")
    BY <1>1, <1>6, <1>22, RequestTame DEF BindingRequest
  <2>2. s.state # "New"
    BY <1>1, <1>22 DEF BindingRequest, Fresh
  <2>3. CASE Tame(s, t)
    BY <1>4, <2>1, <2>2, <2>3
  <2>4. CASE t.state = "Connected"
    BY <1>3, <2>1, <2>2, <2>4 DEF Step, Fresh
  <2> QED BY <2>1, <2>3, <2>4
<1>23. CASE RemoteCandidates
  BY <1>1, <1>4, <1>6, <1>23, CandidatesTame DEF RemoteCandidates
<1>24. CASE PeerFlags
  <2>1. PICK symmetric \in BOOLEAN : Outcome(set_peer_signal_flags(s, symmetric))
    BY <1>6, <1>24 DEF PeerFlags
  <2> DEFINE u == [s EXCEPT !.symmetric = symmetric]
  <2>2. set_peer_signal_flags(s, symmetric) \in {s, RebuildIfChecking(u)}
    BY DEF set_peer_signal_flags
  <2>3. Rec(u) /\ Idle(s, u) /\ Idle(s, s)
    BY <1>1 DEF SessionType, Rec, Idle
  <2> HIDE DEF u
  <2>4. CASE s.state = "New"
    <3>1. RebuildIfChecking(u) = u
      BY <2>3, <2>4 DEF RebuildIfChecking, Idle
    <3> QED BY <1>1, <1>5, <2>1, <2>2, <2>3, <3>1
  <2>5. CASE s.state # "New"
    BY <1>1, <1>4, <2>1, <2>5, FlagsTame
  <2> QED BY <2>4, <2>5
<1>25. CASE Restart
  BY <1>1, <1>4, <1>6, <1>25, RestartTame DEF Restart
<1>26. CASE Close
  <2>1. s'.state = "Failed" /\ closing = "No" /\ closing' = "marked"
    BY <1>1, <1>26 DEF Close, Fail, Rec
  <2> QED BY <2>1 DEF Lives, Fresh, LifeOf, Life!Next, Life!Closes
<1>27. CASE CloseTaskRuns
  <2>1. /\ s' = CloseTask(s) /\ closing = "marked" /\ closing' = "closed"
    BY <1>27 DEF CloseTaskRuns
  <2>2. /\ s'.state = s.state
        /\ s.state = "New" => Fresh(s')
    <3>1. /\ s'.state = s.state /\ ~s'.wait_timer /\ ~s'.gather_timer
          /\ ~s'.turn_timer /\ s'.stun_posted = s.stun_posted
          /\ s'.turn_posted = s.turn_posted
          /\ s'.alloc_posted = s.alloc_posted
          /\ s'.probes = s.probes /\ s'.turn = s.turn
          /\ s'.signalled = s.signalled /\ s'.remote = s.remote
      BY <1>1, <2>1 DEF SessionType, CloseTask
    <3> QED BY <1>1, <3>1 DEF Fresh
  <2> QED BY <2>1, <2>2 DEF Lives, Fresh, LifeOf, Life!vars
<1>28. CASE UNCHANGED vars
  BY <1>1, <1>28 DEF vars, Lives, Fresh, LifeOf, Life!vars
<1> QED
  BY <1>7, <1>8, <1>9, <1>10, <1>11, <1>12, <1>13, <1>14, <1>15, <1>16, <1>17,
     <1>18, <1>19, <1>20, <1>21, <1>22, <1>23, <1>24, <1>25, <1>26, <1>27, <1>28
     DEF Next

\* A session implements the life cycle its link relies on: it starts once, is
\* connected only while it runs or after it failed, and never starts over
\* after a failure, whatever close() overlaps.  If the first missed consent
\* check is already too many (ConsentMax = 1) it does not: a failed session
\* that a late nomination connects starts over in the same step.
THEOREM SessionImplementsLife ==
    ASSUME ConsentMax > 1 PROVE Spec => ImplementsLife
<1>1. Init => LifeInv /\ Life!Init
  <2> SUFFICES ASSUME Init PROVE LifeInv /\ Life!Init
    OBVIOUS
  <2>1. SessionInv
    BY SessionInit
  <2>2. PICK c \in Roles : s = NewSession(c) /\ closing = "No"
    BY DEF Init
  <2>3. s.state = "New" /\ Fresh(s)
    BY <2>2 DEF NewSession, Fresh
  <2> QED BY <2>1, <2>2, <2>3 DEF LifeInv, Life!Init, LifeOf
<1>2. LifeInv /\ [Next]_vars => LifeInv' /\ [Life!Next]_(Life!vars)
  BY LifeStep, SessionStep DEF LifeInv, Lives
<1> QED BY <1>1, <1>2, PTL DEF Spec, ImplementsLife, Life!Spec

-----------------------------------------------------------------------------

\* The checks of the scheduler that are in flight.
Own(cl) == {p \in Pairs : cl[p].state = "InProgress" /\ ~cl[p].triggered}

\* Finitely many candidates, of no more families than the cap admits checks:
\* begin_checks sends one pair of each family without counting.
FewFamilies == /\ IsFiniteSet(Locals) /\ IsFiniteSet(Endpoints)
               /\ Cardinality({FamilyOf[l] : l \in Locals}) <= Cap

\* A check list whose pairs succeed by an answer, and keep to the cap.
Fit(cl) == /\ \A p \in Pairs : {"state", "triggered", "valid"} \subseteq DOMAIN cl[p]
           /\ DOMAIN cl = Pairs
           /\ \A p \in Pairs : cl[p].state = "Succeeded" => cl[p].valid
           /\ FewFamilies => Cardinality(Own(cl)) <= Cap

\* The list dl comes from cl, and no check was started.
Fewer(cl, dl) ==
    /\ DOMAIN dl = Pairs
    /\ \A p \in Pairs :
          /\ {"state", "triggered", "valid"} \subseteq DOMAIN dl[p]
          /\ dl[p].state = "Succeeded" => dl[p].valid
          /\ dl[p].state = "InProgress" /\ ~dl[p].triggered
                => cl[p].state = "InProgress" /\ ~cl[p].triggered

\* The pairs are finitely many.
LEMMA PairsFinite == ASSUME FewFamilies PROVE IsFiniteSet(Pairs)
BY FS_Product DEF FewFamilies, Pairs

\* A subset of pairs is not larger.
LEMMA Smaller ==
    ASSUME FewFamilies, NEW S \in SUBSET Pairs, NEW T \in SUBSET S
    PROVE  /\ IsFiniteSet(S) /\ Cardinality(S) \in Nat
           /\ IsFiniteSet(T) /\ Cardinality(T) \in Nat
           /\ Cardinality(T) <= Cardinality(S)
BY PairsFinite, FS_Subset, FS_CardinalityType

\* Whatever starts no check keeps to the cap.
LEMMA FewerFit ==
    ASSUME NEW cl, Fit(cl), NEW dl, Fewer(cl, dl) PROVE Fit(dl)
<1>1. Own(dl) \in SUBSET Own(cl) /\ Own(cl) \in SUBSET Pairs
  BY DEF Fewer, Own
<1>2. ASSUME FewFamilies PROVE Cardinality(Own(dl)) <= Cap
  <2>1. /\ Cardinality(Own(cl)) \in Nat /\ Cardinality(Own(dl)) \in Nat
        /\ Cardinality(Own(dl)) <= Cardinality(Own(cl))
    BY <1>1, <1>2, Smaller
  <2>2. Cardinality(Own(cl)) <= Cap /\ Cap \in Nat
    BY <1>2, CheckAssumption DEF Fit, CheckAssumption
  <2> QED BY <2>1, <2>2
<1> QED BY <1>2 DEF Fit, Fewer

\* A list that was just built has nothing in flight.
LEMMA InitialFit ==
    ASSUME NEW B
    PROVE  LET cl == assign_initial_pair_states(B)
           IN Fit(cl) /\ Own(cl) = {}
<1> DEFINE cl == assign_initial_pair_states(B)
<1>1. /\ DOMAIN cl = Pairs
      /\ \A p \in Pairs : /\ {"state", "triggered", "valid"} \subseteq DOMAIN cl[p]
                          /\ cl[p].state \in {"Waiting", "Frozen", "Absent"}
  BY DEF assign_initial_pair_states, NoPair
<1> HIDE DEF cl
<1>2. Own(cl) = {}
  BY <1>1 DEF Own
<1>3. Cardinality(Own(cl)) <= Cap
  BY <1>2, FS_EmptySet, CheckAssumption DEF CheckAssumption
<1>4. Fit(cl) /\ Own(cl) = {}
  BY <1>1, <1>2, <1>3 DEF Fit
<1> QED BY <1>4 DEF cl

\* Neither has an empty one.
LEMMA NoPairsFit == Fit(NoPairs)
<1>1. /\ DOMAIN NoPairs = Pairs
      /\ \A p \in Pairs : /\ {"state", "triggered", "valid"} \subseteq DOMAIN NoPairs[p]
                          /\ NoPairs[p].state = "Absent"
  BY DEF NoPairs, NoPair
<1>2. Own(NoPairs) = {}
  BY <1>1 DEF Own
<1>3. Cardinality(Own(NoPairs)) <= Cap
  BY <1>2, FS_EmptySet, CheckAssumption DEF CheckAssumption
<1> QED BY <1>1, <1>3 DEF Fit

\* Unfreezing starts no check.
LEMMA UnfreezeFit ==
    ASSUME NEW cl, Fit(cl), NEW F
    PROVE  Fit(unfreeze_siblings(cl, F)) /\ Fit(unfreeze_stuck_pairs(cl))
<1>1. Fewer(cl, unfreeze_siblings(cl, F))
  BY DEF Fit, Fewer, unfreeze_siblings
<1>2. Fewer(cl, unfreeze_stuck_pairs(cl))
  <2>1. CASE In(cl, {"Waiting", "InProgress"}) # {}
    BY <2>1 DEF Fit, Fewer, unfreeze_stuck_pairs
  <2>2. CASE In(cl, {"Waiting", "InProgress"}) = {}
    BY <2>2 DEF Fit, Fewer, unfreeze_stuck_pairs
  <2> QED BY <2>1, <2>2
<1> QED BY <1>1, <1>2, FewerFit

\* A pair that fails, or was answered, is not in flight any more.
LEMMA CompleteFit ==
    ASSUME NEW cl, Fit(cl), NEW p \in Pairs
    PROVE  /\ Fit(Complete(cl, p, "Failed"))
           /\ cl[p].valid => Fit(Complete(cl, p, "Succeeded"))
           /\ Fit([cl EXCEPT ![p].valid = TRUE])
           /\ [cl EXCEPT ![p].valid = TRUE][p].valid
<1>1. Fewer(cl, [cl EXCEPT ![p].state = "Failed"])
  BY DEF Fit, Fewer
<1>2. ASSUME cl[p].valid PROVE Fewer(cl, [cl EXCEPT ![p].state = "Succeeded"])
  BY <1>2 DEF Fit, Fewer
<1>3. /\ Fewer(cl, [cl EXCEPT ![p].valid = TRUE])
      /\ [cl EXCEPT ![p].valid = TRUE][p].valid
  BY DEF Fit, Fewer
<1> QED BY <1>1, <1>2, <1>3, FewerFit, UnfreezeFit DEF Complete

\* A repeated check was in flight before.
LEMMA SendFit ==
    ASSUME NEW cl, Fit(cl), NEW p \in Pairs
    PROVE  Fit(send_check(cl, p)) /\ Fit([cl EXCEPT ![p].nominee = TRUE])
<1>1. Fewer(cl, [cl EXCEPT ![p].retries = @ + 1])
  BY DEF Fit, Fewer
<1>2. Fewer(cl, [cl EXCEPT ![p].nominee = TRUE])
  BY DEF Fit, Fewer
<1> QED BY <1>1, <1>2, FewerFit, CompleteFit DEF send_check

\* A pass of run_next_check starts checks only while there is room: the place
\* of a started pair among those that are ready, counted from the checks in
\* flight, is below the cap.
LEMMA StartedFew ==
    ASSUME NEW cl, Fit(cl), NEW dead, FewFamilies
    PROVE  LET busy == In(cl, {"InProgress"}) \ dead
           IN /\ Started(cl, dead) \subseteq Pairs
              /\ \/ Started(cl, dead) = {}
                 \/ Cardinality(busy) + Cardinality(Started(cl, dead)) <= Cap
<1> DEFINE busy == In(cl, {"InProgress"}) \ dead
           ready == {p \in In(cl, {"Waiting"}) \cup Thawed(cl, dead) :
                       cl[p].retries < MaxRetries}
           before(p) == {q \in ready : Order[q] < Order[p]}
           S == Started(cl, dead)
           n == Cardinality(busy)
           f == [p \in S |-> Cardinality(before(p))]
<1>1. S = {p \in ready : n + Cardinality(before(p)) < Cap}
  BY DEF Started
<1>2. ready \in SUBSET Pairs /\ busy \in SUBSET Pairs
  BY DEF In, Thawed
<1>3. /\ Order \in [Pairs -> Nat] /\ Cap \in Nat
      /\ \A p, q \in Pairs : Order[p] = Order[q] => p = q
  BY CheckAssumption DEF CheckAssumption
<1>4. n \in Nat
  BY <1>2, Smaller
<1>5. ASSUME NEW p \in ready PROVE IsFiniteSet(before(p)) /\ Cardinality(before(p)) \in Nat
  <2>1. before(p) \in SUBSET ready
    OBVIOUS
  <2> QED BY <1>2, <2>1, Smaller
<1>6. ASSUME NEW p \in ready, NEW q \in ready, Order[p] < Order[q]
      PROVE  Cardinality(before(p)) < Cardinality(before(q))
  <2>1. before(p) \in SUBSET before(q) /\ p \in before(q) /\ p \notin before(p)
    BY <1>2, <1>3, <1>6
  <2>2. before(p) # before(q)
    BY <2>1
  <2>3. IsFiniteSet(before(q))
    BY <1>5
  <2> HIDE DEF before
  <2>4. /\ Cardinality(before(p)) <= Cardinality(before(q))
        /\ Cardinality(before(p)) # Cardinality(before(q))
    BY <2>1, <2>2, <2>3, FS_Subset
  <2> QED BY <1>5, <2>4
<1> HIDE DEF ready, S, n, before
<1>7. CASE n >= Cap
  BY <1>1, <1>3, <1>4, <1>5, <1>7 DEF S
<1>8. CASE n < Cap
  <2>1. f \in [S -> 0..Cap - n - 1]
    <3> SUFFICES ASSUME NEW p \in S PROVE Cardinality(before(p)) \in 0..Cap - n - 1
      OBVIOUS
    <3>1. p \in ready /\ n + Cardinality(before(p)) < Cap
      BY <1>1
    <3>2. Cardinality(before(p)) \in Nat
      BY <1>5, <3>1
    <3> QED BY <1>3, <1>4, <3>1, <3>2
  <2>2. ASSUME NEW p \in S, NEW q \in S, f[p] = f[q] PROVE p = q
    <3>1. p \in ready /\ q \in ready /\ p \in Pairs /\ q \in Pairs
      BY <1>1, <1>2
    <3>2. Cardinality(before(p)) = Cardinality(before(q))
      BY <2>2
    <3>3. ~(Order[p] < Order[q]) /\ ~(Order[q] < Order[p])
      BY <1>5, <1>6, <3>1, <3>2
    <3> QED BY <1>3, <3>1, <3>3
  <2> HIDE DEF f
  <2>3. f \in Injection(S, 0..Cap - n - 1)
    BY <2>1, <2>2 DEF Injection, IsInjective
  <2>4. IsFiniteSet(0..Cap - n - 1) /\ Cardinality(0..Cap - n - 1) = Cap - n
    BY <1>3, <1>4, <1>8, FS_Interval
  <2>5. IsFiniteSet(S) /\ Cardinality(S) <= Cap - n
    BY <2>3, <2>4, FS_Injection
  <2>6. Cardinality(S) \in Nat
    BY <2>5, FS_CardinalityType
  <2>7. n + Cardinality(S) <= Cap
    BY <1>3, <1>4, <2>5, <2>6
  <2>8. S \subseteq Pairs
    BY <1>1, <1>2
  <2> QED BY <2>7, <2>8 DEF n, S
<1> QED BY <1>3, <1>4, <1>7, <1>8

\* A pass keeps to the cap.
LEMMA WalkFit ==
    ASSUME NEW cl, Fit(cl), NEW elapsed
    PROVE  Fit(Walk(cl, elapsed))
<1> DEFINE dead == Spent(cl, elapsed)
           thawed == Thawed(cl, dead)
           started == Started(cl, dead)
           repeated == (In(cl, {"InProgress"}) \cap elapsed) \ dead
           busy == In(cl, {"InProgress"}) \ dead
           dl == Walk(cl, elapsed)
<1>1. dl = [p \in Pairs |->
          IF p \in dead THEN [cl[p] EXCEPT !.state = "Failed"]
          ELSE IF p \in started \cup repeated
          THEN [cl[p] EXCEPT !.state = "InProgress", !.retries = @ + 1]
          ELSE IF p \in thawed THEN [cl[p] EXCEPT !.state = "Waiting"]
          ELSE cl[p]]
  BY DEF Walk
<1>2. repeated \subseteq In(cl, {"InProgress"})
  OBVIOUS
<1>3. FewFamilies => /\ started \subseteq Pairs
                     /\ started = {} \/ Cardinality(busy) + Cardinality(started) <= Cap
  BY StartedFew
<1> HIDE DEF dead, thawed, started, repeated, dl
<1>4. ASSUME NEW p \in Pairs
      PROVE  /\ {"state", "triggered", "valid"} \subseteq DOMAIN dl[p]
             /\ dl[p].state = IF p \in dead THEN "Failed"
                              ELSE IF p \in started \cup repeated THEN "InProgress"
                              ELSE IF p \in thawed THEN "Waiting"
                              ELSE cl[p].state
             /\ dl[p].valid = cl[p].valid /\ dl[p].triggered = cl[p].triggered
  BY <1>1 DEF Fit
<1>5. /\ DOMAIN dl = Pairs
      /\ \A p \in Pairs : dl[p].state = "Succeeded" => dl[p].valid
  BY <1>1, <1>4 DEF Fit
<1>6. ASSUME FewFamilies PROVE Cardinality(Own(dl)) <= Cap
  <2>1. CASE started = {}
    <3>1. Fewer(cl, dl)
      BY <1>2, <1>4, <1>5, <2>1 DEF Fewer, In
    <3>2. Fit(dl)
      BY <3>1, FewerFit
    <3> QED BY <1>6, <3>2 DEF Fit
  <2>2. CASE started # {}
    <3>1. busy \in SUBSET Pairs /\ started \in SUBSET Pairs
      BY <1>3, <1>6 DEF In
    <3>2. Own(dl) \in SUBSET (busy \cup started) /\ busy \cup started \in SUBSET Pairs
      BY <1>2, <1>4, <3>1 DEF Own, In
    <3>3. Cardinality(busy) + Cardinality(started) <= Cap
      BY <1>3, <1>6, <2>2
    <3> HIDE DEF busy
    <3>4. /\ IsFiniteSet(busy) /\ IsFiniteSet(started)
          /\ Cardinality(busy) \in Nat /\ Cardinality(started) \in Nat
      BY <1>6, <3>1, Smaller
    <3>5. /\ busy \cap started \in SUBSET Pairs
          /\ Cardinality(busy \cup started) =
               Cardinality(busy) + Cardinality(started) - Cardinality(busy \cap started)
      BY <3>1, <3>4, FS_Union
    <3>6. Cardinality(busy \cap started) \in Nat
      BY <1>6, <3>5, Smaller
    <3>7. /\ Cardinality(Own(dl)) \in Nat /\ Cardinality(busy \cup started) \in Nat
          /\ Cardinality(Own(dl)) <= Cardinality(busy \cup started)
      BY <1>6, <3>2, Smaller
    <3> QED BY <3>3, <3>4, <3>5, <3>6, <3>7, CheckAssumption DEF CheckAssumption
  <2> QED BY <2>1, <2>2
<1>7. Fit(dl)
  BY <1>4, <1>5, <1>6 DEF Fit
<1> QED BY <1>7 DEF dl

\* begin_checks sends one pair of each family of a list that was just built.
LEMMA EarlyFit ==
    ASSUME NEW cl, Fit(cl), Own(cl) = {}
    PROVE  LET waiting == In(cl, {"Waiting"})
               ofFamily(f) == {p \in waiting : FamilyOf[p[1]] = f}
               early == {p \in waiting : p = First(ofFamily(FamilyOf[p[1]]))}
           IN Fit(Transmit(cl, early))
<1> DEFINE waiting == In(cl, {"Waiting"})
           ofFamily(f) == {p \in waiting : FamilyOf[p[1]] = f}
           early == {p \in waiting : p = First(ofFamily(FamilyOf[p[1]]))}
           dl == Transmit(cl, early)
           families == {FamilyOf[l] : l \in Locals}
           g == [p \in early |-> FamilyOf[p[1]]]
<1>1. early \in SUBSET Pairs
  BY DEF In
<1>2. ASSUME NEW p \in early, NEW q \in early, FamilyOf[p[1]] = FamilyOf[q[1]]
      PROVE  p = q
  BY <1>2
<1>3. g \in [early -> families]
  BY <1>1 DEF Pairs
<1>4. g \in Injection(early, families)
  <2>1. \A p, q \in early : g[p] = g[q] => p = q
    <3> HIDE DEF early
    <3> QED BY <1>2
  <2> HIDE DEF early, families, g
  <2> QED BY <1>3, <2>1 DEF Injection, IsInjective
<1>5. \A p \in Pairs :
         /\ {"state", "triggered", "valid"} \subseteq DOMAIN dl[p]
         /\ dl[p].state = IF p \in early THEN "InProgress" ELSE cl[p].state
         /\ dl[p].valid = cl[p].valid /\ dl[p].triggered = cl[p].triggered
  <2> HIDE DEF early
  <2> SUFFICES ASSUME NEW p \in Pairs
               PROVE  /\ {"state", "triggered", "valid"} \subseteq DOMAIN dl[p]
                      /\ dl[p].state = IF p \in early THEN "InProgress" ELSE cl[p].state
                      /\ dl[p].valid = cl[p].valid
                      /\ dl[p].triggered = cl[p].triggered
    OBVIOUS
  <2> QED BY DEF Transmit, Fit
<1>6. DOMAIN dl = Pairs
  BY DEF Transmit
<1> HIDE DEF early, dl, g
<1>7. Own(dl) \in SUBSET early
  BY <1>5 DEF Own
<1>8. ASSUME FewFamilies PROVE Cardinality(Own(dl)) <= Cap
  <2>1. IsFiniteSet(families) /\ Cardinality(families) <= Cap
    <3> DEFINE h == [l \in Locals |-> FamilyOf[l]]
    <3>1. h \in Surjection(Locals, families)
      BY DEF Surjection
    <3> HIDE DEF h
    <3>2. Cardinality(families) <= Cap
      BY <1>8 DEF FewFamilies
    <3> HIDE DEF families
    <3>3. IsFiniteSet(families)
      BY <1>8, <3>1, FS_Surjection DEF FewFamilies
    <3> QED BY <3>2, <3>3
  <2> HIDE DEF families
  <2>2. Cardinality(early) <= Cardinality(families) /\ Cardinality(families) \in Nat
    BY <1>4, <2>1, FS_Injection, FS_CardinalityType
  <2>3. /\ Cardinality(Own(dl)) \in Nat /\ Cardinality(early) \in Nat
        /\ Cardinality(Own(dl)) <= Cardinality(early)
    BY <1>1, <1>7, <1>8, Smaller
  <2> QED BY <2>1, <2>2, <2>3, CheckAssumption DEF CheckAssumption
<1>9. Fit(dl)
  BY <1>5, <1>6, <1>8 DEF Fit
<1> QED BY <1>9 DEF dl, early

-----------------------------------------------------------------------------

\* All that the lemmas below need of a session.
Sess(t) == {"state", "check_list", "nominated"} \subseteq DOMAIN t /\ Fit(t.check_list)

\* A handler that connects no session and keeps its list fit.
Calm(t, u) == Sess(u) /\ (u.state = "Connected" => t.state = "Connected")

\* A new list.
LEMMA ListCalm ==
    ASSUME NEW t, Sess(t), NEW cl, Fit(cl)
    PROVE  /\ Calm(t, [t EXCEPT !.check_list = cl])
           /\ [t EXCEPT !.check_list = cl].check_list = cl
           /\ [t EXCEPT !.check_list = cl].state = t.state
BY DEF Calm, Sess

\* The driver keeps to the cap.
LEMMA RunNextCalm ==
    ASSUME NEW t, Sess(t), NEW elapsed
    PROVE  Calm(t, run_next_check(t, elapsed))
<1> DEFINE cl == Walk(unfreeze_stuck_pairs(t.check_list), elapsed)
           next == [t EXCEPT !.check_list = cl]
           result == run_next_check(t, elapsed)
<1>1. Fit(cl)
  <2>1. Fit(unfreeze_stuck_pairs(t.check_list))
    BY UnfreezeFit DEF Sess
  <2> QED BY <2>1, WalkFit
<1>2. \/ result = t
      \/ result = [next EXCEPT !.check_timer = TRUE]
      \/ result = [next EXCEPT !.wait_armed = TRUE, !.wait_timer = TRUE]
      \/ result = Fail(next)
  BY DEF run_next_check
<1>3. Sess(next) /\ next.state = t.state
  <2> HIDE DEF cl
  <2> QED BY <1>1, ListCalm DEF Calm
<1> HIDE DEF next, result
<1>4. Calm(next, [next EXCEPT !.check_timer = TRUE])
  BY <1>3 DEF Calm, Sess
<1>5. Calm(next, [next EXCEPT !.wait_armed = TRUE, !.wait_timer = TRUE])
  BY <1>3 DEF Calm, Sess
<1>6. Calm(next, Fail(next))
  BY <1>3 DEF Calm, Sess, Fail
<1>7. Calm(t, t)
  BY DEF Calm
<1>8. Calm(t, result)
  BY <1>2, <1>3, <1>4, <1>5, <1>6, <1>7 DEF Calm
<1> QED BY <1>8 DEF result

\* A list that is built has nothing in flight.
LEMMA BuildCalm ==
    ASSUME NEW t, Sess(t)
    PROVE  /\ Calm(t, build_check_list(t))
           /\ Own(build_check_list(t).check_list) = {}
           /\ build_check_list(t).state = t.state
<1> DEFINE cl == assign_initial_pair_states(Pairing(t))
<1>1. Fit(cl) /\ Own(cl) = {}
  BY InitialFit
<1> HIDE DEF cl
<1>2. build_check_list(t) = [t EXCEPT !.check_list = cl]
  BY DEF build_check_list, cl
<1> QED BY <1>1, <1>2, ListCalm

\* Checks that start: a session that was just given its list is not connected.
LEMMA StartCalm ==
    ASSUME NEW t, Sess(t)
    PROVE  Sess(StartChecking(t)) /\ StartChecking(t).state # "Connected"
<1> DEFINE v == [t EXCEPT !.state = "Checking"]
           u == build_check_list(v)
<1>1. Sess(v) /\ v.state = "Checking"
  BY DEF Sess
<1>2. StartChecking(t) = begin_checks(u)
  BY DEF StartChecking
<1> HIDE DEF v
<1>3. Sess(u) /\ Own(u.check_list) = {} /\ u.state = "Checking"
  BY <1>1, BuildCalm DEF Calm
<1> HIDE DEF u
<1> DEFINE waiting == In(u.check_list, {"Waiting"})
           ofFamily(f) == {p \in waiting : FamilyOf[p[1]] = f}
           early == {p \in waiting : p = First(ofFamily(FamilyOf[p[1]]))}
           cl == Transmit(u.check_list, early)
           w == [u EXCEPT !.check_list = cl]
<1>4. Fit(cl)
  <2>1. Fit(u.check_list)
    BY <1>3 DEF Sess
  <2> QED BY <1>3, <2>1, EarlyFit
<1>5. begin_checks(u) \in {u, run_next_check(w, {})}
  BY DEF begin_checks
<1> HIDE DEF cl
<1>6. Sess(w) /\ w.state = "Checking"
  BY <1>3, <1>4, ListCalm DEF Calm
<1> HIDE DEF w
<1>7. Calm(w, run_next_check(w, {}))
  BY <1>6, RunNextCalm
<1> QED BY <1>2, <1>3, <1>5, <1>6, <1>7 DEF Calm

\* Gathering connects nobody.
LEMMA GatheringCalm ==
    ASSUME NEW t, Sess(t)
    PROVE  /\ Calm(t, on_gathered(t)) /\ on_gathered(t).state = t.state
           /\ Calm(t, on_gathering_complete(t))
           /\ Calm(t, TurnSettled(t))
<1>1. ASSUME NEW u, Sess(u)
      PROVE  Calm(u, on_gathered(u)) /\ on_gathered(u).state = u.state
  BY <1>1 DEF Calm, Sess, on_gathered
<1>2. ASSUME NEW u, Sess(u) PROVE Calm(u, on_gathering_complete(u))
  <2> DEFINE quiet == [u EXCEPT !.probes = FALSE, !.gather_timer = FALSE]
             idle == [quiet EXCEPT !.state = "WaitingRemote"]
             x == IF u.state # "Gathering" THEN quiet
                  ELSE IF u.remote # {} THEN StartChecking(quiet) ELSE idle
  <2>1. Sess(quiet) /\ quiet.state = u.state
    BY <1>2 DEF Sess
  <2>2. on_gathering_complete(u) = on_gathered(x)
    BY DEF on_gathering_complete
  <2> HIDE DEF quiet
  <2>3. Sess(idle) /\ idle.state = "WaitingRemote"
    BY <2>1 DEF Sess
  <2> HIDE DEF idle
  <2>4. Sess(StartChecking(quiet)) /\ StartChecking(quiet).state # "Connected"
    BY <2>1, StartCalm
  <2>5. Calm(u, x)
    BY <2>1, <2>3, <2>4 DEF Calm
  <2> HIDE DEF x
  <2> QED BY <1>1, <2>2, <2>5 DEF Calm
<1>3. Calm(t, TurnSettled(t))
  <2> DEFINE u == [t EXCEPT !.turn_gathering = FALSE]
  <2>1. Sess(u) /\ u.state = t.state
    BY DEF Sess
  <2>2. TurnSettled(t) \in {u, on_gathering_complete(u)}
    BY DEF TurnSettled
  <2> HIDE DEF u
  <2>3. Calm(u, on_gathering_complete(u))
    BY <1>2, <2>1
  <2> QED BY <2>1, <2>2, <2>3 DEF Calm
<1> QED BY <1>1, <1>2, <1>3

\* Neither does the next TURN attempt.
LEMMA AttemptCalm ==
    ASSUME NEW t, Sess(t), NEW built
    PROVE  Calm(t, try_next_turn_attempt(t, built))
<1> DEFINE idle == [t EXCEPT !.turn = "None", !.turn_timer = FALSE,
                             !.turn_posted = FALSE]
           trying == [idle EXCEPT !.turn = "Allocating", !.turn_timer = TRUE]
           next == [idle EXCEPT !.turn_attempt = @ + 1, !.turn_posted = TRUE]
<1>1. Sess(idle) /\ idle.state = t.state
  BY DEF Sess
<1>2. try_next_turn_attempt(t, built) \in {TurnSettled(idle), trying, next}
  BY DEF try_next_turn_attempt
<1> HIDE DEF idle
<1>3. Sess(trying) /\ trying.state = idle.state
  BY <1>1 DEF Sess
<1>4. Sess(next) /\ next.state = idle.state
  BY <1>1 DEF Sess
<1> HIDE DEF trying, next
<1>5. Calm(idle, TurnSettled(idle))
  BY <1>1, GatheringCalm
<1> QED BY <1>1, <1>2, <1>3, <1>4, <1>5 DEF Calm

\* A session that gathers is not connected.
LEMMA GatherCalm ==
    ASSUME NEW t, Sess(t), NEW built
    PROVE  Sess(gather(t, built)) /\ gather(t, built).state # "Connected"
<1> DEFINE u == gather_host_candidates([t EXCEPT !.state = "Gathering"])
           v == [u EXCEPT !.turn_gathering = TRUE, !.turn_attempt = 0]
           relayed == gather_relay(u, built)
           w == [relayed EXCEPT !.stun_posted = TRUE]
<1>1. Sess(u) /\ u.state = "Gathering"
  BY DEF Sess, gather_host_candidates
<1>2. gather(t, built) \in {relayed, w, on_gathering_complete(relayed)}
  BY DEF gather
<1> HIDE DEF u
<1>3. Sess(v) /\ v.state = "Gathering"
  BY <1>1 DEF Sess
<1>4. relayed \in {u, try_next_turn_attempt(v, built)}
  BY DEF gather_relay
<1> HIDE DEF v
<1>5. Sess(relayed) /\ relayed.state # "Connected"
  BY <1>1, <1>3, <1>4, AttemptCalm DEF Calm
<1> HIDE DEF relayed
<1>6. Sess(w) /\ w.state = relayed.state
  BY <1>5 DEF Sess
<1> HIDE DEF w
<1>7. Calm(relayed, on_gathering_complete(relayed))
  BY <1>5, GatheringCalm
<1> QED BY <1>2, <1>5, <1>6, <1>7 DEF Calm

\* A restart begins with no list.
LEMMA RestartCalm ==
    ASSUME NEW t, Sess(t), NEW built
    PROVE  /\ Calm(t, restart(t, built))
           /\ t.state # "Failed" => restart(t, built).state # "Connected"
<1> DEFINE fresh == [NewSession(t.controlling) EXCEPT
                       !.controlling = t.controlling,
                       !.pending_nom = t.pending_nom,
                       !.attempts = t.attempts, !.backoff = t.backoff]
           u == [fresh EXCEPT !.stun_posted = t.stun_posted,
                              !.turn_posted = t.turn_posted,
                              !.alloc_posted = t.alloc_posted]
<1>1. {"state", "check_list", "nominated"} \subseteq DOMAIN fresh /\ fresh.check_list = NoPairs
  BY DEF NewSession
<1>2. restart(t, built) = IF t.state = "Failed" THEN t ELSE gather(u, built)
  BY DEF restart
<1> HIDE DEF fresh
<1>3. {"state", "check_list", "nominated"} \subseteq DOMAIN u /\ u.check_list = NoPairs
  BY <1>1
<1> HIDE DEF u
<1>4. Sess(u)
  BY <1>3, NoPairsFit DEF Sess
<1> QED BY <1>2, <1>4, GatherCalm DEF Calm

-----------------------------------------------------------------------------

\* What a nomination leaves in place.
Held(t, u) == /\ u.check_list = t.check_list /\ u.nominated = t.nominated
              /\ u.controlling = t.controlling

\* A missed consent check connects nobody; a session that stays connected
\* keeps its list.
LEMMA KeepaliveCalm ==
    ASSUME NEW t, Sess(t), NEW early, NEW built
    PROVE  LET u == on_keepalive(t, early, built)
           IN Calm(t, u) /\ (u.state = "Connected" => Held(t, u))
<1> DEFINE missed == [t EXCEPT !.consent_missed = @ + 1]
           again == [missed EXCEPT !.keepalive_timer = TRUE]
           recovering == [missed EXCEPT !.recovery = @ + 1, !.consent_missed = 0]
           waiting == [missed EXCEPT !.consent_missed = 0]
           trying == [missed EXCEPT !.attempts = @ + 1, !.backoff = TRUE,
                                    !.consent_missed = 0]
           lost == notify_consent_loss(missed, early, built)
           u == on_keepalive(t, early, built)
<1>1. Sess(missed) /\ missed.state = t.state /\ Held(t, missed)
  BY DEF Sess, Held
<1>2. \/ u = t
      \/ t.state = "Connected" /\ u \in {again, StartChecking(recovering), lost}
  BY DEF on_keepalive
<1>3. lost \in {Fail(missed), waiting, restart(trying, built)}
  BY DEF notify_consent_loss
<1> HIDE DEF missed, lost
<1>4. Sess(again) /\ again.state = t.state /\ Held(t, again)
  BY <1>1 DEF Sess, Held
<1>5. Sess(recovering)
  BY <1>1 DEF Sess
<1>6. Sess(waiting) /\ waiting.state = t.state /\ Held(t, waiting)
  BY <1>1 DEF Sess, Held
<1>7. Sess(trying) /\ trying.state = t.state
  BY <1>1 DEF Sess
<1>8. Sess(Fail(missed)) /\ Fail(missed).state = "Failed"
  BY <1>1 DEF Sess, Fail
<1> HIDE DEF again, recovering, waiting, trying, u
<1>9. Sess(StartChecking(recovering)) /\ StartChecking(recovering).state # "Connected"
  BY <1>5, StartCalm
<1>10. ASSUME t.state = "Connected"
       PROVE  Sess(lost) /\ (lost.state = "Connected" => Held(t, lost))
  <2>1. Sess(restart(trying, built)) /\ restart(trying, built).state # "Connected"
    BY <1>7, <1>10, RestartCalm DEF Calm
  <2> QED BY <1>3, <1>6, <1>8, <2>1
<1>11. Calm(t, u) /\ (u.state = "Connected" => Held(t, u))
  BY <1>2, <1>4, <1>9, <1>10 DEF Calm, Held
<1> QED BY <1>11 DEF u

\* A nomination keeps the list, if the session stays connected.
LEMMA NominatedHeld ==
    ASSUME NEW t, Sess(t), NEW context, NEW built
    PROVE  LET u == on_nominated(t, context, built)
           IN /\ Sess(u)
              /\ u.state = "Connected" => /\ u.check_list = t.check_list
                                          /\ u.controlling = t.controlling
                                          /\ u.nominated = context
<1> DEFINE v == [t EXCEPT !.state = "Connected", !.nominated = context,
                  !.check_timer = FALSE, !.wait_timer = FALSE,
                  !.wait_armed = FALSE, !.consent_missed = 0,
                  !.recovery = 0, !.attempts = 0, !.backoff = FALSE]
           u == on_nominated(t, context, built)
<1>1. /\ Sess(v) /\ v.check_list = t.check_list /\ v.controlling = t.controlling
      /\ v.nominated = context
  BY DEF Sess
<1>2. u = on_keepalive(v, FALSE, built)
  BY DEF on_nominated
<1> HIDE DEF v, u
<1>3. Calm(v, u) /\ (u.state = "Connected" => Held(v, u))
  BY <1>1, <1>2, KeepaliveCalm
<1>4. /\ Sess(u)
      /\ u.state = "Connected" => /\ u.check_list = t.check_list
                                  /\ u.controlling = t.controlling
                                  /\ u.nominated = context
  BY <1>1, <1>3 DEF Calm, Held
<1> QED BY <1>4 DEF u

\* Selecting the nominee starts no check of the scheduler.
LEMMA SelectCalm ==
    ASSUME NEW t, Sess(t)
    PROVE  Calm(t, select_nominee(t)) /\ select_nominee(t).state = t.state
<1> DEFINE best == First(Valid(t.check_list))
           cl == send_check([t.check_list EXCEPT ![best].nominee = TRUE], best)
           u == [t EXCEPT !.nominee_selected = TRUE, !.check_list = cl]
<1>1. CASE Valid(t.check_list) = {}
  BY <1>1 DEF select_nominee, Calm
<1>2. CASE Valid(t.check_list) # {}
  <2>1. best \in Pairs
    BY <1>2, FirstIn DEF Valid
  <2>2. select_nominee(t) = u
    BY <1>2 DEF select_nominee
  <2> HIDE DEF best
  <2>3. Fit(cl)
    <3>1. Fit(t.check_list)
      BY DEF Sess
    <3>2. Fit([t.check_list EXCEPT ![best].nominee = TRUE])
      BY <2>1, <3>1, SendFit
    <3> QED BY <2>1, <3>2, SendFit
  <2> HIDE DEF cl
  <2>4. Sess(u) /\ u.state = t.state
    BY <2>3 DEF Sess
  <2> QED BY <2>2, <2>4 DEF Calm
<1> QED BY <1>1, <1>2

\* The pair the answer belongs to becomes valid.
LEMMA AnsweredFit ==
    ASSUME NEW cl, Fit(cl), NEW p \in Pairs
    PROVE  LET dl == Complete([cl EXCEPT ![p].valid = TRUE], p, "Succeeded")
               el == [dl EXCEPT ![p].pending = FALSE]
           IN Fit(dl) /\ Fit(el) /\ p \in Valid(dl) /\ p \in Valid(el)
<1> DEFINE vl == [cl EXCEPT ![p].valid = TRUE]
           dl == Complete(vl, p, "Succeeded")
           el == [dl EXCEPT ![p].pending = FALSE]
<1>1. Fit(vl) /\ vl[p].valid
  BY CompleteFit
<1> HIDE DEF vl
<1>2. Fit(dl)
  BY <1>1, CompleteFit
<1>3. dl[p].valid
  BY <1>1 DEF Complete, unfreeze_siblings, Fit
<1> HIDE DEF dl
<1>4. Fewer(dl, el) /\ el[p].valid
  BY <1>2, <1>3 DEF Fit, Fewer
<1>5. Fit(el)
  BY <1>2, <1>4, FewerFit
<1> HIDE DEF el
<1>6. Fit(dl) /\ Fit(el) /\ p \in Valid(dl) /\ p \in Valid(el)
  BY <1>2, <1>3, <1>4, <1>5 DEF Valid
<1> QED BY <1>6 DEF el, dl, vl

\* Some check was answered, a controlling session's own.
Answered(u) == \E p \in Valid(u.check_list) :
                  u.controlling => p[2] = u.nominated.end

\* A handler connects a session on an answer only.
Earned(t, u) == /\ Sess(u)
                /\ u.state = "Connected" => t.state = "Connected" \/ Answered(u)

\* An answer nominates the pair it belongs to, or a deferred endpoint.
LEMMA ResponseEarned ==
    ASSUME NEW t, Sess(t), NEW p \in Pairs, NEW built
    PROVE  Earned(t, handle_check_response(t, p, built))
<1> DEFINE list == Complete([t.check_list EXCEPT ![p].valid = TRUE],
                            p, "Succeeded")
           good == [t EXCEPT !.check_list = list]
           unmarked == [list EXCEPT ![p].pending = FALSE]
           deferred == [t EXCEPT !.check_list = unmarked]
           own == [end |-> p[2],
                   relay |-> p[1] \in RelayLocals \/ p[2] \in RelayEnds]
           u == handle_check_response(t, p, built)
<1>1. CASE t.state # "Checking"
  BY <1>1 DEF handle_check_response, Earned
<1>2. CASE t.state = "Checking"
  <2>1. \/ ~t.controlling /\ u = on_nominated(deferred, t.pending_nom, built)
        \/ u = on_nominated(good, own, built)
        \/ u \in {good, select_nominee(good)}
    BY <1>2 DEF handle_check_response
  <2>2. Fit(list) /\ Fit(unmarked) /\ p \in Valid(list) /\ p \in Valid(unmarked)
    BY AnsweredFit DEF Sess
  <2>3. own.end = p[2]
    OBVIOUS
  <2> HIDE DEF list, unmarked, own
  <2>4. /\ Sess(good) /\ good.check_list = list /\ good.state = "Checking"
        /\ good.controlling = t.controlling
    BY <1>2, <2>2 DEF Sess
  <2>5. /\ Sess(deferred) /\ deferred.check_list = unmarked
        /\ deferred.controlling = t.controlling
    BY <2>2 DEF Sess
  <2> HIDE DEF good, deferred
  <2>6. CASE ~t.controlling /\ u = on_nominated(deferred, t.pending_nom, built)
    BY <2>2, <2>5, <2>6, NominatedHeld DEF Earned, Answered
  <2>7. CASE u = on_nominated(good, own, built)
    BY <2>2, <2>3, <2>4, <2>7, NominatedHeld DEF Earned, Answered
  <2>8. CASE u \in {good, select_nominee(good)}
    BY <2>4, <2>8, SelectCalm DEF Earned, Calm
  <2> QED BY <2>1, <2>6, <2>7, <2>8
<1> QED BY <1>1, <1>2

-----------------------------------------------------------------------------

\* The answers and tasks of gathering.
LEMMA StunCalm ==
    ASSUME NEW t, Sess(t), NEW reached
    PROVE  /\ Calm(t, start_multi_stun_probes(t, reached))
           /\ Calm(t, handle_gather_response(t))
<1> DEFINE begun == [t EXCEPT !.stun_posted = FALSE, !.probes = reached]
           heard == [t EXCEPT !.probes = FALSE, !.stun_gathered = TRUE,
                              !.local = t.local \cup {SrflxCand}]
           timed(u) == [u EXCEPT !.gather_timer = TRUE]
<1>1. Calm(t, begun) /\ Calm(t, heard)
  BY DEF Calm, Sess
<1>2. /\ start_multi_stun_probes(t, reached) \in {timed(begun), on_gathering_complete(begun)}
      /\ handle_gather_response(t) \in {heard, timed(heard), on_gathering_complete(heard)}
  BY DEF start_multi_stun_probes, handle_gather_response
<1> HIDE DEF begun, heard
<1>3. ASSUME NEW u, Sess(u) PROVE Calm(u, timed(u))
  BY <1>3 DEF Calm, Sess
<1> HIDE DEF timed
<1>4. Calm(begun, on_gathering_complete(begun)) /\ Calm(heard, on_gathering_complete(heard))
  BY <1>1, GatheringCalm DEF Calm
<1>5. Calm(t, start_multi_stun_probes(t, reached))
  BY <1>1, <1>2, <1>3, <1>4 DEF Calm
<1>6. Calm(t, handle_gather_response(t))
  BY <1>1, <1>2, <1>3, <1>4 DEF Calm
<1> QED BY <1>5, <1>6

\* A list that is rebuilt under way.
LEMMA RebuildCalm ==
    ASSUME NEW t, Sess(t)
    PROVE  /\ Calm(t, run_next_check(build_check_list(t), {}))
           /\ Calm(t, RebuildIfChecking(t))
<1>1. Calm(t, run_next_check(build_check_list(t), {}))
  BY BuildCalm, RunNextCalm DEF Calm
<1> QED BY <1>1 DEF RebuildIfChecking, Calm

\* An allocation.
LEMMA AllocCalm ==
    ASSUME NEW t, Sess(t)
    PROVE  Calm(t, on_alloc(t))
<1> DEFINE taken == [t EXCEPT !.alloc_posted = FALSE, !.turn_timer = FALSE]
           wider == [taken EXCEPT !.local = @ \cup {RelayCand}]
           joined == TurnSettled(wider)
           rebuilt == run_next_check(build_check_list(joined), {})
<1>1. Calm(t, taken)
  BY DEF Calm, Sess
<1>2. on_alloc(t) \in {taken, joined, rebuilt, on_gathered(rebuilt)}
  BY DEF on_alloc
<1> HIDE DEF taken
<1>3. Calm(taken, wider)
  BY <1>1 DEF Calm, Sess
<1> HIDE DEF wider
<1>4. Calm(wider, joined)
  BY <1>3, GatheringCalm DEF Calm
<1> HIDE DEF joined
<1>5. Calm(joined, rebuilt)
  BY <1>4, RebuildCalm DEF Calm
<1> HIDE DEF rebuilt
<1>6. Calm(rebuilt, on_gathered(rebuilt))
  BY <1>5, GatheringCalm DEF Calm
<1> QED BY <1>1, <1>2, <1>3, <1>4, <1>5, <1>6 DEF Calm

\* A switch of roles, and new flags of the peer.
LEMMA SwitchCalm ==
    ASSUME NEW t, Sess(t), NEW symmetric
    PROVE  Calm(t, switch_role(t)) /\ Calm(t, set_peer_signal_flags(t, symmetric))
<1> DEFINE u == [t EXCEPT !.controlling = ~t.controlling]
           v == [t EXCEPT !.symmetric = symmetric]
<1>1. Calm(t, u) /\ Calm(t, v) /\ Calm(t, t)
  BY DEF Calm, Sess
<1>2. /\ switch_role(t) = RebuildIfChecking(u)
      /\ set_peer_signal_flags(t, symmetric) \in {t, RebuildIfChecking(v)}
  BY DEF switch_role, set_peer_signal_flags
<1> HIDE DEF u, v
<1>3. Calm(u, RebuildIfChecking(u)) /\ Calm(v, RebuildIfChecking(v))
  BY <1>1, RebuildCalm DEF Calm
<1> QED BY <1>1, <1>2, <1>3 DEF Calm

\* A triggered check does not count as the scheduler's; an endpoint that some
\* pair covers triggers none.
LEMMA TriggerCalm ==
    ASSUME NEW t, Sess(t), NEW e
    PROVE  LET u == maybe_trigger_check_from_peer(t, e)
           IN /\ Calm(t, u)
              /\ (\E p \in Listed(t.check_list) : p[2] = e) => u = t
<1> DEFINE family == {l \in t.local : FamilyOf[l] = FamilyOf[e]}
           pair == [state |-> "InProgress",
                    retries |-> IF t.state \in {"Checking", "Connected"}
                                THEN 1 ELSE 0,
                    valid |-> FALSE, nominee |-> FALSE,
                    pending |-> /\ ~t.controlling
                                /\ t.pending_nom # NoNom
                                /\ t.pending_nom.end = e,
                    triggered |-> TRUE]
           at == <<FirstLocal(family), e>>
           cl == [t.check_list EXCEPT ![at] = pair]
           u == maybe_trigger_check_from_peer(t, e)
<1>1. /\ {"state", "triggered", "valid"} \subseteq DOMAIN pair
      /\ pair.state = "InProgress" /\ pair.triggered
  OBVIOUS
<1>2. /\ u = t \/ u = [t EXCEPT !.check_list = cl]
      /\ (\E p \in Listed(t.check_list) : p[2] = e) => u = t
  BY DEF maybe_trigger_check_from_peer
<1> HIDE DEF pair, at, u
<1>3. Fewer(t.check_list, cl)
  <2>1. /\ DOMAIN cl = Pairs
        /\ \A p \in Pairs : cl[p] = pair \/ cl[p] = t.check_list[p]
    BY DEF Sess, Fit
  <2> HIDE DEF cl
  <2> QED BY <1>1, <2>1 DEF Sess, Fit, Fewer
<1> HIDE DEF cl
<1>4. Fit(cl)
  BY <1>3, FewerFit DEF Sess
<1>5. Calm(t, t) /\ Calm(t, [t EXCEPT !.check_list = cl])
  BY <1>4, ListCalm DEF Calm
<1>6. Calm(t, u) /\ ((\E p \in Listed(t.check_list) : p[2] = e) => u = t)
  BY <1>2, <1>5
<1> QED BY <1>6 DEF u

\* A pair that USE-CANDIDATE names, and that was answered, is nominated; others
\* are marked.
LEMMA UseEarned ==
    ASSUME NEW t, Sess(t), NEW context, NEW elapsed, NEW built
    PROVE  LET u == use_candidate(t, context, elapsed, built)
           IN \/ Calm(t, u)
              \/ /\ Sess(u) /\ u.controlling = t.controlling
                 /\ Valid(u.check_list) # {}
                 /\ \E p \in Listed(u.check_list) : p[2] = context.end
<1> DEFINE match == {p \in Listed(t.check_list) : p[2] = context.end}
           p == First(match)
           pair == t.check_list[p]
           noted == [t EXCEPT !.pending_nom = context]
           cl == [t.check_list EXCEPT ![p] =
                     [pair EXCEPT !.pending = TRUE,
                                  !.state = IF pair.state = "Frozen"
                                            THEN "Waiting" ELSE pair.state]]
           marked == [noted EXCEPT !.check_list = cl]
           named == on_nominated(t, context, built)
           u == use_candidate(t, context, elapsed, built)
<1>1. u = IF match = {} THEN run_next_check(noted, elapsed)
          ELSE IF pair.state = "Succeeded" THEN named
          ELSE run_next_check(marked, elapsed)
  BY DEF use_candidate
<1>2. match # {} => p \in match /\ p \in Pairs
  BY FirstIn DEF Listed
<1>3. Calm(t, noted) /\ noted.check_list = t.check_list
  BY DEF Calm, Sess
<1>4. CASE match = {}
  <2> HIDE DEF noted
  <2> QED BY <1>1, <1>3, <1>4, RunNextCalm DEF Calm
<1>5. CASE match # {} /\ pair.state # "Succeeded"
  <2>1. p \in Pairs
    BY <1>2, <1>5
  <2>2. Fit(t.check_list)
    BY DEF Sess
  <2> HIDE DEF p
  <2>3. Fewer(t.check_list, cl)
    <3>1. /\ DOMAIN cl = Pairs
          /\ \A q \in Pairs :
                /\ {"state", "triggered", "valid"} \subseteq DOMAIN cl[q]
                /\ cl[q].valid = t.check_list[q].valid
                /\ cl[q].triggered = t.check_list[q].triggered
                /\ \/ cl[q].state = t.check_list[q].state
                   \/ cl[q].state = "Waiting"
      BY <2>1, <2>2 DEF Fit
    <3> HIDE DEF cl
    <3> QED BY <2>2, <3>1 DEF Fit, Fewer
  <2> HIDE DEF cl, noted
  <2>4. Fit(cl)
    BY <2>2, <2>3, FewerFit
  <2>5. Calm(noted, marked)
    BY <1>3, <2>4, ListCalm DEF Calm
  <2> HIDE DEF marked
  <2>6. Calm(marked, run_next_check(marked, elapsed))
    BY <2>5, RunNextCalm DEF Calm
  <2> QED BY <1>1, <1>3, <1>5, <2>5, <2>6 DEF Calm
<1>6. CASE match # {} /\ pair.state = "Succeeded"
  <2>1. p \in Pairs /\ p \in Listed(t.check_list) /\ p[2] = context.end
    BY <1>2, <1>6
  <2>2. p \in Valid(t.check_list)
    BY <1>6, <2>1 DEF Sess, Fit, Valid
  <2> HIDE DEF p
  <2>3. /\ Sess(named)
        /\ named.state = "Connected" => /\ named.check_list = t.check_list
                                        /\ named.controlling = t.controlling
    BY NominatedHeld
  <2> HIDE DEF named
  <2>4. CASE named.state = "Connected"
    BY <1>1, <1>6, <2>1, <2>2, <2>3, <2>4
  <2>5. CASE named.state # "Connected"
    BY <1>1, <1>6, <2>3, <2>5 DEF Calm
  <2> QED BY <2>4, <2>5
<1> QED BY <1>4, <1>5, <1>6

\* A request connects a controlled session to an endpoint it has an answer
\* from, or that a pair with an answer covers.
LEMMA RequestEarned ==
    ASSUME NEW t, Sess(t), NEW context, NEW peerControls, NEW named, NEW elapsed,
           NEW built
    PROVE  Earned(t, handle_binding_request(t, context, peerControls, named,
                                            elapsed, built))
<1> DEFINE conflict == peerControls = t.controlling
           played == IF conflict THEN switch_role(t) ELSE t
           since == IF conflict THEN {} ELSE elapsed
           used == use_candidate(played, context, since, built)
           marked == IF named /\ ~played.controlling THEN used ELSE played
           last == maybe_trigger_check_from_peer(marked, context.end)
           result == handle_binding_request(t, context, peerControls, named,
                                            elapsed, built)
<1>1. result = IF conflict /\ WinsTie THEN t ELSE last
  BY DEF handle_binding_request
<1>2. Calm(t, played)
  BY SwitchCalm DEF Calm
<1> HIDE DEF conflict, played, since
<1>3. \/ Calm(played, used)
      \/ /\ Sess(used) /\ used.controlling = played.controlling
         /\ Valid(used.check_list) # {}
         /\ \E p \in Listed(used.check_list) : p[2] = context.end
  BY <1>2, UseEarned DEF Calm
<1> HIDE DEF used
<1>4. \/ Calm(t, marked)
      \/ /\ Sess(marked) /\ ~marked.controlling
         /\ Valid(marked.check_list) # {}
         /\ \E p \in Listed(marked.check_list) : p[2] = context.end
  BY <1>2, <1>3 DEF Calm
<1> HIDE DEF marked
<1>5. /\ Calm(marked, last)
      /\ (\E p \in Listed(marked.check_list) : p[2] = context.end) => last = marked
  BY <1>4, TriggerCalm DEF Calm
<1> HIDE DEF last, result
<1>6. Earned(t, last)
  BY <1>4, <1>5 DEF Calm, Earned, Answered
<1>7. Earned(t, result)
  BY <1>1, <1>6 DEF Earned
<1> QED BY <1>7 DEF result

\* A batch of candidates.
LEMMA CandidatesCalm ==
    ASSUME NEW t, Sess(t), NEW ufrag, NEW ends, NEW eoc
    PROVE  Calm(t, add_remote_candidates(t, ufrag, ends, eoc))
<1> DEFINE changed == t.ufrag # 0 /\ t.ufrag # ufrag
           cl == IF changed THEN NoPairs ELSE t.check_list
           fresh == [t EXCEPT !.ufrag = ufrag, !.check_list = cl]
           picked == IF /\ eoc /\ t.controlling /\ ~Aggressive
                        /\ ~t.nominee_selected
                     THEN select_nominee(fresh) ELSE fresh
           remote == IF changed THEN ends ELSE picked.remote \cup ends
           merged == [picked EXCEPT !.remote = remote]
           result == add_remote_candidates(t, ufrag, ends, eoc)
<1>1. Fit(cl)
  BY NoPairsFit DEF Sess
<1>2. result \in {merged, StartChecking(merged), StartChecking(on_gathered(merged)),
                  run_next_check(build_check_list(merged), {})}
  BY DEF add_remote_candidates
<1> HIDE DEF changed, cl, result
<1>3. Calm(t, fresh)
  BY <1>1 DEF Calm, Sess
<1> HIDE DEF fresh
<1>4. Calm(t, picked)
  BY <1>3, SelectCalm DEF Calm
<1> HIDE DEF picked, remote
<1>5. Calm(t, merged)
  BY <1>4 DEF Calm, Sess
<1> HIDE DEF merged
<1>6. Sess(on_gathered(merged))
  BY <1>5, GatheringCalm DEF Calm
<1>7. Calm(t, result)
  BY <1>2, <1>5, <1>6, StartCalm, RebuildCalm DEF Calm
<1> QED BY <1>7 DEF result

-----------------------------------------------------------------------------

\* A check that an error response ends.
LEMMA ErrorCalm ==
    ASSUME NEW t, Sess(t), NEW p \in Pairs
    PROVE  Calm(t, on_check_error(t, p))
<1>1. Fit(Complete(t.check_list, p, "Failed"))
  BY CompleteFit DEF Sess
<1> QED BY <1>1, ListCalm DEF on_check_error

\* Every step keeps the check list within the cap, and connects the session
\* only by an answer.
LEMMA StepEarned == Sess(s) /\ [Next]_vars => Earned(s, s')
<1> SUFFICES ASSUME Sess(s), [Next]_vars PROVE Earned(s, s')
  OBVIOUS
<1>1. ASSUME NEW t, Handle(t) \/ Input(t) PROVE s' = t
  BY <1>1 DEF Handle, Input, Outcome
<1>2. ASSUME NEW t, Calm(s, t) PROVE Earned(s, t)
  BY <1>2 DEF Calm, Earned
<1>3. CASE Gather
  BY <1>1, <1>3, GatherCalm DEF Gather, Earned
<1>4. CASE StunStart
  BY <1>1, <1>2, <1>4, StunCalm DEF StunStart
<1>5. CASE StunAnswer
  BY <1>1, <1>2, <1>5, StunCalm DEF StunAnswer
<1>6. CASE GatherTimeout
  BY <1>1, <1>2, <1>6, GatheringCalm DEF GatherTimeout
<1>7. CASE TurnNext
  BY <1>1, <1>2, <1>7, AttemptCalm DEF TurnNext
<1>8. CASE TurnTimeout
  <2> DEFINE done == [s EXCEPT !.turn_timer = FALSE]
             next == [s EXCEPT !.turn_timer = FALSE,
                               !.turn_attempt = s.turn_attempt + 1]
  <2>1. Calm(s, done) /\ Calm(s, next)
    BY DEF Calm, Sess
  <2>2. s' = done \/ \E built \in Built : s' = try_next_turn_attempt(next, built)
    BY <1>1, <1>8 DEF TurnTimeout
  <2> HIDE DEF done, next
  <2>3. \A built : Calm(s, try_next_turn_attempt(next, built))
    BY <2>1, AttemptCalm DEF Calm
  <2> QED BY <1>2, <2>1, <2>2, <2>3
<1>9. CASE TurnAllocated
  <2>1. Calm(s, [s EXCEPT !.turn = "Allocated", !.alloc_posted = TRUE])
    BY DEF Calm, Sess
  <2> QED BY <1>1, <1>2, <1>9, <2>1 DEF TurnAllocated
<1>10. CASE OnAlloc
  BY <1>1, <1>2, <1>10, AllocCalm DEF OnAlloc
<1>11. ASSUME NEW elapsed, CheckTick(elapsed) PROVE Earned(s, s')
  <2> DEFINE u == [s EXCEPT !.check_timer = FALSE]
  <2>1. Calm(s, u)
    BY DEF Calm, Sess
  <2>2. s' = run_next_check(u, elapsed)
    BY <1>1, <1>11 DEF CheckTick
  <2> HIDE DEF u
  <2> QED BY <1>2, <2>1, <2>2, RunNextCalm DEF Calm
<1>12. CASE WaitExpires
  <2> DEFINE u == [s EXCEPT !.wait_timer = FALSE]
  <2>1. Calm(s, u) /\ Calm(s, Fail(u))
    BY DEF Calm, Sess, Fail
  <2> QED BY <1>1, <1>2, <1>12, <2>1 DEF WaitExpires
<1>13. CASE KeepaliveTick
  <2> DEFINE u == [s EXCEPT !.keepalive_timer = FALSE]
  <2>1. Calm(s, u)
    BY DEF Calm, Sess
  <2>2. PICK early \in BOOLEAN, built \in Built : s' = on_keepalive(u, early, built)
    BY <1>1, <1>13 DEF KeepaliveTick
  <2> HIDE DEF u
  <2> QED BY <1>2, <2>1, <2>2, KeepaliveCalm DEF Calm
<1>14. ASSUME NEW p \in Pairs, CheckAnswer(p) PROVE Earned(s, s')
  BY <1>1, <1>14, ResponseEarned DEF CheckAnswer
<1>15. ASSUME NEW p \in Pairs, CheckError(p) PROVE Earned(s, s')
  BY <1>1, <1>2, <1>15, ErrorCalm DEF CheckError
<1>16. CASE ConsentAnswer
  <2>1. Calm(s, [s EXCEPT !.consent_missed = 0])
    BY DEF Calm, Sess
  <2> QED BY <1>1, <1>2, <1>16, <2>1 DEF ConsentAnswer
<1>17. CASE RoleConflictAnswer
  BY <1>1, <1>2, <1>17, SwitchCalm DEF RoleConflictAnswer
<1>18. CASE BindingRequest
  BY <1>1, <1>18, RequestEarned DEF BindingRequest
<1>19. CASE RemoteCandidates
  BY <1>1, <1>2, <1>19, CandidatesCalm DEF RemoteCandidates
<1>20. CASE PeerFlags
  BY <1>1, <1>2, <1>20, SwitchCalm DEF PeerFlags
<1>21. CASE Restart
  BY <1>1, <1>2, <1>21, RestartCalm DEF Restart
<1>22. CASE Close
  <2>1. Calm(s, Fail(s))
    BY DEF Calm, Sess, Fail
  <2> QED BY <1>2, <1>22, <2>1 DEF Close
<1>23. CASE CloseTaskRuns
  <2>1. Calm(s, CloseTask(s))
    BY DEF Calm, Sess, CloseTask
  <2> QED BY <1>2, <1>23, <2>1 DEF CloseTaskRuns
<1>24. CASE UNCHANGED vars
  BY <1>24 DEF vars, Earned
<1> QED
  BY <1>3, <1>4, <1>5, <1>6, <1>7, <1>8, <1>9, <1>10, <1>11, <1>12, <1>13,
     <1>14, <1>15, <1>16, <1>17, <1>18, <1>19, <1>20, <1>21, <1>22, <1>23, <1>24
     DEF Next

\* A new session has no pairs.
LEMMA InitSess == Init => Sess(s)
<1>1. ASSUME NEW controlling PROVE Sess(NewSession(controlling))
  BY NoPairsFit DEF NewSession, Sess
<1> QED BY <1>1 DEF Init

\* Whatever the peer, the network and the operator do, run_next_check's own
\* checks never exceed kCheckConcurrencyCap: a list that is rebuilt, restarted
\* or swept while checks are out starts no more than the cap leaves room for.
\* The opening round of begin_checks sends one pair of each address family
\* without counting, so the cap must be at least the number of families.
THEOREM CapHolds ==
    ASSUME FewFamilies PROVE Spec => []CapRespected
<1>1. Sess(s) /\ [Next]_vars => Sess(s)'
  BY StepEarned DEF Earned
<1>2. Sess(s) => CapRespected
  <2> SUFFICES ASSUME Sess(s) PROVE CapRespected
    OBVIOUS
  <2>1. {p \in InFlight : ~s.check_list[p].triggered} = Own(s.check_list)
    BY DEF InFlight, In, Own
  <2> QED BY <2>1 DEF CapRespected, Sess, Fit
<1> QED BY <1>1, <1>2, InitSess, PTL DEF Spec

\* No sequence of requests, answers, restarts, rebuilds or role switches
\* connects a session without an answered check; a session that is connected
\* while it controls goes to an endpoint whose own check was answered.
THEOREM ConnectedByAnswer == Spec => ConnectsOnAnswer
<1>1. Sess(s) /\ [Next]_vars => Sess(s)'
  BY StepEarned DEF Earned
<1>2. Sess(s) /\ [Next]_vars
        => [s.state # "Connected" /\ s'.state = "Connected"
              => \E p \in Valid(s'.check_list) :
                    s'.controlling => p[2] = s'.nominated.end]_vars
  BY StepEarned DEF Earned, Answered
<1> QED BY <1>1, <1>2, InitSess, PTL DEF Spec, ConnectsOnAnswer

-----------------------------------------------------------------------------
\* What the third part needs of a session record.
Has(t) == {"state", "stun_posted", "gather_timer", "turn_timer", "turn_posted",
           "alloc_posted", "turn", "turn_gathering", "remote",
           "consent_missed"} \subseteq DOMAIN t

\* What will end a session's gathering: with STUN its task or its timeout,
\* else the TURN attempt's timer or one of its tasks.
Guarded(t) ==
    IF HasStun THEN t.stun_posted \/ t.gather_timer
    ELSE /\ t.turn_timer \/ t.turn_posted \/ t.alloc_posted
         /\ t.turn = "Allocated" => t.alloc_posted

\* A session that gathers is guarded, and a new one does not wait for TURN.
Tended(t) == /\ Has(t)
             /\ t.state = "Gathering" => Guarded(t)
             /\ t.state = "New" => ~t.turn_gathering

\* A session that is past gathering.
Past(u) == Has(u) /\ u.state \notin {"New", "Gathering"}

\* A step that leaves alone all that Tended is about.
Spared(t, u) == /\ Has(u) /\ u.state = t.state
                /\ u.stun_posted = t.stun_posted
                /\ u.gather_timer = t.gather_timer
                /\ u.turn_timer = t.turn_timer /\ u.turn_posted = t.turn_posted
                /\ u.alloc_posted = t.alloc_posted /\ u.turn = t.turn
                /\ u.turn_gathering = t.turn_gathering

\* Past gathering there is nothing to tend; what is spared stays tended.
LEMMA StaysTended ==
    ASSUME NEW t, NEW u, Past(u) \/ (Tended(t) /\ Spared(t, u))
    PROVE  Tended(u)
BY DEF Tended, Past, Spared, Guarded

\* The members of the check driver are not those of gathering.
LEMMA OthersKept ==
    ASSUME NEW t, Has(t), NEW v
    PROVE  /\ Spared(t, [t EXCEPT !.check_list = v])
           /\ Spared(t, [t EXCEPT !.controlling = v])
           /\ Spared(t, [t EXCEPT !.symmetric = v])
           /\ Spared(t, [t EXCEPT !.pending_nom = v])
           /\ Spared(t, [t EXCEPT !.signalled = v])
           /\ Spared(t, [t EXCEPT !.remote = v])
           /\ Spared(t, [t EXCEPT !.local = v])
           /\ Spared(t, [t EXCEPT !.check_timer = v])
           /\ Spared(t, [t EXCEPT !.wait_timer = v])
           /\ Spared(t, [t EXCEPT !.keepalive_timer = v])
           /\ Spared(t, [t EXCEPT !.consent_missed = v])
<1> SUFFICES ASSUME NEW f \in {"check_list", "controlling", "symmetric",
                               "pending_nom", "signalled", "remote", "local",
                               "check_timer", "wait_timer", "keepalive_timer",
                               "consent_missed"}
             PROVE  Spared(t, [t EXCEPT ![f] = v])
  OBVIOUS
<1> QED BY DEF Has, Spared

\* The driver fails checking sessions, and touches no other.
LEMMA RunNextTended ==
    ASSUME NEW t, Tended(t), NEW elapsed
    PROVE  /\ Tended(run_next_check(t, elapsed))
           /\ t.state = "Checking" => Past(run_next_check(t, elapsed))
<1>1. CASE t.state # "Checking"
  BY <1>1 DEF run_next_check
<1>2. CASE t.state = "Checking"
  <2>1. Past(run_next_check(t, elapsed))
    BY <1>2 DEF run_next_check, Tended, Past, Has, Fail
  <2> QED BY <2>1, StaysTended
<1> QED BY <1>1, <1>2

\* Building the check list is no part of gathering.
LEMMA BuildTended ==
    ASSUME NEW t, Tended(t)
    PROVE  Tended(build_check_list(t)) /\ build_check_list(t).state = t.state
<1>1. PICK dl : build_check_list(t) = [t EXCEPT !.check_list = dl]
  BY DEF build_check_list
<1>2. Spared(t, [t EXCEPT !.check_list = dl])
  BY OthersKept DEF Tended
<1> QED BY <1>1, <1>2, StaysTended DEF Spared

\* Checks that start are past gathering.
LEMMA StartPast ==
    ASSUME NEW t, Has(t)
    PROVE  Past(StartChecking(t))
<1> DEFINE u == [t EXCEPT !.state = "Checking"]
           v == build_check_list(u)
           w(dl) == [v EXCEPT !.check_list = dl]
<1>1. Past(u) /\ u.state = "Checking"
  BY DEF Past, Has
<1>2. \/ StartChecking(t) = v
      \/ \E dl : StartChecking(t) = run_next_check(w(dl), {})
  BY DEF StartChecking, begin_checks
<1> HIDE DEF u
<1>3. Tended(v) /\ v.state = "Checking"
  BY <1>1, StaysTended, BuildTended
<1> HIDE DEF v
<1>4. ASSUME NEW dl PROVE Tended(w(dl)) /\ w(dl).state = "Checking"
  <2>1. Spared(v, w(dl))
    BY <1>3, OthersKept DEF Tended
  <2> QED BY <1>3, <2>1, StaysTended DEF Spared
<1> HIDE DEF w
<1> QED BY <1>2, <1>3, <1>4, RunNextTended DEF Past, Tended

\* A rebuilt list is checked on, when there were checks.
LEMMA RebuildTended ==
    ASSUME NEW t, Tended(t)
    PROVE  /\ Tended(run_next_check(build_check_list(t), {}))
           /\ Tended(RebuildIfChecking(t))
BY BuildTended, RunNextTended DEF RebuildIfChecking

\* on_gathering_complete always ends gathering.
LEMMA CompleteTended ==
    ASSUME NEW t, Has(t), t.state = "New" => ~t.turn_gathering
    PROVE  /\ Tended(on_gathering_complete(t))
           /\ on_gathering_complete(t).state # "Gathering"
<1> DEFINE quiet == [t EXCEPT !.probes = FALSE, !.gather_timer = FALSE]
           idle == [quiet EXCEPT !.state = "WaitingRemote"]
<1>1. /\ Has(quiet) /\ quiet.state = t.state
      /\ quiet.turn_gathering = t.turn_gathering
      /\ Past(idle)
  BY DEF Has, Past
<1>2. on_gathering_complete(t)
        = on_gathered(IF t.state # "Gathering" THEN quiet
                      ELSE IF t.remote # {} THEN StartChecking(quiet) ELSE idle)
  BY DEF on_gathering_complete
<1> HIDE DEF quiet, idle
<1>3. ASSUME NEW u, Tended(u), u.state # "Gathering"
      PROVE  Tended(on_gathered(u)) /\ on_gathered(u).state # "Gathering"
  <2>1. Spared(u, [u EXCEPT !.signalled = u.local])
    BY <1>3, OthersKept DEF Tended
  <2> QED BY <1>3, <2>1, StaysTended DEF Spared, on_gathered
<1>4. CASE t.state # "Gathering"
  <2>1. Tended(quiet)
    BY <1>1, <1>4 DEF Tended
  <2> QED BY <1>1, <1>2, <1>3, <1>4, <2>1
<1>5. CASE t.state = "Gathering"
  <2>1. ASSUME NEW u, Past(u) PROVE Tended(u) /\ u.state # "Gathering"
    BY <2>1, StaysTended DEF Past
  <2>2. Past(StartChecking(quiet))
    BY <1>1, StartPast
  <2> QED BY <1>1, <1>2, <1>3, <1>5, <2>1, <2>2
<1> QED BY <1>4, <1>5

\* When TURN is settled, a session that still gathers waits for STUN.
LEMMA SettledTended ==
    ASSUME NEW t, Has(t)
    PROVE  /\ Has(TurnSettled(t))
           /\ (HasStun => Tended(t)) => Tended(TurnSettled(t))
<1> DEFINE u == [t EXCEPT !.turn_gathering = FALSE]
<1>1. /\ Has(u) /\ ~u.turn_gathering
      /\ u.state = t.state /\ u.stun_posted = t.stun_posted
      /\ u.gather_timer = t.gather_timer
  BY DEF Has
<1>2. TurnSettled(t) = IF t.stun_gathered \/ ~HasStun
                       THEN on_gathering_complete(u) ELSE u
  BY DEF TurnSettled
<1> HIDE DEF u
<1>3. HasStun /\ Tended(t) => Tended(u)
  BY <1>1 DEF Tended, Guarded
<1>4. Tended(on_gathering_complete(u))
  BY <1>1, CompleteTended
<1> QED BY <1>1, <1>2, <1>3, <1>4 DEF Tended

\* The next TURN attempt is timed, is posted, or there is none left.
LEMMA AttemptTended ==
    ASSUME NEW t, Has(t), t.state = "New" => ~t.turn_gathering, NEW built
    PROVE  /\ Has(try_next_turn_attempt(t, built))
           /\ (HasStun => Tended(t)) => Tended(try_next_turn_attempt(t, built))
<1> DEFINE idle == [t EXCEPT !.turn = "None", !.turn_timer = FALSE,
                             !.turn_posted = FALSE]
           trying == [idle EXCEPT !.turn = "Allocating", !.turn_timer = TRUE]
           next == [idle EXCEPT !.turn_attempt = @ + 1, !.turn_posted = TRUE]
<1> DEFINE Like(u) == /\ Has(u) /\ u.state = t.state
                      /\ u.stun_posted = t.stun_posted
                      /\ u.gather_timer = t.gather_timer
                      /\ u.turn_gathering = t.turn_gathering
<1>1. /\ Like(idle)
      /\ Like(trying) /\ trying.turn = "Allocating" /\ trying.turn_timer
      /\ Like(next) /\ next.turn = "None" /\ next.turn_posted
  BY DEF Has
<1>2. try_next_turn_attempt(t, built) \in {TurnSettled(idle), trying, next}
  BY DEF try_next_turn_attempt
<1> HIDE DEF idle, trying, next
<1>3. ASSUME NEW u, Like(u), HasStun, Tended(t) PROVE Tended(u)
  BY <1>3 DEF Tended, Guarded
<1>4. /\ Has(TurnSettled(idle))
      /\ (HasStun => Tended(t)) => Tended(TurnSettled(idle))
  BY <1>1, <1>3, SettledTended
<1>5. /\ Has(trying) /\ Has(next)
      /\ (HasStun => Tended(t)) => Tended(trying) /\ Tended(next)
  BY <1>1, <1>3 DEF Tended, Guarded
<1> QED BY <1>2, <1>4, <1>5

\* gather() leaves a session tended, or gathering is already over.
LEMMA GatherBeginsTended ==
    ASSUME NEW t, Has(t), ~t.turn_gathering, NEW built
    PROVE  Tended(gather(t, built))
<1> DEFINE u == gather_host_candidates([t EXCEPT !.state = "Gathering"])
           v == [u EXCEPT !.turn_gathering = TRUE, !.turn_attempt = 0]
           relayed == gather_relay(u, built)
           w == [relayed EXCEPT !.stun_posted = TRUE]
<1>1. /\ Has(u) /\ u.state = "Gathering" /\ ~u.turn_gathering
      /\ Has(v) /\ v.state = "Gathering"
  BY DEF Has, gather_host_candidates
<1>2. /\ relayed = IF TurnServers = 0 THEN u ELSE try_next_turn_attempt(v, built)
      /\ gather(t, built) = IF HasStun THEN w
                            ELSE IF relayed.turn_gathering THEN relayed
                            ELSE on_gathering_complete(relayed)
  BY DEF gather, gather_relay
<1> HIDE DEF u, v
<1>3. CASE ~HasStun
  <2>1. Tended(try_next_turn_attempt(v, built))
    BY <1>1, <1>3, AttemptTended
  <2>2. CASE TurnServers = 0
    BY <1>1, <1>2, <1>3, <2>2, CompleteTended
  <2>3. CASE TurnServers # 0
    <3> HIDE DEF relayed
    <3>1. Tended(relayed)
      BY <1>2, <2>1, <2>3
    <3>2. ~relayed.turn_gathering => Tended(on_gathering_complete(relayed))
      BY <3>1, CompleteTended DEF Tended
    <3> QED BY <1>2, <1>3, <3>1, <3>2
  <2> QED BY <2>2, <2>3
<1>4. CASE HasStun
  <2>1. Has(relayed)
    BY <1>1, <1>2, AttemptTended
  <2> HIDE DEF relayed
  <2>2. Has(w) /\ w.stun_posted
    BY <2>1 DEF Has
  <2>3. gather(t, built).state # "New"
    BY GatherTame DEF Has, Rec
  <2> QED BY <1>2, <1>4, <2>2, <2>3 DEF Tended, Guarded
<1> QED BY <1>3, <1>4

\* So does restart(), tasks of the previous round still being posted.
LEMMA RestartTended ==
    ASSUME NEW t, Tended(t), NEW built
    PROVE  Tended(restart(t, built))
<1> DEFINE fresh == [NewSession(t.controlling) EXCEPT
                       !.controlling = t.controlling,
                       !.pending_nom = t.pending_nom,
                       !.attempts = t.attempts, !.backoff = t.backoff]
           u == [fresh EXCEPT !.stun_posted = t.stun_posted,
                              !.turn_posted = t.turn_posted,
                              !.alloc_posted = t.alloc_posted]
<1>1. Has(u) /\ ~u.turn_gathering
  BY DEF Has, NewSession
<1>2. restart(t, built) = IF t.state = "Failed" THEN t ELSE gather(u, built)
  BY DEF restart
<1> HIDE DEF u
<1> QED BY <1>1, <1>2, GatherBeginsTended

\* Consent checks recover, restart or fail a connected session.
LEMMA KeepaliveTended ==
    ASSUME NEW t, Tended(t), NEW early, NEW built
    PROVE  Tended(on_keepalive(t, early, built))
<1> DEFINE missed == [t EXCEPT !.consent_missed = @ + 1]
           again == [missed EXCEPT !.keepalive_timer = TRUE]
           recovering == [missed EXCEPT !.recovery = @ + 1, !.consent_missed = 0]
           waiting == [missed EXCEPT !.consent_missed = 0]
           trying == [missed EXCEPT !.attempts = @ + 1, !.backoff = TRUE,
                                    !.consent_missed = 0]
<1>1. CASE t.state = "Connected"
  <2>1. /\ Past(again) /\ Has(recovering) /\ Past(waiting) /\ Past(trying)
        /\ Past(Fail(missed))
    BY <1>1 DEF Tended, Past, Has, Fail
  <2>2. on_keepalive(t, early, built) \in
          {t, again, StartChecking(recovering), Fail(missed), waiting,
           restart(trying, built)}
    BY DEF on_keepalive, notify_consent_loss
  <2> HIDE DEF missed, again, recovering, waiting, trying
  <2>3. Past(StartChecking(recovering))
    BY <2>1, StartPast
  <2>4. Tended(restart(trying, built))
    BY <2>1, StaysTended, RestartTended
  <2> QED BY <2>1, <2>2, <2>3, <2>4, StaysTended
<1>2. CASE t.state # "Connected"
  BY <1>2 DEF on_keepalive
<1> QED BY <1>1, <1>2

\* A nominated session is connected before its first consent check.
LEMMA NominatedTended ==
    ASSUME NEW t, Tended(t), NEW context, NEW built
    PROVE  Tended(on_nominated(t, context, built))
<1> DEFINE u == [t EXCEPT !.state = "Connected", !.nominated = context,
                  !.check_timer = FALSE, !.wait_timer = FALSE,
                  !.wait_armed = FALSE, !.consent_missed = 0,
                  !.recovery = 0, !.attempts = 0, !.backoff = FALSE]
<1>1. Past(u)
  BY DEF Tended, Past, Has
<1>2. on_nominated(t, context, built) = on_keepalive(u, FALSE, built)
  BY DEF on_nominated
<1> HIDE DEF u
<1> QED BY <1>1, <1>2, StaysTended, KeepaliveTended

\* Selecting the nominee is no part of gathering.
LEMMA SelectTended ==
    ASSUME NEW t, Tended(t)
    PROVE  Tended(select_nominee(t)) /\ select_nominee(t).state = t.state
<1>1. Spared(t, select_nominee(t))
  BY DEF select_nominee, Spared, Tended, Has
<1> QED BY <1>1, StaysTended DEF Spared

\* An answer marks its pair, selects a nominee or connects the session.
LEMMA ResponseTended ==
    ASSUME NEW t, Tended(t), NEW p, NEW built
    PROVE  Tended(handle_check_response(t, p, built))
<1> DEFINE set(dl) == [t EXCEPT !.check_list = dl]
           good == set(Complete([t.check_list EXCEPT ![p].valid = TRUE], p, "Succeeded"))
<1>1. ASSUME NEW dl PROVE Tended(set(dl))
  BY OthersKept, StaysTended DEF Tended
<1>2. \/ handle_check_response(t, p, built) \in {t, good, select_nominee(good)}
      \/ \E dl, context : handle_check_response(t, p, built)
                            = on_nominated(set(dl), context, built)
  BY DEF handle_check_response
<1>3. Tended(good)
  BY <1>1
<1> HIDE DEF set, good
<1> QED BY <1>1, <1>2, <1>3, SelectTended, NominatedTended

\* STUN probes are bounded by the gather timeout, or gathering is over.
LEMMA StunTended ==
    ASSUME NEW t, Tended(t), NEW reached
    PROVE  /\ Tended(start_multi_stun_probes(t, reached))
           /\ Tended(handle_gather_response(t))
<1> DEFINE begun == [t EXCEPT !.stun_posted = FALSE, !.probes = reached]
           heard == [t EXCEPT !.probes = FALSE, !.stun_gathered = TRUE,
                              !.local = t.local \cup {SrflxCand}]
           timed(u) == [u EXCEPT !.gather_timer = TRUE]
           Like(u) == /\ Has(u) /\ u.state = t.state
                      /\ u.turn_timer = t.turn_timer
                      /\ u.turn_posted = t.turn_posted
                      /\ u.alloc_posted = t.alloc_posted /\ u.turn = t.turn
                      /\ u.turn_gathering = t.turn_gathering
<1>1. /\ Like(begun) /\ Spared(t, heard) /\ Like(heard)
      /\ Like(timed(begun)) /\ timed(begun).gather_timer
      /\ Like(timed(heard)) /\ timed(heard).gather_timer
  BY DEF Tended, Has, Spared
<1>2. /\ start_multi_stun_probes(t, reached) \in {timed(begun), on_gathering_complete(begun)}
      /\ handle_gather_response(t) \in {heard, timed(heard), on_gathering_complete(heard)}
  BY DEF start_multi_stun_probes, handle_gather_response
<1> HIDE DEF begun, heard, timed
<1>3. ASSUME NEW u, Like(u), u.gather_timer PROVE Tended(u)
  BY <1>3 DEF Tended, Guarded
<1>4. ASSUME NEW u, Like(u) PROVE Tended(on_gathering_complete(u))
  BY <1>4, CompleteTended DEF Tended
<1>5. Tended(heard)
  BY <1>1, StaysTended
<1> QED BY <1>1, <1>2, <1>3, <1>4, <1>5

\* The task of an allocation ends gathering, or STUN still has to: this is
\* where a relay candidate that is filtered out needs STUN.
LEMMA AllocTended ==
    ASSUME NEW t, Tended(t), HasStun \/ RelayAllowed
    PROVE  Tended(on_alloc(t))
<1> DEFINE taken == [t EXCEPT !.alloc_posted = FALSE, !.turn_timer = FALSE]
           wider == [taken EXCEPT !.local = @ \cup {RelayCand}]
           joined == TurnSettled(wider)
           rebuilt == run_next_check(build_check_list(joined), {})
           Like(u) == /\ Has(u) /\ u.state = t.state
                      /\ u.stun_posted = t.stun_posted
                      /\ u.gather_timer = t.gather_timer
                      /\ u.turn_gathering = t.turn_gathering
<1>1. Like(taken) /\ Like(wider)
  BY DEF Tended, Has
<1>2. on_alloc(t) \in IF RelayAllowed THEN {joined, rebuilt, on_gathered(rebuilt)}
                                      ELSE {taken}
  BY DEF on_alloc
<1> HIDE DEF taken, wider
<1>3. ASSUME NEW u, Like(u), HasStun PROVE Tended(u)
  BY <1>3 DEF Tended, Guarded
<1>4. Tended(joined)
  BY <1>1, <1>3, SettledTended
<1> HIDE DEF joined
<1>5. Tended(rebuilt)
  BY <1>4, RebuildTended
<1> HIDE DEF rebuilt
<1>6. Tended(on_gathered(rebuilt))
  BY <1>5, OthersKept, StaysTended DEF on_gathered, Tended
<1> QED BY <1>1, <1>2, <1>3, <1>4, <1>5, <1>6

\* A role switch and the peer's flags are no part of gathering.
LEMMA SwitchTended ==
    ASSUME NEW t, Tended(t), NEW symmetric
    PROVE  Tended(switch_role(t)) /\ Tended(set_peer_signal_flags(t, symmetric))
<1> DEFINE u == [t EXCEPT !.controlling = ~t.controlling]
           v == [t EXCEPT !.symmetric = symmetric]
<1>1. /\ switch_role(t) = RebuildIfChecking(u)
      /\ set_peer_signal_flags(t, symmetric) \in {t, RebuildIfChecking(v)}
  BY DEF switch_role, set_peer_signal_flags
<1>2. Spared(t, u) /\ Spared(t, v)
  BY OthersKept DEF Tended
<1> HIDE DEF u, v
<1> QED BY <1>1, <1>2, StaysTended, RebuildTended

\* Nor is what the peer's requests do: they list, check or nominate a pair.
LEMMA RequestTended ==
    ASSUME NEW t, Tended(t), NEW context, NEW peerControls, NEW named,
           NEW elapsed, NEW built
    PROVE  Tended(handle_binding_request(t, context, peerControls, named,
                                          elapsed, built))
<1> DEFINE conflict == peerControls = t.controlling
           played == IF conflict THEN switch_role(t) ELSE t
           since == IF conflict THEN {} ELSE elapsed
           used == use_candidate(played, context, since, built)
           marked == IF named /\ ~played.controlling THEN used ELSE played
<1>1. handle_binding_request(t, context, peerControls, named, elapsed, built)
        \in {t, maybe_trigger_check_from_peer(marked, context.end)}
  BY DEF handle_binding_request
<1>2. Tended(played)
  BY SwitchTended
<1> HIDE DEF conflict, played, since
<1>3. Tended(used)
  <2> DEFINE noted == [played EXCEPT !.pending_nom = context]
             set(dl) == [noted EXCEPT !.check_list = dl]
  <2>1. \/ used = on_nominated(played, context, built)
        \/ used = run_next_check(noted, since)
        \/ \E dl : used = run_next_check(set(dl), since)
    BY DEF use_candidate
  <2>2. Tended(noted)
    BY <1>2, OthersKept, StaysTended DEF Tended
  <2> HIDE DEF noted
  <2>3. ASSUME NEW dl PROVE Tended(set(dl))
    BY <2>2, OthersKept, StaysTended DEF Tended
  <2> HIDE DEF set, used
  <2> QED BY <1>2, <2>1, <2>2, <2>3, NominatedTended, RunNextTended
<1> HIDE DEF used
<1>4. Tended(marked)
  BY <1>2, <1>3
<1> HIDE DEF marked
<1>5. Tended(maybe_trigger_check_from_peer(marked, context.end))
  <2>1. \/ maybe_trigger_check_from_peer(marked, context.end) = marked
        \/ \E dl : maybe_trigger_check_from_peer(marked, context.end)
                     = [marked EXCEPT !.check_list = dl]
    BY DEF maybe_trigger_check_from_peer
  <2>2. ASSUME NEW dl PROVE Tended([marked EXCEPT !.check_list = dl])
    BY <1>4, OthersKept, StaysTended DEF Tended
  <2> QED BY <1>4, <2>1, <2>2
<1> QED BY <1>1, <1>5

\* Remote candidates that arrive while the session gathers end its gathering,
\* unless it has no local candidate yet.
LEMMA CandidatesTended ==
    ASSUME NEW t, Tended(t), NEW ufrag, NEW ends, NEW eoc
    PROVE  Tended(add_remote_candidates(t, ufrag, ends, eoc))
<1> DEFINE changed == t.ufrag # 0 /\ t.ufrag # ufrag
           fresh == [t EXCEPT
                       !.ufrag = ufrag,
                       !.check_list = IF changed THEN NoPairs ELSE t.check_list]
           picked == IF /\ eoc /\ t.controlling /\ ~Aggressive
                        /\ ~t.nominee_selected
                     THEN select_nominee(fresh) ELSE fresh
           remote == IF changed THEN ends ELSE picked.remote \cup ends
           merged == [picked EXCEPT !.remote = remote]
<1>1. Tended(fresh)
  <2>1. Spared(t, fresh)
    BY DEF Spared, Tended, Has
  <2> QED BY <2>1, StaysTended
<1>2. add_remote_candidates(t, ufrag, ends, eoc) \in
        {merged, StartChecking(merged), StartChecking(on_gathered(merged)),
         run_next_check(build_check_list(merged), {})}
  BY DEF add_remote_candidates
<1> HIDE DEF fresh
<1>3. Tended(picked)
  BY <1>1, SelectTended
<1> HIDE DEF picked, remote
<1>4. Tended(merged)
  BY <1>3, OthersKept, StaysTended DEF Tended
<1> HIDE DEF merged
<1>5. Has(on_gathered(merged))
  BY <1>4 DEF on_gathered, Tended, Has
<1>6. Past(StartChecking(merged)) /\ Past(StartChecking(on_gathered(merged)))
  BY <1>4, <1>5, StartPast DEF Tended
<1> QED BY <1>2, <1>4, <1>6, StaysTended, RebuildTended

\* Every step leaves the session tended, until close() has run.
LEMMA WatchedStep ==
    ASSUME closing # "closed" => Tended(s), [Next]_vars, HasStun \/ RelayAllowed
    PROVE  closing' # "closed" => Tended(s')
<1> SUFFICES ASSUME closing' # "closed" PROVE Tended(s')
  OBVIOUS
<1>1. CASE closing = "closed"
  <2>1. closing' = "closed"
    BY <1>1 DEF Next, vars, Gather, StunStart, StunAnswer, GatherTimeout,
       TurnNext, TurnTimeout, TurnAllocated, OnAlloc, CheckTick, WaitExpires,
       KeepaliveTick, CheckAnswer, CheckError, ConsentAnswer,
       RoleConflictAnswer, BindingRequest, RemoteCandidates, PeerFlags,
       Restart, Close, CloseTaskRuns, Handle, Input, Outcome
  <2> QED BY <2>1
<1>2. CASE closing # "closed"
  <2>1. Tended(s) /\ Has(s)
    BY <1>2 DEF Tended
  <2>2. ASSUME NEW t, Handle(t) \/ Input(t), Tended(t) PROVE Tended(s')
    BY <2>2 DEF Handle, Input, Outcome
  <2>3. ASSUME NEW t, Handle(t) \/ Input(t), Spared(s, t) PROVE Tended(s')
    BY <2>1, <2>2, <2>3, StaysTended
  <2>4. CASE Gather
    BY <2>1, <2>2, <2>4, GatherBeginsTended DEF Gather, Tended
  <2>5. CASE StunStart
    BY <2>1, <2>2, <2>5, StunTended DEF StunStart
  <2>6. CASE StunAnswer
    BY <2>1, <2>2, <2>6, StunTended DEF StunAnswer
  <2>7. CASE GatherTimeout
    BY <2>1, <2>2, <2>7, CompleteTended DEF GatherTimeout, Tended
  <2>8. CASE TurnNext
    BY <2>1, <2>2, <2>8, AttemptTended DEF TurnNext, Tended
  <2>9. CASE TurnTimeout
    <3> DEFINE done == [s EXCEPT !.turn_timer = FALSE]
               next == [s EXCEPT !.turn_timer = FALSE,
                                 !.turn_attempt = s.turn_attempt + 1]
               Like(u) == /\ Has(u) /\ u.state = s.state
                          /\ u.stun_posted = s.stun_posted
                          /\ u.gather_timer = s.gather_timer
                          /\ u.turn_gathering = s.turn_gathering
    <3>1. /\ Like(done) /\ done.alloc_posted = s.alloc_posted
          /\ Like(next)
      BY <2>1 DEF Has
    <3>2. \/ s.turn = "Allocated" /\ Handle(done)
          \/ \E built \in Built : Handle(try_next_turn_attempt(next, built))
      BY <2>9 DEF TurnTimeout
    <3> HIDE DEF done, next
    <3>3. s.turn = "Allocated" => Tended(done)
      BY <2>1, <3>1 DEF Tended, Guarded
    <3>4. HasStun => Tended(next)
      BY <2>1, <3>1 DEF Tended, Guarded
    <3>5. ASSUME NEW built PROVE Tended(try_next_turn_attempt(next, built))
      BY <2>1, <3>1, <3>4, AttemptTended DEF Tended
    <3> QED BY <2>2, <3>2, <3>3, <3>5
  <2>10. CASE TurnAllocated
    <3> DEFINE u == [s EXCEPT !.turn = "Allocated", !.alloc_posted = TRUE]
    <3>1. /\ Has(u) /\ u.state = s.state /\ u.stun_posted = s.stun_posted
          /\ u.gather_timer = s.gather_timer /\ u.alloc_posted
          /\ u.turn_gathering = s.turn_gathering
      BY <2>1 DEF Has
    <3>2. Handle(u)
      BY <2>10 DEF TurnAllocated
    <3> HIDE DEF u
    <3>3. Tended(u)
      BY <2>1, <3>1 DEF Tended, Guarded
    <3> QED BY <2>2, <3>2, <3>3
  <2>11. CASE OnAlloc
    BY <2>1, <2>2, <2>11, AllocTended DEF OnAlloc
  <2>12. ASSUME NEW elapsed, CheckTick(elapsed) PROVE Tended(s')
    <3>1. Tended([s EXCEPT !.check_timer = FALSE])
      BY <2>1, OthersKept, StaysTended
    <3> QED BY <2>2, <2>12, <3>1, RunNextTended DEF CheckTick
  <2>13. CASE WaitExpires
    <3> DEFINE u == [s EXCEPT !.wait_timer = FALSE]
    <3>1. Spared(s, u) /\ Past(Fail(u))
      BY <2>1 DEF Spared, Past, Has, Fail
    <3>2. Handle(u) \/ Handle(Fail(u))
      BY <2>13 DEF WaitExpires
    <3> HIDE DEF u
    <3> QED BY <2>2, <2>3, <3>1, <3>2, StaysTended
  <2>14. CASE KeepaliveTick
    <3>1. Tended([s EXCEPT !.keepalive_timer = FALSE])
      BY <2>1, OthersKept, StaysTended
    <3> QED BY <2>2, <2>14, <3>1, KeepaliveTended DEF KeepaliveTick
  <2>15. ASSUME NEW p \in Pairs, CheckAnswer(p) PROVE Tended(s')
    BY <2>1, <2>2, <2>15, ResponseTended DEF CheckAnswer
  <2>16. ASSUME NEW p \in Pairs, CheckError(p) PROVE Tended(s')
    BY <2>1, <2>3, <2>16, OthersKept DEF CheckError, on_check_error
  <2>17. CASE ConsentAnswer
    BY <2>1, <2>3, <2>17, OthersKept DEF ConsentAnswer
  <2>18. CASE RoleConflictAnswer
    BY <2>1, <2>2, <2>18, SwitchTended DEF RoleConflictAnswer
  <2>19. CASE BindingRequest
    BY <2>1, <2>2, <2>19, RequestTended DEF BindingRequest
  <2>20. CASE RemoteCandidates
    BY <2>1, <2>2, <2>20, CandidatesTended DEF RemoteCandidates
  <2>21. CASE PeerFlags
    BY <2>1, <2>2, <2>21, SwitchTended DEF PeerFlags
  <2>22. CASE Restart
    BY <2>1, <2>2, <2>22, RestartTended DEF Restart
  <2>23. CASE Close
    <3>1. Past(Fail(s))
      BY <2>1 DEF Past, Has, Fail
    <3> QED BY <2>23, <3>1, StaysTended DEF Close
  <2>24. CASE CloseTaskRuns
    BY <2>24 DEF CloseTaskRuns
  <2>25. CASE UNCHANGED vars
    BY <2>1, <2>25 DEF vars
  <2> QED
    BY <2>4, <2>5, <2>6, <2>7, <2>8, <2>9, <2>10, <2>11, <2>12, <2>13, <2>14,
       <2>15, <2>16, <2>17, <2>18, <2>19, <2>20, <2>21, <2>22, <2>23, <2>24,
       <2>25 DEF Next
<1> QED BY <1>1, <1>2

\* A session that gathers has a timer running or a task posted that moves its
\* gathering on, in whatever order STUN and TURN answer, time out or fail, and
\* whatever a restart left posted.
GatherWatched ==
    s.state = "Gathering" /\ Subscribed
        => \/ s.stun_posted \/ s.gather_timer
           \/ s.turn_timer \/ s.turn_posted \/ s.alloc_posted

\* Gathering is never left with nothing that could end it: the safety half of
\* GatherCompletes.  It takes a STUN server, or relay candidates that are not
\* filtered: on_alloc drops a filtered one with its timer, and settles nothing.
THEOREM GatheringIsWatched ==
    ASSUME HasStun \/ RelayAllowed PROVE Spec => []GatherWatched
<1>1. Init => (closing # "closed" => Tended(s))
  <2>1. ASSUME NEW controlling PROVE Tended(NewSession(controlling))
    BY DEF NewSession, Tended, Has
  <2> QED BY <2>1 DEF Init
<1>2. (closing # "closed" => Tended(s)) /\ [Next]_vars
        => (closing # "closed" => Tended(s))'
  BY WatchedStep
<1>3. (closing # "closed" => Tended(s)) => GatherWatched
  BY DEF GatherWatched, Subscribed, Tended, Guarded
<1> QED BY <1>1, <1>2, <1>3, PTL DEF Spec

=============================================================================
