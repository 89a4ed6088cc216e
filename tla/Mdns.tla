-------------------------------- MODULE Mdns --------------------------------
(***************************************************************************)
(* The mDNS resolver (mdns.cpp) and the session that asks it for the       *)
(* addresses of its peer's .local candidates (session.cpp).                *)
(*                                                                         *)
(* The resolver's handlers run on its strand, the session's on the         *)
(* session's: an answer is posted from one to the other, and finds the     *)
(* candidate it is for by index and hostname.  A timer that has expired    *)
(* has its handler queued, where cancel() does not reach it.               *)
(***************************************************************************)
EXTENDS Integers, Sequences, FiniteSets, SequencesExt

CONSTANTS Queries,    \* bound: the resolve() calls, numbered from 1
          Offers,     \* <<hostname, port>> of the candidates the peer sends
          Answers,    \* <<hostname, address>> of the records on the network
          Local,      \* the hostnames sessions of this host may have
          None,       \* no hostname; the address of all zeroes
          MaxRemote,  \* bound: candidates after which none is added
          MaxPacket   \* bound: the records of a packet

Hosts == {o[1] : o \in Offers}
Ports == {o[2] : o \in Offers}
Addrs == {a[2] : a \in Answers}

ASSUME MdnsAssumption ==
    /\ Queries \in Nat
    /\ None \notin Hosts \cup Addrs
    /\ Offers \subseteq Hosts \X Ports
    /\ Answers \subseteq {a[1] : a \in Answers} \X Addrs /\ IsFiniteSet(Answers)
    /\ Local \subseteq Hosts
    /\ MaxRemote \in Nat /\ MaxPacket \in Nat

VARIABLES q,         \* the queries made so far, PendingQuery
          names,     \* the names registered here
          running,   \* running_
          stopping,  \* stopping_
          stops,     \* stop()'s task is queued
          receiving, \* a receive is outstanding
          state,     \* the session's: "Waiting", "Checking" (or connected), "Failed"
          failed,    \* it has failed since the last restart
          remote,    \* remote_candidates_
          posted     \* the answers on the session's strand

manager == <<names, running, stopping, stops, receiving>>
session == <<state, failed, remote, posted>>
vars == <<q, manager, session>>

Ids == 1..Queries

(***************************************************************************)
(* The session                                                             *)
(***************************************************************************)
\* origin is what the peer sent; the code does not keep it.
Unresolved(o) == [type |-> "HostMdns", hostname |-> o[1], addr |-> None,
                  port |-> o[2], origin |-> o[1], asked |-> FALSE]

\* Faulty variant of Host: the hostname stays.
HostNamed(c, a) == [c EXCEPT !.type = "Host", !.addr = a]

Host(c, a) == [c EXCEPT !.type = "Host", !.hostname = None, !.addr = a]

\* The merge of add_remote_candidates: the hostname is not compared.
Merge(list, c) ==
    IF \E i \in DOMAIN list : /\ list[i].addr = c.addr
                              /\ list[i].port = c.port
                              /\ list[i].type = c.type
    THEN list ELSE Append(list, c)

\* Faulty variant of OnResolved: whoever is at the index gets the answer.
ResolvedByIndex(list, m, port) ==
    IF \/ m.idx > Len(list) \/ list[m.idx].type # "HostMdns" THEN list
    ELSE IF m.addrs = <<>> THEN [list EXCEPT ![m.idx] = Host(@, None)]
    ELSE [list EXCEPT ![m.idx] = Host(@, m.addrs[1])]
         \o [k \in 1..Len(m.addrs) - 1 |->
               [Host(list[m.idx], m.addrs[k + 1]) EXCEPT
                   !.port = IF k = 1 THEN @ ELSE port]]

\* The callback of resolve_remote_mdns_candidates, on the session's strand.
\* The first address replaces the name, the others are appended; a name
\* nobody answered for becomes a host candidate without an address.  The
\* first append may move the list; the port of the next is then read from
\* where it was, and can be any.
OnResolved(list, m, port) ==
    IF \/ m.idx > Len(list) \/ list[m.idx].type # "HostMdns"
       \/ list[m.idx].hostname # m.hostname THEN list
    ELSE IF m.addrs = <<>> THEN [list EXCEPT ![m.idx] = Host(@, None)]
    ELSE [list EXCEPT ![m.idx] = Host(@, m.addrs[1])]
         \o [k \in 1..Len(m.addrs) - 1 |->
               [Host(list[m.idx], m.addrs[k + 1]) EXCEPT
                   !.port = IF k = 1 THEN @ ELSE port]]

\* The entries resolve_remote_mdns_candidates asks for.
ToAsk(list) == {i \in DOMAIN list : list[i].type = "HostMdns"}

(***************************************************************************)
(* The resolver                                                            *)
(***************************************************************************)
NoQuery == [hostname |-> None, idx |-> 0, pending |-> FALSE,
            accumulated |-> <<>>, timer |-> "off", fired |-> FALSE, calls |-> 0]

\* What a query's callback posts to the session.
Message(query, addrs) == [idx |-> query.idx, hostname |-> query.hostname,
                          addrs |-> addrs]

\* q->cb(q->accumulated): the query leaves the table, the callback is called.
\* Nothing but fired is read of it afterwards.
Called(query) == [NoQuery EXCEPT !.fired = TRUE, !.timer = query.timer,
                                 !.calls = query.calls + 1]

\* cancel() stops a timer that is waiting, not one that has expired.
Cancelled(query) == IF query.timer = "armed" THEN [query EXCEPT !.timer = "off"]
                    ELSE query

\* How a loop over the table, a hash map of lists, comes to the queries of S:
\* the names in any order, the queries for a name one after the other.
Orders(S) ==
    {o \in SetToSeqs(S) : \A j, k \in DOMAIN o :
        j < k /\ q[o[j]].hostname = q[o[k]].hostname
           => o[j] < o[k] /\ \A i \in j..k : q[o[i]].hostname = q[o[j]].hostname}

\* The queries in S are called with the addresses got.
Fire(S, got) ==
    /\ q' = [n \in DOMAIN q |-> IF n \in S THEN Called(Cancelled(q[n])) ELSE q[n]]
    /\ \E o \in Orders(S) :
          posted' = posted \o [k \in DOMAIN o |-> Message(q[o[k]], got[o[k]])]

OwnAddrs(h) == SetToSeq({a[2] : a \in {b \in Answers : b[1] = h}})

\* resolve(): a name of our own is answered at once.
Asked(i, c) ==
    IF c.hostname \in names
    THEN Called(NoQuery)
    ELSE [NoQuery EXCEPT !.hostname = c.hostname, !.idx = i,
                         !.pending = TRUE, !.timer = "armed"]

\* The elements of S in ascending order.
Ascending(S) == {o \in SetToSeqs(S) : \A j, k \in DOMAIN o : j < k => o[j] < o[k]}

\* resolve_remote_mdns_candidates: one query for each entry.
AskFor(list) ==
    \E todo \in Ascending(ToAsk(list)),
       own \in Ascending({i \in ToAsk(list) : list[i].hostname \in names}) :
          /\ Len(q) + Len(todo) <= Queries
          /\ q' = q \o [k \in DOMAIN todo |-> Asked(todo[k], list[todo[k]])]
          /\ posted' = posted \o [k \in DOMAIN own |->
                [idx |-> own[k], hostname |-> list[own[k]].hostname,
                 addrs |-> OwnAddrs(list[own[k]].hostname)]]
          /\ remote' = [i \in DOMAIN list |-> [list[i] EXCEPT
                           !.asked = @ \/ i \in ToAsk(list)]]

(***************************************************************************)
(* Actions                                                                 *)
(***************************************************************************)
\* IceLink starts the resolver before it hands it to a session; the sockets
\* may not open.
Init == /\ q = <<>>
        /\ names = {} /\ stopping = FALSE /\ stops = FALSE
        /\ running \in BOOLEAN /\ receiving = running
        /\ state = "Waiting" /\ failed = FALSE /\ remote = <<>> /\ posted = <<>>

\* Nothing resets stopping_: after a stop the receive loop ends at once.
start == /\ ~running
         /\ \E opened \in BOOLEAN :
               /\ running' = opened
               /\ receiving' = (receiving \/ (opened /\ ~stopping))
         /\ UNCHANGED <<q, names, stopping, stops, session>>

stop == /\ running /\ running' = FALSE
        /\ stopping' = TRUE /\ stops' = TRUE
        /\ UNCHANGED <<q, names, receiving, session>>

\* Faulty variant of StopTask: the queries are dropped, not answered.
StopForgets == /\ stops /\ stops' = FALSE /\ receiving' = FALSE
               /\ q' = [n \in DOMAIN q |-> [Cancelled(q[n]) EXCEPT
                                         !.pending = FALSE, !.fired = TRUE]]
               /\ UNCHANGED <<names, running, stopping, session>>

\* The task of stop() closes the sockets and answers every query.
StopTask == /\ stops /\ stops' = FALSE /\ receiving' = FALSE
            /\ Fire({n \in DOMAIN q : q[n].pending},
                    [n \in DOMAIN q |-> q[n].accumulated])
            /\ UNCHANGED <<names, running, stopping, state, failed, remote>>

register_name == \E h \in Local : /\ names' = names \cup {h}
                                  /\ UNCHANGED <<q, running, stopping, stops,
                                                 receiving, session>>

unregister_name == \E h \in names : /\ names' = names \ {h}
                                    /\ UNCHANGED <<q, running, stopping, stops,
                                                   receiving, session>>

\* The records of a packet, added to a pending query for that name.
Accumulate(query, packet) ==
    LET acc[k \in 0..Len(packet)] ==
          IF k = 0 THEN query.accumulated
          ELSE IF packet[k][1] = query.hostname /\ ~Contains(acc[k - 1], packet[k][2])
          THEN Append(acc[k - 1], packet[k][2]) ELSE acc[k - 1]
    IN acc[Len(packet)]

\* A response: every query it answers is called, without waiting further.
on_packet ==
    /\ receiving /\ ~stopping
    /\ \E len \in 1..MaxPacket : \E packet \in [1..len -> Answers] :
          LET got == [n \in DOMAIN q |-> IF q[n].pending
                                         THEN Accumulate(q[n], packet) ELSE <<>>]
              S == {n \in DOMAIN q : got[n] # <<>>}
          IN S # {} /\ Fire(S, got)
    /\ UNCHANGED <<manager, state, failed, remote>>

\* The receive that stop() overtook ends the loop.
ReceiveEnds == /\ receiving /\ stopping /\ receiving' = FALSE
               /\ UNCHANGED <<q, names, running, stopping, stops, session>>

TimerExpires(n) == /\ n \in DOMAIN q /\ q[n].timer = "armed"
                   /\ q' = [q EXCEPT ![n].timer = "queued"]
                   /\ UNCHANGED <<manager, session>>

\* Faulty variant of TimerHandler: fired is not looked at.
HandlerBlind(n) ==
    /\ n \in DOMAIN q /\ q[n].timer = "queued"
    /\ q' = [q EXCEPT ![n] = [Called(@) EXCEPT !.timer = "off"]]
    /\ posted' = Append(posted, Message(q[n], q[n].accumulated))
    /\ UNCHANGED <<manager, state, failed, remote>>

\* The deadline of a query.
TimerHandler(n) ==
    /\ n \in DOMAIN q /\ q[n].timer = "queued"
    /\ IF q[n].fired
       THEN q' = [q EXCEPT ![n].timer = "off"] /\ UNCHANGED posted
       ELSE /\ q' = [q EXCEPT ![n] = [Called(@) EXCEPT !.timer = "off"]]
            /\ posted' = Append(posted, Message(q[n], q[n].accumulated))
    /\ UNCHANGED <<manager, state, failed, remote>>

\* add_remote_candidates.  The batch that begins the checks returns before
\* the names are asked for; changed: the peer has new credentials.
add_remote_candidates ==
    /\ \E o \in Offers, changed, locals \in BOOLEAN :
          LET list == Merge(IF changed THEN <<>> ELSE remote, Unresolved(o))
          IN /\ Len(list) <= MaxRemote
             /\ IF state = "Waiting"
                THEN /\ remote' = list
                     /\ state' = IF locals THEN "Checking" ELSE state
                     /\ UNCHANGED <<q, posted>>
                ELSE AskFor(list) /\ UNCHANGED state
    /\ UNCHANGED <<manager, failed>>

\* An answer reaches the session.
RunPosted ==
    LET m == Head(posted)
    IN /\ posted # <<>> /\ posted' = Tail(posted)
       /\ IF state = "Failed" THEN UNCHANGED <<state, remote>>
          ELSE /\ \E port \in Ports : remote' = OnResolved(remote, m, port)
               /\ \/ UNCHANGED state
                  \/ /\ state = "Waiting" /\ remote' # remote /\ m.addrs # <<>>
                     /\ state' = "Checking"
       /\ UNCHANGED <<q, manager, failed>>

restart == /\ state # "Failed" /\ state' = "Waiting"
           /\ remote' = <<>> /\ failed' = FALSE
           /\ UNCHANGED <<q, manager, posted>>

fail == /\ state # "Failed" /\ state' = "Failed" /\ failed' = TRUE
        /\ UNCHANGED <<q, manager, remote, posted>>

\* A nomination that comes late connects a session that has failed.
Nominated == /\ state = "Failed" /\ state' = "Checking"
             /\ UNCHANGED <<q, manager, remote, posted, failed>>

Next == \/ start \/ stop \/ StopTask \/ register_name \/ unregister_name
        \/ on_packet \/ ReceiveEnds
        \/ \E n \in Ids : TimerExpires(n) \/ TimerHandler(n)
        \/ add_remote_candidates \/ RunPosted \/ restart \/ fail
        \/ Nominated

\* Timers expire and queued handlers run; nobody need answer.
Fairness == /\ WF_vars(RunPosted)
            /\ \A n \in Ids : /\ WF_vars(TimerExpires(n))
                              /\ WF_vars(TimerHandler(n))

Spec == Init /\ [][Next]_vars /\ Fairness

(***************************************************************************)
(* Properties                                                              *)
(***************************************************************************)
QueryType ==
    [hostname : Hosts \cup {None}, idx : Nat,
     pending : BOOLEAN, accumulated : Seq(Addrs),
     timer : {"off", "armed", "queued"}, fired : BOOLEAN, calls : Nat]

RemoteType ==
    [type : {"HostMdns", "Host"}, hostname : Hosts \cup {None},
     addr : Addrs \cup {None}, port : Ports, origin : Hosts, asked : BOOLEAN]

\* A candidate has a hostname exactly as long as it is unresolved.
TypeOK ==
    /\ q \in Seq(QueryType)
    /\ names \subseteq Local
    /\ running \in BOOLEAN /\ stopping \in BOOLEAN /\ stops \in BOOLEAN
    /\ receiving \in BOOLEAN
    /\ state \in {"Waiting", "Checking", "Failed"} /\ failed \in BOOLEAN
    /\ remote \in Seq(RemoteType)
    /\ posted \in Seq([idx : Nat \ {0}, hostname : Hosts, addrs : Seq(Addrs)])
    /\ \A i \in DOMAIN remote :
          remote[i].type = "Host" <=> remote[i].hostname = None

\* "The callback fires exactly once" (mdns.hpp): never twice, although a
\* packet, an expired timer and stop() may all come to call it, and a query
\* that was not called yet is in the table with its timer running.
CalledOnce ==
    \A n \in DOMAIN q :
       /\ q[n].calls <= 1
       /\ q[n].calls = 0 => q[n].pending /\ q[n].timer # "off"

\* An address is only ever given to the candidate whose name it belongs to,
\* although the list may have been replaced, extended or resolved in part
\* since the question was asked.
AddressBelongs ==
    \A i \in DOMAIN remote :
       remote[i].addr # None => <<remote[i].origin, remote[i].addr>> \in Answers

\* A candidate whose name was asked for does not stay unresolved: it gets an
\* address, or becomes a host candidate without one, unless the session
\* fails or drops its candidates first.
AskedIsSettled ==
    \A i \in 1..MaxRemote :
       (i \in DOMAIN remote /\ remote[i].asked /\ remote[i].type = "HostMdns")
          ~> \/ failed \/ i \notin DOMAIN remote
             \/ remote[i].type = "Host" \/ ~remote[i].asked
=============================================================================
