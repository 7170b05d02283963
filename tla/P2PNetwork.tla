----------------------------- MODULE P2PNetwork -----------------------------
(***************************************************************************)
(* The RequestManager driven by its environment: the NetBehaviour facade   *)
(* that classifies requests and talks to the firewall, the swarm that      *)
(* reports connections and dial outcomes, and the per-connection handlers  *)
(* that run the request / response protocols and report their results.    *)
(* None of that glue is in this repository snapshot; it is modelled from   *)
(* spec.md sections 4.3-4.6 and 6 as the inputs each manager method can    *)
(* receive.  Every step below is one manager method call (or the facade's  *)
(* add_pending_rule_requests followed by on_new_request) together with the *)
(* environment bookkeeping that decides which calls can come next.         *)
(*                                                                         *)
(* Environment state:                                                      *)
(*   next_request_id  last RequestId handed out (ids are monotonic)        *)
(*   request_info     per id: peer, direction and the connection whose     *)
(*                    handler will report its result (for an inbound       *)
(*                    request the connection it arrived on, for an         *)
(*                    outbound one the connection of its OutboundReady)    *)
(*   rule_queries     outstanding FirewallRequest::PeerSpecificRule        *)
(*   approval_queries outstanding FirewallRequest::RequestApproval         *)
(*   dialing          peers with a dial in progress                        *)
(*   established      ConnectionIds used so far (never reused)             *)
(*   handed           ids whose Ready action the host has taken            *)
(*   completed        ids whose handler has reported a result              *)
(*   history          per id, the outcomes observed: "Ready", "Failed"     *)
(*                    (an action pushed by the manager) and "Done" (a      *)
(*                    result Ok reported by the handler)                   *)
(***************************************************************************)
EXTENDS RequestManager

CONSTANTS
    MaxActions,    \* bound on the queue length for set_protocol_support calls
    HandlerResult  \* results a handler reports: "Ok" and the failure reasons considered

ASSUME HandlerResult \subseteq {"Ok"} \cup FailureReason

VARIABLES next_request_id, request_info, rule_queries, approval_queries,
          dialing, established, handed, completed, history

env_vars == <<next_request_id, request_info, rule_queries, approval_queries,
              dialing, established, handed, completed, history>>
vars == <<manager_vars, env_vars>>

NoInfo == [peer |-> NoPeer, dir |-> "None", conn |-> NoConn]

Init ==
    /\ ManagerInit
    /\ next_request_id = 0
    /\ request_info = [i \in RequestId |-> NoInfo]
    /\ rule_queries = {}
    /\ approval_queries = {}
    /\ dialing = {}
    /\ established = {}
    /\ handed = {}
    /\ completed = {}
    /\ history = [i \in RequestId |-> <<>>]

\* Live connections of a peer.
Live(p) == ToSet(connections.connections[p])

\* The outcome each action pushed by this step means for its request.
Outcome(a) == IF a.type \in {"InboundReady", "OutboundReady"} THEN "Ready" ELSE "Failed"
Concerns(a, id) == a.type \notin {"RequireDialAttempt", "SetProtocolSupport"} /\ a.request_id = id
Pushed == SubSeq(actions', Len(actions) + 1, Len(actions'))
RecordPushed(extra) ==
    history' = [id \in RequestId |->
                  LET mine == SelectSeq(Pushed, LAMBDA a : Concerns(a, id))
                  IN history[id] \o [i \in DOMAIN mine |-> Outcome(mine[i])]
                                 \o extra[id]]
NoExtra == [id \in RequestId |-> <<>>]

-----------------------------------------------------------------------------
(* A request enters: an inbound one read by the ResponseProtocol on a live *)
(* connection of the peer, an outbound one issued by the user.  The facade *)
(* classifies it; with no rule it queries one unless a query already      *)
(* covers the direction, widening to Both when another is pending.        *)
NewRequest(peer, dir, status, conn) ==
    LET id      == next_request_id + 1
        pending == pending_rule_requests(Mgr, peer)
        query   == status = "MissingRule" /\ ~Covers(pending, dir)
        qdir    == IF pending = "None" THEN dir ELSE "Both"
        m0      == IF query THEN add_pending_rule_requests(Mgr, peer, qdir) ELSE Mgr
    IN /\ next_request_id < MaxRequests
       /\ Apply(on_new_request(m0, peer, id, status, dir))
       /\ next_request_id' = id
       /\ request_info' = [request_info EXCEPT ![id] = [peer |-> peer, dir |-> dir, conn |-> conn]]
       /\ rule_queries' = IF query THEN rule_queries \cup {<<peer, qdir>>} ELSE rule_queries
       /\ approval_queries' = IF status = "MissingApproval" THEN approval_queries \cup {id}
                                                           ELSE approval_queries
       /\ RecordPushed(NoExtra)
       /\ UNCHANGED <<dialing, established, handed, completed>>

\* The firewall answers a rule query with rules; the ids of the returned
\* require_ask list are sent out for approval.
PeerRule(q, rules, permitted) ==
    LET r == on_peer_rule(Mgr, q[1], rules, q[2], permitted)
    IN /\ q \in rule_queries
       /\ Apply(r.m)
       /\ rule_queries' = rule_queries \ {q}
       /\ approval_queries' = approval_queries \cup {r.ask[i][1] : i \in DOMAIN r.ask}
       /\ RecordPushed(NoExtra)
       /\ UNCHANGED <<next_request_id, request_info, dialing, established, handed, completed>>

NoPeerRule(q) ==
    /\ q \in rule_queries
    /\ OnNoPeerRule(q[1], q[2])
    /\ rule_queries' = rule_queries \ {q}
    /\ RecordPushed(NoExtra)
    /\ UNCHANGED <<next_request_id, request_info, approval_queries, dialing, established,
                   handed, completed>>

RequestApproval(id, is_allowed) ==
    /\ id \in approval_queries
    /\ OnRequestApproval(id, is_allowed)
    /\ approval_queries' = approval_queries \ {id}
    /\ RecordPushed(NoExtra)
    /\ UNCHANGED <<next_request_id, request_info, rule_queries, dialing, established,
                   handed, completed>>

-----------------------------------------------------------------------------
(* Swarm events.  The swarm calls on_connection_established and, for the *)
(* peer's first connection, on_peer_connected right after it in the same  *)
(* event; likewise on_connection_closed and, after the last connection,   *)
(* on_peer_disconnected.  A new connection (dialed or incoming) ends a    *)
(* dial to that peer.                                                     *)
ConnectionEstablished(peer, conn) ==
    LET m1 == on_connection_established(Mgr, peer, conn)
    IN /\ conn \notin established
       /\ Apply(IF is_connected(connections, peer) THEN m1 ELSE on_peer_connected(m1, peer))
       /\ established' = established \cup {conn}
       /\ dialing' = dialing \ {peer}
       /\ RecordPushed(NoExtra)
       /\ UNCHANGED <<next_request_id, request_info, rule_queries, approval_queries,
                      handed, completed>>

ConnectionClosed(peer, conn) ==
    LET m1 == on_connection_closed(Mgr, peer, conn)
    IN /\ conn \in Live(peer)
       /\ Apply(IF is_connected(m1.connections, peer) THEN m1 ELSE on_peer_disconnected(m1, peer))
       /\ RecordPushed(NoExtra)
       /\ UNCHANGED <<next_request_id, request_info, rule_queries, approval_queries,
                      dialing, established, handed, completed>>

DialFailure(peer) ==
    /\ peer \in dialing
    /\ OnDialFailure(peer)
    /\ dialing' = dialing \ {peer}
    /\ RecordPushed(NoExtra)
    /\ UNCHANGED <<next_request_id, request_info, rule_queries, approval_queries,
                   established, handed, completed>>

-----------------------------------------------------------------------------
(* Handler reports.  The handler of request_info[id].conn reports once,   *)
(* while that connection is alive and the manager has not failed the      *)
(* request (a failure drops its response sink, which ends the exchange):  *)
(* Ok after the exchange, or a failure such as the substream timing out,  *)
(* which for an inbound request can happen while the request still waits  *)
(* for its rule or approval.                                              *)
ResultFor(id, result) ==
    LET info == request_info[id]
    IN /\ id \notin completed
       /\ info.conn \in Live(info.peer)
       /\ "Failed" \notin ToSet(history[id])
       /\ (result = "Ok" \/ info.dir = "Outbound") => id \in handed
       /\ IF info.dir = "Inbound"
          THEN OnResForInbound(info.peer, info.conn, id, result)
          ELSE OnResForOutbound(info.peer, info.conn, id, result)
       /\ completed' = completed \cup {id}
       /\ RecordPushed([i \in RequestId |-> IF i = id /\ result = "Ok" THEN <<"Done">> ELSE <<>>])
       /\ UNCHANGED <<next_request_id, request_info, rule_queries, approval_queries,
                      dialing, established, handed>>

SetSupport(peer, conn, support) ==
    /\ Len(actions) < MaxActions
    /\ SetProtocolSupportAction(peer, conn, support)
    /\ UNCHANGED env_vars

\* The host event loop takes the next action: a Ready request goes to the
\* user (inbound) or to the handler of its connection (outbound), a
\* RequireDialAttempt starts a dial.
HostTakeAction ==
    LET a == Head(actions)
    IN /\ TakeNextAction
       /\ handed' = IF a.type \in {"InboundReady", "OutboundReady"}
                    THEN handed \cup {a.request_id} ELSE handed
       /\ request_info' = IF a.type = "OutboundReady"
                          THEN [request_info EXCEPT ![a.request_id].conn = a.connection]
                          ELSE request_info
       /\ dialing' = IF a.type = "RequireDialAttempt" THEN dialing \cup {a.peer} ELSE dialing
       /\ UNCHANGED <<next_request_id, rule_queries, approval_queries, established,
                      completed, history>>

Next ==
    \/ \E p \in Peer, d \in Direction, st \in ApprovalStatus :
          \E c \in (IF d = "Inbound" THEN Live(p) ELSE {NoConn}) : NewRequest(p, d, st, c)
    \/ \E q \in rule_queries : NoPeerRule(q)
    \/ \E q \in rule_queries, rules \in [Direction -> Rule] :
          LET w == awaiting_peer_rule[q[1]]
          IN \E permitted \in SUBSET UNION {ToSet(w[d]) : d \in DOMAIN w} :
                PeerRule(q, rules, permitted)
    \/ \E id \in approval_queries, b \in BOOLEAN : RequestApproval(id, b)
    \/ \E p \in Peer, c \in ConnId : ConnectionEstablished(p, c)
    \/ \E p \in Peer, c \in ConnId : ConnectionClosed(p, c)
    \/ \E p \in Peer : DialFailure(p)
    \/ \E id \in 1..next_request_id, r \in HandlerResult : ResultFor(id, r)
    \/ \E p \in Peer, s \in {"Both", "None"} : \E c \in Live(p) \cup {NoConn} : SetSupport(p, c, s)
    \/ HostTakeAction

Spec == Init /\ [][Next]_vars

(* The environment's obligations: the event loop keeps draining the action *)
(* queue, a dial ends in a connection or a dial failure, and the firewall answers *)
(* every rule query.  Users, remote peers, approvals and handlers are not  *)
(* obliged to do anything.                                                 *)
DialOutcome(p) == p \in dialing /\ (DialFailure(p) \/ \E c \in ConnId : ConnectionEstablished(p, c))
RuleAnswer(q) ==
    \/ NoPeerRule(q)
    \/ \E rules \in [Direction -> Rule] : PeerRule(q, rules, {})
Fairness ==
    /\ WF_vars(HostTakeAction)
    /\ \A p \in Peer : WF_vars(DialOutcome(p))
    /\ \A q \in Peer \X RuleDirection : WF_vars(RuleAnswer(q))

FairSpec == Spec /\ Fairness

-----------------------------------------------------------------------------
(* Properties.                                                             *)

\* The shapes of the variables, kept as documentation: every conjunct is a
\* Rust type (or a bound of the environment), so no run checks it.
TypeOK ==
    /\ ManagerTypeOK
    /\ next_request_id \in 0..MaxRequests
    /\ request_info \in [RequestId -> [peer : Peer \cup {NoPeer}, dir : Direction \cup {"None"},
                                        conn : ConnId \cup {NoConn}]]
    /\ rule_queries \subseteq Peer \X RuleDirection
    /\ approval_queries \subseteq RequestId
    /\ dialing \subseteq Peer
    /\ established \subseteq ConnId
    /\ handed \subseteq RequestId
    /\ completed \subseteq RequestId
    /\ history \in [RequestId -> Seq({"Ready", "Failed", "Done"})]

Positions(seq, x) == {k \in DOMAIN seq : seq[k] = x}

\* Places at which id waits: <<list, key, index>> in awaiting_connection,
\* awaiting_peer_rule and awaiting_approval.
WaitPositions(id) ==
    UNION {{<<"connection", p, k>> : k \in Positions(awaiting_connection[p], id)} : p \in Peer}
    \cup UNION {IF d \in DOMAIN awaiting_peer_rule[p]
                THEN {<<"rule", <<p, d>>, k>> : k \in Positions(awaiting_peer_rule[p][d], id)}
                ELSE {} : p \in Peer, d \in Direction}
    \cup {<<"approval", awaiting_approval[k][2], k>> :
            k \in {i \in DOMAIN awaiting_approval : awaiting_approval[i][1] = id}}

\* Where a request of peer p and direction d may legitimately wait.
WaitKeys(p, d) ==
    {<<"rule", <<p, d>>>>, <<"approval", d>>} \cup (IF d = "Outbound" THEN {<<"connection", p>>} ELSE {})

InFlight(id) == {<<c, d>> \in ConnId \X Direction : id \in connections.pending_responses[c][d]}

\* Spec invariants 1-3 and 5 (spec.md section 3): a request the manager still
\* holds is stored in the store of its own direction under its own peer,
\* waits at exactly one place of the lists that fit its peer and direction
\* (awaiting_connection, awaiting_peer_rule or awaiting_approval) and is in no
\* connection's in-flight set; a request it no longer stores waits nowhere;
\* no request is in flight twice or in the wrong direction.  Breaking it
\* takes a method that moves a request and forgets one half of the move
\* (store_request / take_stored_request against the waiting lists and
\* connections.add_request) on some path of several calls.
RequestAccounting ==
    \A id \in 1..next_request_id :
      LET info   == request_info[id]
          other  == CHOOSE d \in Direction : d # info.dir
          stored == is_stored(Mgr, id, info.dir)
          waits  == WaitPositions(id)
      IN /\ ~is_stored(Mgr, id, other)
         /\ stored => /\ Mgr[StoreOf(info.dir)][id] = info.peer
                      /\ Cardinality(waits) = 1
                      /\ \A w \in waits : <<w[1], w[2]>> \in WaitKeys(info.peer, info.dir)
                      /\ InFlight(id) = {}
         /\ ~stored => waits = {}
         /\ Cardinality(InFlight(id)) <= 1
         /\ \A f \in InFlight(id) : f[2] = info.dir

\* "If Ready, a later completion call removes r from in-flight sets"
\* (spec.md section 8, property 1): once the handler of a request has
\* reported its result through on_res_for_inbound / on_res_for_outbound, the
\* request is in no connection's in-flight set, so a later close of that
\* connection does not fail it again.
CompletedNotInFlight ==
    \A id \in completed : InFlight(id) = {}

\* Every request waiting for a peer rule stops waiting for it, and every
\* outbound request waiting for a connection stops waiting for one, when
\* the firewall answers rule queries and dials end (FairSpec).  A request
\* can be stranded when a rule answer leaves ids in awaiting_peer_rule with
\* no query left to answer them (pending_rule_requests then reports the
\* direction as pending and the facade never asks again), or when
\* on_peer_connected / on_dial_failure miss ids of awaiting_connection.
WaitsForRule(id) ==
    \E p \in Peer : \E d \in DOMAIN awaiting_peer_rule[p] : id \in ToSet(awaiting_peer_rule[p][d])
WaitsForConnection(id) == \E p \in Peer : id \in ToSet(awaiting_connection[p])

RuleWaitEnds == \A id \in RequestId : WaitsForRule(id) ~> ~WaitsForRule(id)
ConnectionWaitEnds == \A id \in RequestId : WaitsForConnection(id) ~> ~WaitsForConnection(id)

\* No request waits for a connection to a peer that connected_peers()
\* lists.  on_peer_connected is the only way out of awaiting_connection
\* other than a dial failure, and the swarm calls it only for a peer's first
\* connection; so on_new_request and handle_request_approval must attach a
\* request to a connection whenever one exists, and the flush must empty
\* the list, or the request waits while its peer stays connected.
WaitersOnlyWhileDisconnected ==
    \A p \in connected_peers(Mgr) : awaiting_connection[p] = <<>>

\* The refinement mapping: where the manager's books place an outbound
\* request: a waiting list first, else the last outcome it has had.
\* Inbound requests are left out because of InboundOutcomeUnique.
OutboundPhase ==
    [id \in RequestId |->
       IF id > next_request_id \/ request_info[id].dir # "Outbound" THEN "none"
       ELSE CASE WaitsForRule(id) -> "awaiting_peer_rule"
              [] \E k \in DOMAIN awaiting_approval : awaiting_approval[k][1] = id -> "awaiting_approval"
              [] WaitsForConnection(id) -> "awaiting_connection"
              [] history[id] = <<>> -> "none"
              [] Last(history[id]) = "Failed" -> "failed"
              [] Last(history[id]) = "Done" -> "done"
              [] OTHER -> "in_flight"]

Lifecycle == INSTANCE RequestLifecycle WITH Ids <- RequestId, phase <- OutboundPhase

\* The manager implements the request state machine of spec.md 4.5 for
\* outbound requests: on_peer_rule, on_request_approval,
\* handle_request_approval, on_peer_connected, on_dial_failure,
\* on_connection_closed and on_res_for_outbound only ever move a request
\* forward along the diagram, and nothing happens to it after DONE or
\* FAILED.
LifecycleRefined == Lifecycle!Spec

\* An outbound request is in a connection's in-flight set exactly while it
\* is Ready and has no completion yet, and then only on a live connection
\* of its own peer.  handle_request_approval and on_peer_connected must
\* record the request with connections.add_request whenever they push
\* OutboundReady (and add_request runs before take_stored_request's early
\* return, request_manager.rs:565-566); on_res_for_outbound and
\* on_connection_closed must clear it; and on_peer_disconnected, whose
\* remove_all_connections keeps the in-flight sets, must close every
\* returned connection.  A Ready request missing from the sets is never
\* failed when its connection closes, so its caller waits forever.
ReadyTracked ==
    \A id \in 1..next_request_id :
        request_info[id].dir = "Outbound" =>
            /\ InFlight(id) # {} <=> history[id] = <<"Ready">>
            /\ \A f \in InFlight(id) : f[1] \in Live(request_info[id].peer)

\* The outcome sequences spec.md section 7 allows for one request: nothing
\* yet, one failure, or Ready followed by at most one completion (a result
\* Ok, or a failure reported by the handler or by the connection closing).
Settled == {<<>>, <<"Failed">>, <<"Ready">>, <<"Ready", "Failed">>, <<"Ready", "Done">>}

\* "For each request admitted, exactly one terminal outcome ... never two"
\* (spec.md section 7) for outbound requests: whatever the order of dial
\* failures, new connections, on_peer_connected, connection closes and
\* handler results, an outbound request is never both failed and made
\* ready twice, and a request whose handler reported Ok is never failed
\* afterwards by on_connection_closed.  It depends on on_res_for_outbound
\* removing the id from the connection's in-flight set and on every path
\* that fails a waiting request also taking it out of its waiting list.
OutboundOutcomeUnique ==
    \A id \in 1..next_request_id :
        request_info[id].dir = "Outbound" => history[id] \in Settled

\* The same for inbound requests.  The handler that reports an inbound
\* result is the one of the connection the request arrived on, while
\* connections.add_request attaches the request to the peer's first
\* connection; and the handler's substream can time out while the request
\* still waits for its rule or approval.
InboundOutcomeUnique ==
    \A id \in 1..next_request_id :
        request_info[id].dir = "Inbound" => history[id] \in Settled

\* Every request waiting in awaiting_approval has an approval query out at
\* the firewall, so an answer will come for it: the answer handed to
\* on_request_approval is found by its binary search over awaiting_approval
\* (spec.md section 3 invariant 4 and section 9, open question).
ApprovalOutstanding ==
    \A k \in DOMAIN awaiting_approval : awaiting_approval[k][1] \in approval_queries

=============================================================================
