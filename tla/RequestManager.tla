--------------------------- MODULE RequestManager ---------------------------
(***************************************************************************)
(* RequestManager<Rq, Rs, P> of src/behaviour/request_manager.rs.          *)
(*                                                                         *)
(* Every method is an operator from a manager value m, a record with one   *)
(* field per struct field, to the value after the call; the actions at the *)
(* end install that value in the variables.  Nested calls (on_peer_rule -> *)
(* handle_request_approval -> add_dial_attempt, on_peer_disconnected ->    *)
(* on_connection_closed) are operator applications, so one action is one   *)
(* whole method call.  Loops over a waiting list are FoldLeft in list      *)
(* order.                                                                  *)
(*                                                                         *)
(* Abstraction: a stored RequestMessage is represented by its PeerId (the  *)
(* payload and the response sink are not distinguished); NoPeer is "not in *)
(* the map".  A list-valued HashMap entry that is absent is the empty      *)
(* sequence, and an absent awaiting_peer_rule entry is the function with   *)
(* empty domain, which is how the code represents it (it never keeps an    *)
(* empty inner map).                                                       *)
(***************************************************************************)
EXTENDS Naturals, Sequences, SequencesExt, FiniteSets, TLC, Connections

CONSTANTS
    MaxRequests,   \* RequestIds are 1..MaxRequests
    NoPeer         \* "no stored request" in the request stores

ASSUME MaxRequests \in Nat \ {0}

RequestId == 1..MaxRequests

\* firewall::RuleDirection and its is_inbound / is_outbound (firewall.rs, not
\* in this snapshot; spec.md section 3).
RuleDirection == {"Inbound", "Outbound", "Both"}
is_inbound(rd) == rd \in {"Inbound", "Both"}
is_outbound(rd) == rd \in {"Outbound", "Both"}
Covers(rd, d) == IF d = "Inbound" THEN is_inbound(rd) ELSE is_outbound(rd)

ApprovalStatus == {"MissingRule", "MissingApproval", "Approved", "Rejected"}

\* The per-direction value of FirewallRules: Some(Rule::Ask),
\* Some(Rule::Permission(_)) or None.
Rule == {"Ask", "Permission", "NoRule"}

ProtocolSupport == {"Inbound", "Outbound", "Both", "None"}

FailureReason == {"NotPermitted", "ConnectionClosed", "DialFailure", "Timeout"}

-----------------------------------------------------------------------------
(* BehaviourAction (request_manager.rs:19-56).                             *)

InboundReady(request_id, peer) ==
    [type |-> "InboundReady", request_id |-> request_id, peer |-> peer]
OutboundReady(request_id, peer, conn) ==
    [type |-> "OutboundReady", request_id |-> request_id, peer |-> peer,
     connection |-> conn]
RequireDialAttempt(peer) == [type |-> "RequireDialAttempt", peer |-> peer]
SetProtocolSupport(peer, conn, support) ==
    [type |-> "SetProtocolSupport", peer |-> peer, connection |-> conn,
     support |-> support]
OutboundFailure(peer, request_id, reason) ==
    [type |-> "OutboundFailure", peer |-> peer, request_id |-> request_id,
     reason |-> reason]
InboundFailure(peer, request_id, reason) ==
    [type |-> "InboundFailure", peer |-> peer, request_id |-> request_id,
     reason |-> reason]

NotPermitted(dir, peer, request_id) ==
    IF dir = "Outbound" THEN OutboundFailure(peer, request_id, "NotPermitted")
                        ELSE InboundFailure(peer, request_id, "NotPermitted")

-----------------------------------------------------------------------------
(* Private helpers (request_manager.rs:474-601).                           *)

StoreOf(dir) ==
    IF dir = "Inbound" THEN "inbound_request_store" ELSE "outbound_request_store"

is_stored(m, request_id, dir) == m[StoreOf(dir)][request_id] # NoPeer

store_request(m, peer, request_id, dir) == [m EXCEPT ![StoreOf(dir)][request_id] = peer]

take_stored_request(m, request_id, dir) == [m EXCEPT ![StoreOf(dir)][request_id] = NoPeer]

\* unwrap_or_return!(e) (lib.rs:37-45): the rest of the body, run on e's
\* value when e is Some, or a return that leaves the state as it is.  Inside
\* a for_each closure the return ends only the current element.
unwrap_or_return(state, is_some, rest) == IF is_some THEN rest ELSE state

push_action(m, action) == [m EXCEPT !.actions = Append(@, action)]

\* Mutant: the dial action names the request instead of the peer.
add_dial_attempt(m, peer, request_id) ==
    [m EXCEPT !.awaiting_connection[peer] = Append(@, request_id),
              !.actions = Append(@, RequireDialAttempt(peer))]

add_ready_request(m, peer, request_id, conn, dir) ==
    push_action(m, IF dir = "Inbound" THEN InboundReady(request_id, peer)
                                      ELSE OutboundReady(request_id, peer, conn))

get_request_peer_ref(m, request_id) ==
    IF m.inbound_request_store[request_id] # NoPeer
    THEN m.inbound_request_store[request_id]
    ELSE m.outbound_request_store[request_id]

\* self.connections.add_request(..) with the manager around it.
attach(m, peer, request_id, dir) ==
    LET r == add_request(m.connections, peer, request_id, dir)
    IN [conn |-> r.conn, m |-> [m EXCEPT !.connections = r.cm]]

\* Mutant: an approved outbound request waits for a dial even when its peer
\* is connected.
handle_request_approval_always_dials(m, request_id, dir, is_allowed) ==
    LET peer == get_request_peer_ref(m, request_id)
        a    == attach(m, peer, request_id, dir)
    IN CASE ~is_allowed ->
              IF is_stored(m, request_id, dir)
              THEN push_action(take_stored_request(m, request_id, dir),
                               NotPermitted(dir, m[StoreOf(dir)][request_id], request_id))
              ELSE m
         [] peer = NoPeer -> m
         [] dir = "Outbound" -> add_dial_attempt(m, peer, request_id)
         [] a.conn # NoConn ->
              IF is_stored(a.m, request_id, dir)
              THEN add_ready_request(take_stored_request(a.m, request_id, dir),
                                     peer, request_id, a.conn, dir)
              ELSE a.m
         [] OTHER ->
              IF is_stored(m, request_id, dir)
              THEN push_action(take_stored_request(m, request_id, dir),
                               InboundFailure(peer, request_id, "ConnectionClosed"))
              ELSE m

handle_request_approval_untracked(m, request_id, dir, is_allowed) ==
    LET peer == get_request_peer_ref(m, request_id)
        a    == attach(m, peer, request_id, dir)
    IN CASE ~is_allowed ->
              IF is_stored(m, request_id, dir)
              THEN push_action(take_stored_request(m, request_id, dir),
                               NotPermitted(dir, m[StoreOf(dir)][request_id], request_id))
              ELSE m
         [] peer = NoPeer -> m
         [] a.conn # NoConn ->
              IF is_stored(m, request_id, dir)
              THEN add_ready_request(take_stored_request(m, request_id, dir),
                                     peer, request_id, a.conn, dir)
              ELSE m
         [] dir = "Inbound" ->
              IF is_stored(m, request_id, dir)
              THEN push_action(take_stored_request(m, request_id, dir),
                               InboundFailure(peer, request_id, "ConnectionClosed"))
              ELSE m
         [] OTHER -> add_dial_attempt(m, peer, request_id)

handle_request_approval(m, request_id, dir, is_allowed) ==
    LET peer == get_request_peer_ref(m, request_id)
        a    == attach(m, peer, request_id, dir)
    IN CASE ~is_allowed ->
              IF is_stored(m, request_id, dir)
              THEN push_action(take_stored_request(m, request_id, dir),
                               NotPermitted(dir, m[StoreOf(dir)][request_id], request_id))
              ELSE m
         [] peer = NoPeer -> m
         [] a.conn # NoConn ->
              IF is_stored(a.m, request_id, dir)
              THEN add_ready_request(take_stored_request(a.m, request_id, dir),
                                     peer, request_id, a.conn, dir)
              ELSE a.m
         [] dir = "Inbound" ->
              IF is_stored(m, request_id, dir)
              THEN push_action(take_stored_request(m, request_id, dir),
                               InboundFailure(peer, request_id, "ConnectionClosed"))
              ELSE m
         [] OTHER -> add_dial_attempt(m, peer, request_id)

\* Lists of awaiting_peer_rule[peer] taken by a rule answer for rd, each id
\* tagged with its direction (Inbound first), and the entries left behind.
TakeRuleWaiters(w, rd) ==
    LET affected(d) == d \in DOMAIN w /\ Covers(rd, d)
        tagged(d)   == IF affected(d) THEN [i \in DOMAIN w[d] |-> <<w[d][i], d>>]
                                      ELSE <<>>
    IN [requests |-> tagged("Inbound") \o tagged("Outbound"),
        rest     |-> [d \in {x \in DOMAIN w : ~affected(x)} |-> w[d]]]

-----------------------------------------------------------------------------
(* slice::binary_search_by as in Rust std 1.52 and later, on the           *)
(* RequestId of each (RequestId, RequestDirection) entry.  The index is    *)
(* 0-based as in Rust.  On an unsorted slice the result is what this loop  *)
(* computes, which may miss an element that is present.                    *)
\* Mutant: the upper half is cut one entry too short.
RECURSIVE search(_, _, _, _)
search(seq, key, left, right) ==
    IF left >= right THEN [found |-> FALSE, index |-> left]
    ELSE LET mid == left + (right - left) \div 2
             id  == seq[mid + 1][1]
         IN CASE id = key -> [found |-> TRUE, index |-> mid]
              [] id < key -> search(seq, key, mid + 1, right)
              [] OTHER    -> search(seq, key, left, mid)

binary_search_by(seq, key) == search(seq, key, 0, Len(seq))

-----------------------------------------------------------------------------
(* Public methods (request_manager.rs:107-472).                            *)

new_request_manager ==
    [inbound_request_store  |-> [i \in RequestId |-> NoPeer],
     outbound_request_store |-> [i \in RequestId |-> NoPeer],
     connections            |-> new_connection_manager,
     awaiting_connection    |-> [p \in Peer |-> <<>>],
     awaiting_peer_rule     |-> [p \in Peer |-> <<>>],
     awaiting_approval      |-> <<>>,
     actions                |-> <<>>]

connected_peers(m) == get_connected_peers(m.connections)

on_new_request(m, peer, request_id, status, dir) ==
    CASE status = "MissingRule" ->
           LET s == store_request(m, peer, request_id, dir)
               w == s.awaiting_peer_rule[peer]
           IN [s EXCEPT !.awaiting_peer_rule[peer] =
                 (dir :> (IF dir \in DOMAIN w THEN Append(w[dir], request_id)
                                              ELSE <<request_id>>)) @@ w]
      [] status = "MissingApproval" ->
           [store_request(m, peer, request_id, dir) EXCEPT
                !.awaiting_approval = Append(@, <<request_id, dir>>)]
      [] status = "Approved" ->
           LET a == attach(m, peer, request_id, dir)
           IN CASE a.conn # NoConn -> add_ready_request(a.m, peer, request_id, a.conn, dir)
                [] dir = "Outbound" ->
                     add_dial_attempt(store_request(m, peer, request_id, dir), peer, request_id)
                [] OTHER -> push_action(m, InboundFailure(peer, request_id, "ConnectionClosed"))
      [] status = "Rejected" -> push_action(m, NotPermitted(dir, peer, request_id))

\* Mutant: the awaiting_connection entry is read but not removed.
on_peer_connected_keeps_waiters(m, peer) ==
    LET flush(acc, request_id) ==
          IF ~is_stored(acc, request_id, "Outbound") THEN acc
          ELSE LET q == acc.outbound_request_store[request_id]
                   a == attach(take_stored_request(acc, request_id, "Outbound"),
                               q, request_id, "Outbound")
               IN push_action(a.m, OutboundReady(request_id, q, a.conn))
    IN IF ~is_connected(m.connections, peer) THEN m
       ELSE FoldLeft(flush, m, m.awaiting_connection[peer])

on_peer_connected(m, peer) ==
    LET flush(acc, request_id) ==
          LET q == acc.outbound_request_store[request_id]
              a == attach(take_stored_request(acc, request_id, "Outbound"),
                          q, request_id, "Outbound")
          IN unwrap_or_return(acc, is_stored(acc, request_id, "Outbound"),
                IF Assert(a.conn # NoConn, "Peer is connected")
                THEN push_action(a.m, OutboundReady(request_id, q, a.conn))
                ELSE acc)
    IN IF ~is_connected(m.connections, peer) THEN m
       ELSE FoldLeft(flush, [m EXCEPT !.awaiting_connection[peer] = <<>>],
                     m.awaiting_connection[peer])

on_connection_established(m, peer, conn) ==
    [m EXCEPT !.connections = add_connection(@, peer, conn)]

\* Mutant: only the inbound requests in flight on the connection are failed.
on_connection_closed_inbound_only(m, peer, conn) ==
    LET r  == remove_connection(m.connections, peer, conn)
        in == SetToSortSeq(r.pending["Inbound"], <)
    IN [m EXCEPT !.connections = r.cm,
                 !.actions = @ \o [i \in DOMAIN in |-> InboundFailure(peer, in[i], "ConnectionClosed")]]

\* One failure per in-flight id, outbound ones first.  The in-flight sets
\* are unordered; ids are taken in ascending order.
on_connection_closed(m, peer, conn) ==
    LET r   == remove_connection(m.connections, peer, conn)
        out == SetToSortSeq(r.pending["Outbound"], <)
        in  == SetToSortSeq(r.pending["Inbound"], <)
    IN [m EXCEPT !.connections = r.cm,
                 !.actions = @ \o [i \in DOMAIN out |-> OutboundFailure(peer, out[i], "ConnectionClosed")]
                               \o [i \in DOMAIN in |-> InboundFailure(peer, in[i], "ConnectionClosed")]]

\* Mutant: the connections are forgotten but their in-flight requests are not failed.
on_peer_disconnected(m, peer) ==
    LET r == remove_all_connections(m.connections, peer)
    IN FoldLeft(LAMBDA acc, conn : on_connection_closed(acc, peer, conn),
                [m EXCEPT !.connections = r.cm], r.conns)

\* Mutant: the failed request is left in outbound_request_store.
on_dial_failure_keeps_store(m, peer) ==
    FoldLeft(LAMBDA acc, request_id :
               push_action(acc, OutboundFailure(peer, request_id, "DialFailure")),
             [m EXCEPT !.awaiting_connection[peer] = <<>>],
             m.awaiting_connection[peer])

on_dial_failure(m, peer) ==
    FoldLeft(LAMBDA acc, request_id :
               push_action(take_stored_request(acc, request_id, "Outbound"),
                           OutboundFailure(peer, request_id, "DialFailure")),
             [m EXCEPT !.awaiting_connection[peer] = <<>>],
             m.awaiting_connection[peer])

\* rules \in [Direction -> Rule]; permitted is the set of ids whose
\* permission_value the Rule::Permission of their direction permits.
\* Returns the new manager and the require_ask list (empty for None).
on_peer_rule(m, peer, rules, rd, permitted) ==
    LET w == m.awaiting_peer_rule[peer]
        t == TakeRuleWaiters(w, rd)
        step(acc, r) ==
          LET request_id == r[1]
              dir        == r[2]
              known      == get_request_peer_ref(acc.m, request_id) # NoPeer
          IN CASE rules[dir] = "Ask" ->
                    IF known
                    THEN [m   |-> [acc.m EXCEPT !.awaiting_approval = Append(@, r)],
                          ask |-> Append(acc.ask, r)]
                    ELSE acc
               [] rules[dir] = "Permission" ->
                    IF known
                    THEN [acc EXCEPT !.m = handle_request_approval(@, request_id, dir,
                                                                   request_id \in permitted)]
                    ELSE acc
               [] OTHER ->
                    [acc EXCEPT !.m = handle_request_approval(@, request_id, dir, FALSE)]
    IN IF DOMAIN w = {} THEN [m |-> m, ask |-> <<>>]
       ELSE FoldLeft(step, [m |-> [m EXCEPT !.awaiting_peer_rule[peer] = t.rest],
                            ask |-> <<>>],
                     t.requests)

\* Mutant: the affected lists are failed but put back into awaiting_peer_rule.
on_no_peer_rule_keeps_lists(m, peer, rd) ==
    LET w == m.awaiting_peer_rule[peer]
        t == TakeRuleWaiters(w, rd)
    IN IF DOMAIN w = {} THEN m
       ELSE FoldLeft(LAMBDA acc, r :
                       push_action(take_stored_request(acc, r[1], r[2]),
                                   NotPermitted(r[2], peer, r[1])),
                     m, t.requests)

on_no_peer_rule(m, peer, rd) ==
    LET w == m.awaiting_peer_rule[peer]
        t == TakeRuleWaiters(w, rd)
    IN IF DOMAIN w = {} THEN m
       ELSE FoldLeft(LAMBDA acc, r :
                       push_action(take_stored_request(acc, r[1], r[2]),
                                   NotPermitted(r[2], peer, r[1])),
                     [m EXCEPT !.awaiting_peer_rule[peer] = t.rest],
                     t.requests)

on_request_approval(m, request_id, is_allowed) ==
    LET r == binary_search_by(m.awaiting_approval, request_id)
        e == m.awaiting_approval[r.index + 1]
    IN IF ~r.found THEN m
       ELSE handle_request_approval([m EXCEPT !.awaiting_approval = RemoveAt(@, r.index + 1)],
                                    e[1], e[2], is_allowed)

\* result is "Ok" or a failure reason.
on_res_for_inbound(m, peer, conn, request_id, result) ==
    LET s == [m EXCEPT !.connections = remove_request(@, conn, request_id, "Inbound")]
    IN IF result = "Ok" THEN s ELSE push_action(s, InboundFailure(peer, request_id, result))

\* Mutant: the request is not removed from the connection's pending set.
on_res_for_outbound_keeps_pending(m, peer, conn, request_id, result) ==
    IF result = "Ok" THEN m ELSE push_action(m, OutboundFailure(peer, request_id, result))

on_res_for_outbound(m, peer, conn, request_id, result) ==
    LET s == [m EXCEPT !.connections = remove_request(@, conn, request_id, "Outbound")]
    IN IF result = "Ok" THEN s ELSE push_action(s, OutboundFailure(peer, request_id, result))

\* Option<RuleDirection>, "None" for None.
pending_rule_requests(m, peer) ==
    LET w == m.awaiting_peer_rule[peer]
    IN CASE DOMAIN w = Direction    -> "Both"
         [] "Inbound" \in DOMAIN w  -> "Inbound"
         [] "Outbound" \in DOMAIN w -> "Outbound"
         [] OTHER                   -> "None"

add_pending_rule_requests(m, peer, rd) ==
    LET w == m.awaiting_peer_rule[peer]
    IN [m EXCEPT !.awaiting_peer_rule[peer] =
          w @@ [d \in {x \in Direction : Covers(rd, x)} |-> <<>>]]

\* conn = NoConn stands for None: all connections of the peer.
set_protocol_support(m, peer, conn, support) ==
    LET conns == IF conn # NoConn THEN <<conn>> ELSE get_connections(m.connections, peer)
    IN [m EXCEPT !.actions = @ \o [i \in DOMAIN conns |-> SetProtocolSupport(peer, conns[i], support)]]

take_next_action(m) == [m EXCEPT !.actions = Tail(@)]

-----------------------------------------------------------------------------
(* The manager's state and one action per method that changes it.         *)

VARIABLES
    inbound_request_store,   \* [RequestId -> Peer \cup {NoPeer}]
    outbound_request_store,  \* [RequestId -> Peer \cup {NoPeer}]
    connections,             \* PeerConnectionManager, see Connections
    awaiting_connection,     \* [Peer -> Seq(RequestId)]
    awaiting_peer_rule,      \* [Peer -> [D -> Seq(RequestId)]], D \subseteq Direction
    awaiting_approval,       \* Seq(RequestId \X Direction)
    actions                  \* Seq(BehaviourAction), the FIFO VecDeque

manager_vars == <<inbound_request_store, outbound_request_store, connections,
                  awaiting_connection, awaiting_peer_rule, awaiting_approval, actions>>

Mgr == [inbound_request_store  |-> inbound_request_store,
        outbound_request_store |-> outbound_request_store,
        connections            |-> connections,
        awaiting_connection    |-> awaiting_connection,
        awaiting_peer_rule     |-> awaiting_peer_rule,
        awaiting_approval      |-> awaiting_approval,
        actions                |-> actions]

Apply(m) ==
    /\ inbound_request_store'  = m.inbound_request_store
    /\ outbound_request_store' = m.outbound_request_store
    /\ connections'            = m.connections
    /\ awaiting_connection'    = m.awaiting_connection
    /\ awaiting_peer_rule'     = m.awaiting_peer_rule
    /\ awaiting_approval'      = m.awaiting_approval
    /\ actions'                = m.actions

ManagerInit ==
    LET m == new_request_manager
    IN /\ inbound_request_store = m.inbound_request_store
       /\ outbound_request_store = m.outbound_request_store
       /\ connections = m.connections
       /\ awaiting_connection = m.awaiting_connection
       /\ awaiting_peer_rule = m.awaiting_peer_rule
       /\ awaiting_approval = m.awaiting_approval
       /\ actions = m.actions

OnDialFailure(peer) == Apply(on_dial_failure(Mgr, peer))
OnNoPeerRule(peer, rd) == Apply(on_no_peer_rule(Mgr, peer, rd))
OnRequestApproval(request_id, is_allowed) == Apply(on_request_approval(Mgr, request_id, is_allowed))
OnResForInbound(peer, conn, request_id, result) == Apply(on_res_for_inbound(Mgr, peer, conn, request_id, result))
OnResForOutbound(peer, conn, request_id, result) == Apply(on_res_for_outbound(Mgr, peer, conn, request_id, result))
SetProtocolSupportAction(peer, conn, support) == Apply(set_protocol_support(Mgr, peer, conn, support))
TakeNextAction == actions # <<>> /\ Apply(take_next_action(Mgr))

BehaviourAction ==
    [type : {"InboundReady"}, request_id : RequestId, peer : Peer]
    \cup [type : {"OutboundReady"}, request_id : RequestId, peer : Peer, connection : ConnId]
    \cup [type : {"RequireDialAttempt"}, peer : Peer]
    \cup [type : {"SetProtocolSupport"}, peer : Peer, connection : ConnId, support : ProtocolSupport]
    \cup [type : {"OutboundFailure", "InboundFailure"}, peer : Peer, request_id : RequestId,
           reason : FailureReason]

ManagerTypeOK ==
    /\ inbound_request_store \in [RequestId -> Peer \cup {NoPeer}]
    /\ outbound_request_store \in [RequestId -> Peer \cup {NoPeer}]
    /\ connections.connections \in [Peer -> Seq(ConnId)]
    /\ connections.pending_responses \in [ConnId -> [Direction -> SUBSET RequestId]]
    /\ awaiting_connection \in [Peer -> Seq(RequestId)]
    /\ \A p \in Peer : \E D \in SUBSET Direction :
          awaiting_peer_rule[p] \in [D -> Seq(RequestId)]
    /\ awaiting_approval \in Seq(RequestId \X Direction)
    /\ actions \in Seq(BehaviourAction)

=============================================================================
