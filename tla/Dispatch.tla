------------------------------ MODULE Dispatch ------------------------------
(***************************************************************************)
(* The request manager and the request protocol composed: an outbound     *)
(* request the host takes as OutboundReady is handed to the handler of    *)
(* its connection, which runs RequestProtocol::upgrade_outbound against    *)
(* the remote peer's ResponseProtocol::upgrade_inbound (module Protocol)   *)
(* on one substream.  The handler's report to on_res_for_outbound is no   *)
(* longer an arbitrary result: it is Ok(bool) or the Err the future ended *)
(* with.  When the connection closes, the handler and its future are      *)
(* dropped and the manager fails the request through on_connection_closed. *)
(* The connection handler (handler/mod.rs) is not in the snapshot: how it *)
(* maps an io::Error to a failure reason, and its upgrade timeout, follow *)
(* spec.md section 7.                                                      *)
(*                                                                         *)
(* One request is admitted (MaxRequests = 1), so at most one substream     *)
(* exists; the inbound path keeps the abstract handler of P2PNetwork.      *)
(***************************************************************************)
EXTENDS P2PNetwork

CONSTANTS Response, MaxResets

ASSUME MaxRequests = 1 /\ "Timeout" \in HandlerResult

VARIABLES out_pc, out_res, in_pc, in_res, out_protocols, in_protocols, wire, wclosed,
          resets, request_rx_open, sink, caller_open, delivered

Proto == INSTANCE Protocol

substream_vars == <<out_pc, out_res, in_pc, in_res, out_protocols, in_protocols, wire,
                    wclosed, resets, request_rx_open, sink, caller_open, delivered>>
all_vars == <<vars, substream_vars>>

DispatchInit == Init /\ Proto!Init

\* The handler of request_info[id].conn holds the outbound future of id: the
\* host has handed it over, its connection is alive and no report was made.
Running(id) ==
    /\ id \in handed
    /\ request_info[id].dir = "Outbound"
    /\ request_info[id].conn \in Live(request_info[id].peer)
    /\ id \notin completed

\* A step of the manager or of its environment other than a handler report;
\* the substream is left as it is (after a close its future is gone).
ManagerStep ==
    /\ \/ \E p \in Peer, d \in Direction, st \in ApprovalStatus :
             \E c \in (IF d = "Inbound" THEN Live(p) ELSE {NoConn}) : NewRequest(p, d, st, c)
       \/ \E q \in rule_queries : NoPeerRule(q)
       \/ \E q \in rule_queries, rules \in [Direction -> Rule] :
             LET w == awaiting_peer_rule[q[1]]
             IN \E permitted \in SUBSET UNION {ToSet(w[d]) : d \in DOMAIN w} :
                   PeerRule(q, rules, permitted)
       \/ \E id \in approval_queries, b \in BOOLEAN : RequestApproval(id, b)
       \/ \E p \in Peer, c \in ConnId : ConnectionEstablished(p, c)
       \/ \E p \in Peer, c \in ConnId : ConnectionClosed(p, c)
       \/ \E p \in Peer : DialFailure(p)
       \/ \E id \in 1..next_request_id, r \in HandlerResult :
             request_info[id].dir = "Inbound" /\ ResultFor(id, r)
       \/ \E p \in Peer, s \in {"Both", "None"} : \E c \in Live(p) \cup {NoConn} : SetSupport(p, c, s)
       \/ HostTakeAction
    /\ UNCHANGED substream_vars

\* The two futures and the remote side advance while the handler runs.
Exchange(id) == Running(id) /\ Proto!Next /\ UNCHANGED vars

\* The handler reports the finished future: Ok(true) and Ok(false) become
\* on_res_for_outbound(Ok), an io::Error one of the failure reasons.
Report(id) ==
    /\ out_pc = "done"
    /\ \E r \in IF out_res \in {"true", "false"} THEN {"Ok"} ELSE HandlerResult \ {"Ok"} :
          ResultFor(id, r)
    /\ UNCHANGED substream_vars

\* The handler's upgrade timeout drops the unfinished future (and with it
\* the caller's response receiver) and reports Timeout.
UpgradeTimeout(id) ==
    /\ Running(id)
    /\ out_pc # "done"
    /\ ResultFor(id, "Timeout")
    /\ out_pc' = "done" /\ out_res' = "Err"
    /\ delivered' = IF caller_open THEN "canceled" ELSE delivered
    /\ wclosed' = [wclosed EXCEPT !["AtoB"] = TRUE]
    /\ UNCHANGED <<in_pc, in_res, out_protocols, in_protocols, wire, resets,
                   request_rx_open, sink, caller_open>>

DispatchNext ==
    \/ ManagerStep
    \/ \E id \in 1..next_request_id : Exchange(id) \/ Report(id) \/ UpgradeTimeout(id)

DispatchSpec == DispatchInit /\ [][DispatchNext]_all_vars

\* The event loop drains the queue, the executor polls ready futures, and
\* the swarm delivers the handler's report once the future has finished.
DispatchFairness ==
    /\ WF_all_vars(HostTakeAction /\ UNCHANGED substream_vars)
    /\ \A id \in RequestId : WF_all_vars(Running(id) /\ Proto!FutureStep /\ UNCHANGED vars)
    /\ \A id \in RequestId : WF_all_vars(Report(id))

DispatchFairSpec == DispatchSpec /\ DispatchFairness

-----------------------------------------------------------------------------
Dispatched(id) == id \in handed /\ request_info[id].dir = "Outbound"
Ended(id) == id \in completed \/ "Failed" \in ToSet(history[id])

\* "If Ready, a later completion call removes r from in-flight sets"
\* (spec.md section 8, property 1), end to end: an outbound request handed
\* to its connection's handler is eventually completed through
\* on_res_for_outbound or failed by on_connection_closed, whatever the
\* remote peer, the caller and the transport do, unless the remote user
\* keeps the response sink forever (protocol.rs:93 has no timeout of its
\* own).  It needs the future to end on every path, the report to follow
\* it, and a closing connection to fail what is still in flight on it.
DispatchEnds ==
    <>[](sink = "held") \/ \A id \in RequestId : Dispatched(id) ~> Ended(id)

\* "Exactly one terminal outcome ... never two" (spec.md section 7) as the
\* caller sees it: a caller whose response receiver got the response
\* (protocol.rs:149) is not also sent an OutboundFailure for the request.
\* The send on response_tx happens inside the future, the manager hears of
\* it only with the handler's later report, and on_connection_closed fails
\* every id still in the connection's in-flight set.
CallerOutcomeUnique ==
    \A id \in 1..next_request_id :
        request_info[id].dir = "Outbound" /\ delivered \in Response =>
            "Failed" \notin ToSet(history[id])

=============================================================================
