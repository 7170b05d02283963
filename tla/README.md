# TLA+ models of the p2p request manager

These modules model the request / response core of this crate. The centre is
`RequestManager` in `src/src/behaviour/request_manager.rs`: a
single-threaded state machine driven by its host. The host is the
`NetBehaviour` facade, the firewall, the libp2p swarm and the per-connection
protocol handlers.

## The system

| Part (spec.md §2) | Source | State | Operations |
|---|---|---|---|
| C5 Request manager | `request_manager.rs` | `inbound_request_store`, `outbound_request_store`, `connections`, `awaiting_connection`, `awaiting_peer_rule`, `awaiting_approval`, `actions` | `on_new_request`, `on_peer_connected`, `on_peer_disconnected`, `on_connection_established`, `on_connection_closed`, `on_dial_failure`, `on_peer_rule`, `on_no_peer_rule`, `on_request_approval`, `on_res_for_inbound`, `on_res_for_outbound`, `add_pending_rule_requests`, `set_protocol_support`, `take_next_action`; queries `pending_rule_requests`, `connected_peers` |
| C4 Connection manager | `request_manager/connections.rs` (not in the snapshot) | per peer, its connections in insertion order; per connection, the in-flight ids per direction | `add_connection`, `add_request`, `remove_request`, `remove_connection`, `remove_all_connections`, `is_connected`, `get_connections` |
| C6 Firewall, facade, swarm | not in the snapshot | outstanding rule queries and approval queries, dials, connections | the host side of every manager call |
| C2/C3 Protocol handlers | `handler/protocol.rs` | one upgrade future per substream | read request, await the response sink, write, close |
| C1 Wire codec | `handler/protocol.rs:156-174` | none | `read_and_parse`, `parse_and_write` |
| `unwrap_or_return!` | `lib.rs:37-45` | none | an early `return` on `None` |

How the parts interact. A request enters through `on_new_request`. An
inbound request comes from a response handler and an outbound one from the
user. The facade has already classified the request against the firewall:

- `MissingRule`: the request is stored in `awaiting_peer_rule`, and the facade
  sends a rule query unless `pending_rule_requests` shows one is already
  pending.
- `MissingApproval`: the request is stored in `awaiting_approval`.
- `Approved`: the request is attached to a connection, or waits in
  `awaiting_connection` behind a `RequireDialAttempt`.
- `Rejected`: the request fails.

Rule answers (`on_peer_rule` / `on_no_peer_rule`), approvals
(`on_request_approval`) and swarm events (connection established or closed,
peer connected or disconnected, dial failure) move requests between these
places. Each move ends in a `*Ready` or `*Failure` action on the FIFO `actions`
queue. The host drains the queue:

- it hands Ready requests to the user or to a handler;
- it dials on `RequireDialAttempt`;
- the handler reports the result through `on_res_for_*`.

Hard behaviours:

- The firewall, the dialer, the handlers and the swarm act independently, so
  their calls to the manager interleave arbitrarily.
- A handler can time out while its request is still waiting for a rule.
- A connection can close while requests are in flight on it.
- Rule answers are processed in append order, while `awaiting_approval` is
  searched by binary search.

## Modules

- `Connections.tla` models `PeerConnectionManager`. Its source is missing, so
  it follows spec.md 4.5. Connection selection is first by insertion order,
  as spec.md §9 recommends.
- `RequestManager.tla` gives every method as an operator from a manager record
  to the record after the call:
  - A nested call is an operator application, and a `for_each` / `for` loop is
    a `FoldLeft` in list order.
  - `unwrap_or_return` is the macro of `lib.rs`. It either continues with
    the rest of the body or returns with the state unchanged. In
    `on_peer_connected` it sits inside a `for_each` closure, so the return
    skips only the current id.
  - `binary_search_by` is a `RECURSIVE` transcription of the Rust std (1.52+)
    loop.
  - A stored `RequestMessage` is represented only by its peer, which is all
    that the control flow reads.
  - `Apply(m)` installs a record into the seven variables. `OnDialFailure` …
    `TakeNextAction` are the actions for single calls.
- `P2PNetwork.tla` adds the environment, modelled from spec.md 4.5, 4.6 and 6.
  Each step is one manager call the host can make, together with the host's
  bookkeeping:
  - `NewRequest` covers the facade's `add_pending_rule_requests` followed by
    `on_new_request`.
  - `PeerRule`, `NoPeerRule` and `RequestApproval` are the firewall's answers
    to outstanding queries.
  - `ConnectionEstablished` and `ConnectionClosed` make one call or two. The
    swarm calls `inject_connection_established` and, on the first connection,
    `inject_connected` in the same event. Likewise it calls
    `inject_connection_closed` and, after the last connection,
    `inject_disconnected`. Each pair is one atomic step.
  - `DialFailure`.
  - `ResultFor` is a handler report. It comes on the connection the request
    arrived on (inbound) or was dispatched on (outbound). It comes at most
    once, and not after the manager has failed the request.
  - `SetSupport`.
  - `HostTakeAction` is the event loop taking the next action.
  - The ghost variable `history` records the outcomes of each request.
- `RequestLifecycle.tla` is the abstract promise of spec.md 4.5 ("State
  machine for an individual request"). Per request id, a phase moves only
  forward: none → awaiting_peer_rule → awaiting_approval →
  awaiting_connection → in_flight → done | failed, where any step may skip
  ahead or fail, and done and failed are final. One step may move several ids,
  because a connection closing fails all of its requests at once.
  `P2PNetwork` implements it for outbound requests. `OutboundPhase` maps each
  concrete state to a phase: the waiting list holding the id, else the last
  outcome in `history`, else in-flight. `Lifecycle == INSTANCE
  RequestLifecycle WITH ...` and `LifecycleRefined == Lifecycle!Spec` check the
  refinement. Inbound requests are left out of the mapping, because findings 2
  and 3 show that they do not keep this promise.
- `Protocol.tla` models `handler/protocol.rs`: one substream between the
  requester's `upgrade_outbound` future (A) and the responder's
  `upgrade_inbound` future (B).
  - Each future is a program counter with one action per `.await`:
    - A: negotiate, write the request, close, read the response, forward it
      to the caller;
    - B: read the request, forward it to the handler, await the response sink,
      then either write and close or close unanswered.
  - Every `?` is an action that ends the future with `Err` and drops the io.
  - The substream is a message sequence per direction, plus a closed flag per
    direction. `read_and_parse` yields a whole frame, or fails on a closed
    empty half or after a reset. `parse_and_write` appends a frame and closes
    its half.
  - Negotiation fails when either side's `protocol_info` is empty.
  - The environment acts at any time, and each of these is its own action:
    - the connection handler drops `request_rx`;
    - the user answers or drops the response channel;
    - the outbound caller drops its receiver;
    - the transport resets the substream, at most `MaxResets` times.
- `Dispatch.tla` composes `P2PNetwork` with `Protocol` through the
  connection handler. The handler is `handler/mod.rs`, which is not in the
  snapshot, so it is modelled from spec.md 6 and 7.
  - An outbound request the host takes as `OutboundReady` runs the two
    futures of `Protocol` (instance `Proto`) while its connection is alive.
  - The handler then reports the future's result (`Report`): `Ok(true)` and
    `Ok(false)` become `on_res_for_outbound(Ok)`, and an `io::Error` becomes
    one of the failure reasons.
  - The handler's upgrade timeout drops an unfinished future and reports
    `Timeout` (`UpgradeTimeout`).
  - A connection close freezes the future, and `on_connection_closed` fails
    the request.
  - Inbound requests keep the abstract `ResultFor`.
  - One request is admitted (`MaxRequests = 1`), so there is one substream.
- `MC_P2PNetwork.tla` defines the symmetry set (peers and connection ids) for
  the safety run.

## Runs

| Run | cfg | Bounds | Checks | Result |
|---|---|---|---|---|
| safety | `MC_safety.cfg` | 2 peers, 2 connection ids, 2 requests, `MaxActions`=1, results Ok/Timeout, symmetry | `RequestAccounting` (spec §3 invariants 1-3, 5), `OutboundOutcomeUnique` (spec §7), `ReadyTracked`, `WaitersOnlyWhileDisconnected`, `LifecycleRefined` (refinement of `RequestLifecycle`) | pass, 280,754 states |
| liveness | `MC_liveness.cfg` | 1 peer, 2 connection ids, 2 requests, no `SetSupport` | `RuleWaitEnds`, `ConnectionWaitEnds` under `FairSpec` | pass, 58,014 states |
| protocol | `MC_protocol.cfg` | 2 response values, 1 reset | `ProtocolTypeOK`, `OutcomeAgreement`, `ExchangeEnds` under `FairSpec` | pass, 452 states |
| dispatch | `MC_dispatch.cfg` | 1 peer, 2 connection ids, 1 request, 1 response value, 1 reset, `MaxActions`=1 | `DispatchEnds` under `DispatchFairSpec` | pass, 109,752 states |
| caller_outcome | `MC_caller_outcome.cfg` | same, `MaxActions`=0, no fairness | `CallerOutcomeUnique` | violation |
| approval_lost | `MC_approval_lost.cfg` | 1 peer, 2 connections, 2 requests | `ApprovalOutstanding` | violation |
| inbound_outcome | `MC_inbound_outcome.cfg` | same | `InboundOutcomeUnique` | violation |
| inbound_inflight | `MC_inbound_inflight.cfg` | same, handler results Ok only | `CompletedNotInFlight` | violation |

Why the bounds are enough:

- Two requests suffice for every two-request race: one waits while the other
  overtakes it. Both findings need exactly two.
- Two connection ids allow a reconnect, and two simultaneous connections for
  one peer.
- Two peers in the safety run let the actions for one peer interleave with
  the actions for another. The liveness run keeps one peer: two peers with
  two requests took eight minutes (195,802 distinct states, most of the time
  in the temporal check). That is over the five-minute budget. Two peers
  with one request add no race that one peer lacks.
- `MaxActions` only bounds the `SetProtocolSupport` calls. Those calls never
  move a request, so one call is enough to interleave them with the rest.
- Connection ids are never reused, so `established` bounds the number of
  connections.

What `ReadyTracked` in the safety run shows: an outbound request is in a
connection's in-flight set exactly while its only outcome so far is Ready.
That connection is always a live one of the request's peer. Without this, a
Ready request missing from the sets would get no `ConnectionClosed` failure
when its connection closes. A request in flight but never made Ready would be
failed although it never ran. `handle_request_approval` calls `add_request`
before `take_stored_request`'s early return (lines 565-566), so the second
case is reachable only if an id reaches the approval path unstored. The run
shows that it does not.

What the protocol run shows:

- `OutcomeAgreement`: when no reset happens, the two futures agree. B reports
  `true` exactly when A read the response, whether or not A's caller was
  still there to take it. Under a reset they can disagree: a reset between
  the write and the close makes B fail after A has read the response. This is
  listed as a hazard.
- `ExchangeEnds`: both futures finish unless the user holds the response
  channel forever. `rx.await` has no timeout.

The protocol bounds: two response values distinguish which response was
delivered. One reset reaches every await point in both futures, because the
reset is an environment action enabled in every state.

Fairness (liveness run):

- weak fairness on `HostTakeAction`: the event loop polls the manager whenever
  it has actions;
- weak fairness on `DialOutcome(p)`: a dial ends in a connection or a dial
  failure;
- weak fairness on `RuleAnswer(q)`: the firewall answers every rule query
  (spec §6 "eventually yields").

Dispatch run: weak fairness on three steps:

- `HostTakeAction`;
- the futures' steps while their handler runs;
- `Report`: the swarm polls the handler, which emits the finished upgrade's
  event.

Firewall answers, dials, the remote user and the caller are not assumed to
act.

Protocol run: weak fairness on `FutureStep`, the steps of the two futures.
The executor polls a future whose awaited I/O or channel is ready.

Users, remote peers, approvals and handlers are not assumed to act.
`CHECK_DEADLOCK FALSE` is set because the system legitimately stops once
every request is finished and `MaxRequests` is used up.

Mutants: each property of a passing run is violated by one plausible bug in
the mapped code. The mutant operators are defined in `RequestManager.tla` or `Protocol.tla`,
just before the definition they replace:

| Mutant | Bug | Violates |
|---|---|---|
| `on_dial_failure_keeps_store` | the failed request stays stored | `RequestAccounting` |
| `on_res_for_outbound_keeps_pending` | no `remove_request`, so a later close fails the request again | `OutboundOutcomeUnique` |
| `on_no_peer_rule_keeps_lists` | the waiting lists are not removed | `RuleWaitEnds` |
| `on_peer_connected_keeps_waiters` | `awaiting_connection` is not removed | `ConnectionWaitEnds` |
| `handle_request_approval_untracked` | an approved outbound request is made Ready without `add_request`'s update to the in-flight sets | `ReadyTracked` |
| `on_res_for_outbound_keeps_pending` (again) | a closed connection fails a done request | `LifecycleRefined` |
| `on_connection_closed_inbound_only` | a closed connection fails only its inbound requests | `DispatchEnds` |
| `handle_request_approval_always_dials` | an approved outbound request waits for a dial although its peer is connected | `WaitersOnlyWhileDisconnected` |
| `upgrade_inbound_await_default` (Protocol) | a dropped sink is treated as a response to write | `ProtocolTypeOK` |
| `upgrade_inbound_close_unanswered_true` (Protocol) | closing unanswered reports `true` | `OutcomeAgreement` |
| `upgrade_inbound_await_no_cancel` (Protocol) | only a response wakes the future, not a dropped sink | `ExchangeEnds` |

## Findings

1. **The approval search misses requests (`request_manager.rs:309`, with
   371-374).** The trace has four steps:
   1. Request 1 (outbound, MissingRule) waits for a rule.
   2. Request 2 (MissingApproval) is appended to `awaiting_approval`.
   3. The rule answer Ask appends request 1 behind it, giving `[(2,_),(1,_)]`.
   4. The approval for 2 arrives. `binary_search_by` looks at index 1, sees
      id 1 < 2 and misses.

   Request 2 then stays stored and waiting, and no query is left to release
   it. This contradicts spec §3 invariant 4 and resolves the §9 open question:
   monotonic ids do not keep the list sorted.
2. **Inbound requests get two outcomes (`request_manager.rs:390`).** A handler
   timeout while the request waits for its rule pushes `InboundFailure(Timeout)`
   and leaves the request stored. The rule answer then pushes a second failure,
   or an `InboundReady`. This contradicts spec §7: exactly one terminal
   outcome.
3. **Inbound requests attach to the wrong connection (`request_manager.rs:151`).**
   An Approved inbound request arriving on the second connection is attached
   to the first. The handler's Ok report names the arrival connection, so the
   id stays in flight on the first connection and is failed again when that
   connection closes. This contradicts spec §8 property 1.

4. **The caller can get its response and a failure
   (`request_manager.rs:231`, with `protocol.rs:149`).** The run is
   `caller_outcome`. `upgrade_outbound` hands the response to the caller's
   receiver and only then returns `Ok(true)`, which the connection handler
   reports to `on_res_for_outbound`. If the connection closes in between,
   `on_connection_closed` still finds the id in flight and pushes
   `OutboundFailure(ConnectionClosed)`. This contradicts spec §7: exactly one
   terminal outcome. Whether the window is open depends on when the
   connection handler (not in the snapshot) delivers the finished upgrade's
   event.

Two of the violation runs hold a single question each:

- `inbound_inflight` restricts handler results to Ok. Otherwise the
  timeout path of finding 2 is reached first.
- The safety run does not check `InboundOutcomeUnique` or
  `CompletedNotInFlight`, because findings 2 and 3 violate them.

## Not modelled, and the plan for later sittings

- **Properties that were dropped because they could not fail.**
  - A type invariant for the manager: `ManagerTypeOK` and `TypeOK` are
    kept as documentation but not checked. Every conjunct is a Rust type, so
    no code that compiles could break one.
  - Spec §8's disconnect equivalence: the swarm calls
    `on_peer_disconnected` only after `on_connection_closed` has removed
    the peer's last connection. So `remove_all_connections` returns an
    empty list, and line 216 only matters if `connections.rs` (not in the
    snapshot) kept connections that the closes had already removed. The
    model cannot check that file.
  - A separate check of `binary_search_by` against a declarative lookup:
    that only tested the transcription of std's search on sorted lists.
    The search bug in the repository is in the push order (finding 1),
    which the `approval_lost` run shows.

- **Inbound side of the connection handler**: inbound requests keep the
  abstract `ResultFor`. Composing them with `upgrade_inbound` needs the
  handler's path from `request_tx` to the manager and back to the sink. That
  path is in `handler/mod.rs` and the facade, neither of which is in the
  snapshot. Finding 2 already shows the inbound double outcome.
- **Several concurrent substreams**: `Dispatch` admits one request. One
  `Protocol` instance per request would multiply the state space past the
  run limits.
- **Connection manager protocol-support filter** (spec §4.5): no call in
  `request_manager.rs` installs support data, so every connection is eligible
  and the `expect("Peer is connected")` at line 201 holds. `on_peer_connected`
  models it as an `Assert` that TLC evaluates in every run. The filter itself
  would be in `connections.rs`, which is not in the snapshot, so it is not
  listed as a hazard. What that flush really depends on is
  `WaitersOnlyWhileDisconnected`: no request waits for a connection to a
  connected peer, because `on_peer_connected` runs only for the first
  connection.
- **Wire codec detail**: serde_json and the length-prefixed framing are not
  modelled; they have no control state. The unbounded
  `read_one(io, usize::MAX)` is listed as a hazard.
- **`take_next_action`'s `shrink_to_fit`**: it affects capacity only.
