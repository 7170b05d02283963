------------------------------ MODULE Protocol ------------------------------
(***************************************************************************)
(* src/behaviour/handler/protocol.rs: one request / response exchange on  *)
(* one substream between two peers that both run this crate.  Peer A runs  *)
(* RequestProtocol::upgrade_outbound, peer B runs                          *)
(* ResponseProtocol::upgrade_inbound.  Each future is a program counter    *)
(* whose steps are the code between two awaits; read_and_parse and         *)
(* parse_and_write (the wire codec) are modelled by their outcome: a whole *)
(* frame read, end of stream, or an I/O error.                             *)
(*                                                                         *)
(* Environment: the transport may reset the substream (every later read,   *)
(* write or close fails; a frame already buffered may or may not still be  *)
(* read); on B the connection handler may drop the receiver of request_tx, *)
(* and B's manager or user, who holds the response sink, either sends a    *)
(* response or drops the sink; on A the caller may stop waiting for the    *)
(* response.  A future that ends drops its substream, which closes its     *)
(* write half.  Payload encoding is not modelled: both peers run the same  *)
(* serde types, so a complete frame always decodes.                        *)
(***************************************************************************)
EXTENDS Naturals, Sequences

CONSTANTS
    Response,     \* response values B's user may send
    MaxResets     \* bound on transport resets of the substream

Dir == {"AtoB", "BtoA"}
Msg == {"Request"} \cup Response

\* CommunicationProtocol and protocol_info: the names a side offers, empty
\* when its protocol support excludes this direction.
ProtocolName == "/stronghold-communication/1.0.0"
protocol_info(enabled) == IF enabled THEN {ProtocolName} ELSE {}

VARIABLES
    out_pc, out_res,   \* upgrade_outbound on A: step and result
    in_pc, in_res,     \* upgrade_inbound on B: step and result
    out_protocols,     \* RequestProtocol.protocols non-empty
    in_protocols,      \* ResponseProtocol.protocols non-empty
    wire,              \* [Dir -> Seq(Msg)]: complete frames not yet read
    wclosed,           \* [Dir -> BOOLEAN]: the sender closed its write half
    resets,            \* resets of the substream so far
    request_rx_open,   \* B's handler still holds the receiver of request_tx
    sink,              \* B's response sink: "none", "held", "dropped" or a Response
    caller_open,       \* A's caller still holds the response receiver
    delivered          \* what A's caller got: "none", "canceled" or a Response

pvars == <<out_pc, out_res, in_pc, in_res, out_protocols, in_protocols, wire, wclosed,
           resets, request_rx_open, sink, caller_open, delivered>>

Result == {"none", "true", "false", "Err"}

Init ==
    /\ out_pc = "negotiate" /\ out_res = "none"
    /\ in_pc = "idle" /\ in_res = "none"
    /\ out_protocols \in BOOLEAN
    /\ in_protocols \in BOOLEAN
    /\ wire = [d \in Dir |-> <<>>]
    /\ wclosed = [d \in Dir |-> FALSE]
    /\ resets = 0
    /\ request_rx_open = TRUE
    /\ sink = "none"
    /\ caller_open = TRUE
    /\ delivered = "none"

-----------------------------------------------------------------------------
(* The wire codec.  read_one (inside read_and_parse) yields the next whole *)
(* frame, fails at end of stream or after a reset, and blocks otherwise;   *)
(* a frame buffered before a reset may still be returned.  write_one       *)
(* writes the frame and closes the write half; it fails after a reset.    *)
ReadsFrame(d) == wire[d] # <<>>
ReadFails(d)  == (wire[d] = <<>> /\ wclosed[d]) \/ resets > 0
read_and_parse_ok(d)  == ReadsFrame(d) /\ wire' = [wire EXCEPT ![d] = Tail(@)]
read_and_parse_err(d) == ReadFails(d) /\ UNCHANGED wire

\* parse_and_write up to its final io.close(): serde_json::to_vec and write_one.
parse_and_write(d, msg) ==
    /\ resets = 0
    /\ wire' = [wire EXCEPT ![d] = Append(@, msg)]
    /\ wclosed' = [wclosed EXCEPT ![d] = TRUE]

\* io.close() succeeds unless the substream was reset.
CloseOk == resets = 0

\* Dropping a finished future's substream closes its write half.
DropIo(d) == wclosed' = [wclosed EXCEPT ![d] = TRUE]

-----------------------------------------------------------------------------
(* Protocol negotiation: the substream is opened only when both sides      *)
(* offer the protocol name; otherwise A's upgrade fails (unsupported) and  *)
(* B's future never runs.                                                  *)
Negotiate ==
    /\ out_pc = "negotiate"
    /\ IF protocol_info(out_protocols) \cap protocol_info(in_protocols) # {}
       THEN out_pc' = "write" /\ in_pc' = "read" /\ UNCHANGED <<out_res, caller_open, delivered>>
       ELSE /\ out_pc' = "done" /\ out_res' = "Err" /\ UNCHANGED in_pc
            /\ delivered' = IF caller_open THEN "canceled" ELSE delivered
            /\ UNCHANGED caller_open
    /\ UNCHANGED <<in_res, out_protocols, in_protocols, wire, wclosed, resets,
                   request_rx_open, sink>>

(* upgrade_outbound: write the request (write_one, then io.close()), read the response and forward *)
(* it on response_tx; is_ok() of that send is the result.  On an error the *)
(* request, and with it response_tx, is dropped.                           *)
OutFail ==
    /\ out_pc' = "done" /\ out_res' = "Err"
    /\ delivered' = IF caller_open THEN "canceled" ELSE delivered
    /\ DropIo("AtoB")

upgrade_outbound_write ==
    /\ out_pc = "write"
    /\ \/ parse_and_write("AtoB", "Request") /\ out_pc' = "close"
          /\ UNCHANGED <<out_res, delivered>>
       \/ resets > 0 /\ OutFail /\ UNCHANGED wire
    /\ UNCHANGED <<in_pc, in_res, out_protocols, in_protocols, resets, request_rx_open,
                   sink, caller_open>>

upgrade_outbound_close ==
    /\ out_pc = "close"
    /\ \/ CloseOk /\ out_pc' = "read" /\ UNCHANGED <<out_res, delivered, wclosed>>
       \/ ~CloseOk /\ OutFail
    /\ UNCHANGED <<in_pc, in_res, out_protocols, in_protocols, wire, resets,
                   request_rx_open, sink, caller_open>>

upgrade_outbound_read ==
    /\ out_pc = "read"
    /\ \/ /\ read_and_parse_ok("BtoA")
          /\ out_pc' = "done"
          /\ out_res' = IF caller_open THEN "true" ELSE "false"
          /\ delivered' = IF caller_open THEN Head(wire["BtoA"]) ELSE delivered
          /\ UNCHANGED wclosed
       \/ read_and_parse_err("BtoA") /\ OutFail
    /\ UNCHANGED <<in_pc, in_res, out_protocols, in_protocols, resets, request_rx_open,
                   sink, caller_open>>

-----------------------------------------------------------------------------
(* upgrade_inbound: read the request, send it with a fresh response sink   *)
(* on request_tx (the result of that send is ignored: if the receiver is   *)
(* gone the query and its sink are dropped), await the sink, then write    *)
(* the response and close, or close without writing if the sink was        *)
(* dropped.  Any I/O error ends the future with Err.                       *)
in_unchanged == <<out_pc, out_res, out_protocols, in_protocols, resets, request_rx_open,
                  caller_open, delivered>>

InFail == in_pc' = "done" /\ in_res' = "Err" /\ DropIo("BtoA")

upgrade_inbound_read ==
    /\ in_pc = "read"
    /\ \/ /\ read_and_parse_ok("AtoB")
          /\ sink' = IF request_rx_open THEN "held" ELSE "dropped"
          /\ in_pc' = "await"
          /\ UNCHANGED <<in_res, wclosed>>
       \/ read_and_parse_err("AtoB") /\ InFail /\ UNCHANGED sink
    /\ UNCHANGED in_unchanged

\* Mutant: a dropped sink is taken for a response (unwrap_or_default).
upgrade_inbound_await_default ==
    /\ in_pc = "await"
    /\ sink \in Response \cup {"dropped"}
    /\ in_pc' = "write"
    /\ UNCHANGED <<in_res, wire, wclosed, sink>>
    /\ UNCHANGED in_unchanged

\* Mutant: only a response wakes the future; a dropped sink is never noticed.
upgrade_inbound_await_no_cancel ==
    /\ in_pc = "await"
    /\ sink \in Response /\ in_pc' = "write"
    /\ UNCHANGED <<in_res, wire, wclosed, sink>>
    /\ UNCHANGED in_unchanged

upgrade_inbound_await ==
    /\ in_pc = "await"
    /\ \/ sink \in Response /\ in_pc' = "write"
       \/ sink = "dropped" /\ in_pc' = "close_unanswered"
    /\ UNCHANGED <<in_res, wire, wclosed, sink>>
    /\ UNCHANGED in_unchanged

upgrade_inbound_write ==
    /\ in_pc = "write"
    /\ \/ parse_and_write("BtoA", sink) /\ in_pc' = "close" /\ UNCHANGED in_res
       \/ resets > 0 /\ InFail /\ UNCHANGED wire
    /\ UNCHANGED sink
    /\ UNCHANGED in_unchanged

\* The io.close() after parse_and_write's write: Ok(true).
upgrade_inbound_close ==
    /\ in_pc = "close"
    /\ \/ CloseOk /\ in_pc' = "done" /\ in_res' = "true" /\ UNCHANGED wclosed
       \/ ~CloseOk /\ InFail
    /\ UNCHANGED <<wire, sink>>
    /\ UNCHANGED in_unchanged

\* Mutant: the unanswered branch reports Ok(true) (.map(|_| true)).
upgrade_inbound_close_unanswered_true ==
    /\ in_pc = "close_unanswered"
    /\ \/ CloseOk /\ in_pc' = "done" /\ in_res' = "true" /\ DropIo("BtoA")
       \/ ~CloseOk /\ InFail
    /\ UNCHANGED <<wire, sink>>
    /\ UNCHANGED in_unchanged

\* Err(_) from rx.await: io.close() and Ok(false).
upgrade_inbound_close_unanswered ==
    /\ in_pc = "close_unanswered"
    /\ \/ CloseOk /\ in_pc' = "done" /\ in_res' = "false" /\ DropIo("BtoA")
       \/ ~CloseOk /\ InFail
    /\ UNCHANGED <<wire, sink>>
    /\ UNCHANGED in_unchanged

-----------------------------------------------------------------------------
(* The environment of the two futures.                                     *)
env_unchanged == <<out_pc, out_res, in_pc, in_res, out_protocols, in_protocols, wire, wclosed>>

Reset ==
    /\ resets < MaxResets
    /\ resets' = resets + 1
    /\ UNCHANGED <<request_rx_open, sink, caller_open, delivered>>
    /\ UNCHANGED env_unchanged

\* B's connection handler drops the receiving end of request_tx.
DropRequestRx ==
    /\ request_rx_open
    /\ request_rx_open' = FALSE
    /\ UNCHANGED <<resets, sink, caller_open, delivered>>
    /\ UNCHANGED env_unchanged

\* B's user answers through the response sink, or B's manager fails the
\* request and drops the sink.
UserRespond(v) ==
    /\ sink = "held"
    /\ sink' = v
    /\ UNCHANGED <<resets, request_rx_open, caller_open, delivered>>
    /\ UNCHANGED env_unchanged

UserDrop ==
    /\ sink = "held"
    /\ sink' = "dropped"
    /\ UNCHANGED <<resets, request_rx_open, caller_open, delivered>>
    /\ UNCHANGED env_unchanged

\* A's caller stops waiting for the response.
CallerDrop ==
    /\ caller_open /\ delivered = "none"
    /\ caller_open' = FALSE
    /\ UNCHANGED <<resets, request_rx_open, sink, delivered>>
    /\ UNCHANGED env_unchanged

FutureStep ==
    \/ Negotiate
    \/ upgrade_outbound_write \/ upgrade_outbound_close \/ upgrade_outbound_read
    \/ upgrade_inbound_read \/ upgrade_inbound_await \/ upgrade_inbound_write
    \/ upgrade_inbound_close \/ upgrade_inbound_close_unanswered

Next ==
    \/ FutureStep
    \/ Reset \/ DropRequestRx \/ UserDrop \/ CallerDrop
    \/ \E v \in Response : UserRespond(v)

Spec == Init /\ [][Next]_pvars

(* The executor polls a future whenever what it awaits is ready, so every  *)
(* enabled step of either future is eventually taken.  The transport,      *)
(* handlers, users and callers are not obliged to act.                     *)
FairSpec == Spec /\ WF_pvars(FutureStep)

-----------------------------------------------------------------------------
(* Properties.                                                             *)

ProtocolTypeOK ==
    /\ out_pc \in {"negotiate", "write", "close", "read", "done"}
    /\ in_pc \in {"idle", "read", "await", "write", "close", "close_unanswered", "done"}
    /\ out_res \in Result /\ in_res \in Result
    /\ out_protocols \in BOOLEAN /\ in_protocols \in BOOLEAN
    /\ wire \in [Dir -> Seq(Msg)]
    /\ wclosed \in [Dir -> BOOLEAN]
    /\ resets \in 0..MaxResets
    /\ request_rx_open \in BOOLEAN
    /\ sink \in {"none", "held", "dropped"} \cup Response
    /\ caller_open \in BOOLEAN
    /\ delivered \in {"none", "canceled"} \cup Response

Finished == out_pc = "done" /\ in_pc \in {"idle", "done"}

\* When the substream is not reset, the two ends agree on whether a response
\* went through: upgrade_inbound returns Ok(true) ("response sent") exactly
\* when upgrade_outbound read a response (Ok(true) or Ok(false), whether or
\* not its caller still waited).  It takes the whole exchange: B's sink
\* dropped by its manager, by a closed request_tx receiver, or answered;
\* A's unsupported protocols; B closing without writing, which A must read
\* as end of stream.
OutcomeAgreement ==
    (Finished /\ resets = 0) => (out_res \in {"true", "false"} <=> in_res = "true")

\* Neither end waits forever unless B's user keeps the response sink
\* forever: a dropped sink, a reset or a refused negotiation all end both
\* futures (FairSpec).  Nothing in protocol.rs times out, so a held sink is
\* the one way to wait forever.
ExchangeEnds == <>[](sink = "held") \/ <>Finished

=============================================================================
