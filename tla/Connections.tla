----------------------------- MODULE Connections -----------------------------
(***************************************************************************)
(* PeerConnectionManager, the connection bookkeeping the RequestManager    *)
(* keeps in its field `connections` (request_manager.rs:85).  Its source,  *)
(* request_manager/connections.rs (`mod connections;` at                   *)
(* request_manager.rs:9), is not part of this repository snapshot, so the  *)
(* operators below follow spec.md section 4.5 "Connection bookkeeping".    *)
(*                                                                         *)
(* A manager value cm is a record                                          *)
(*   connections       : [Peer -> Seq(ConnId)]  (insertion order)          *)
(*   pending_responses : [ConnId -> [Direction -> SUBSET RequestId]]       *)
(* A connection that is not registered has empty in-flight sets, which is  *)
(* what remove_connection's None means to its only caller.                 *)
(***************************************************************************)
EXTENDS Sequences, SequencesExt

CONSTANTS Peer, ConnId, NoConn

Direction == {"Inbound", "Outbound"}

NoPending == [d \in Direction |-> {}]

new_connection_manager ==
    [connections       |-> [p \in Peer |-> <<>>],
     pending_responses |-> [c \in ConnId |-> NoPending]]

is_connected(cm, peer) == cm.connections[peer] # <<>>

\* The peers with at least one connection.
get_connected_peers(cm) == {p \in Peer : is_connected(cm, p)}

get_connections(cm, peer) == cm.connections[peer]

add_connection(cm, peer, conn) ==
    [cm EXCEPT !.connections[peer] = Append(@, conn),
               !.pending_responses[conn] = NoPending]

(* Attach request_id to the first connection of peer, by insertion order.  *)
(* Returns the chosen connection (NoConn for None) and the new manager.    *)
add_request(cm, peer, request_id, dir) ==
    IF is_connected(cm, peer)
    THEN LET conn == Head(cm.connections[peer])
         IN [conn |-> conn,
             cm   |-> [cm EXCEPT !.pending_responses[conn][dir] = @ \cup {request_id}]]
    ELSE [conn |-> NoConn, cm |-> cm]

remove_request(cm, conn, request_id, dir) ==
    [cm EXCEPT !.pending_responses[conn][dir] = @ \ {request_id}]

(* Drop conn and hand back the requests that were in flight on it.         *)
remove_connection(cm, peer, conn) ==
    [pending |-> cm.pending_responses[conn],
     cm      |-> [cm EXCEPT !.connections[peer] = Remove(@, conn),
                            !.pending_responses[conn] = NoPending]]

(* Forget the peer's connection list; the in-flight sets stay until the    *)
(* caller closes each returned connection.                                 *)
remove_all_connections(cm, peer) ==
    [conns |-> cm.connections[peer],
     cm    |-> [cm EXCEPT !.connections[peer] = <<>>]]

=============================================================================
