------------------------- MODULE WebSocketTransport -------------------------
(***************************************************************************)
(* EmscriptenWebSocketTransport                                            *)
(* (src/src/transport/emscripten_websocket_transport.cpp): the transport   *)
(* of a browser client over one WebSocket.  The browser and the server at  *)
(* the other end are external: a socket opens, closes and receives         *)
(* messages at any moment between two calls of the application.            *)
(*                                                                         *)
(* A message is numbered by the server; an empty one has no bytes.         *)
(***************************************************************************)
EXTENDS Integers, Sequences, QueueFilter

CONSTANT
  WsMaxMessages  \* bound: messages of the server in one connection

ASSUME WsAssumption == WsMaxMessages \in Nat

VARIABLES
  ws_handle,      \* handle, 0 for none
  ws_state,       \* ws_ready_state of the socket of the handle
  ws_js_queue,    \* campello_ws_recv_queue of the handle
  ws_connecting,  \* connecting
  ws_connected,   \* connected
  ws_recv_queue,  \* recv_queue
  ws_read_idx,    \* recv_read_idx
  ws_sent,        \* the messages the server has sent to this socket
  ws_popped       \* the messages the application has popped of this connection

ws_vars == <<ws_handle, ws_state, ws_js_queue, ws_connecting, ws_connected,
             ws_recv_queue, ws_read_idx, ws_sent, ws_popped>>

\* Two handles are enough to tell a connection from the one before it.
WsHandle == {1, 2}

WsMessage == [n : 1 .. WsMaxMessages, empty : BOOLEAN]

WebSocketTypeOK ==
  /\ ws_handle \in WsHandle \cup {0}
  /\ ws_state \in {"CONNECTING", "OPEN", "CLOSING", "CLOSED"}
  /\ ws_js_queue \in Seq(WsMessage)
  /\ ws_connecting \in BOOLEAN /\ ws_connected \in BOOLEAN
  /\ ws_recv_queue \in Seq(WsMessage)
  /\ ws_read_idx \in 0 .. Len(ws_recv_queue)
  /\ ws_sent \in Seq(WsMessage) /\ ws_popped \in Seq(WsMessage)

WebSocketInit ==
  /\ ws_handle = 0
  /\ ws_state = "CLOSED"
  /\ ws_js_queue = << >>
  /\ ws_connecting = FALSE /\ ws_connected = FALSE
  /\ ws_recv_queue = << >> /\ ws_read_idx = 0
  /\ ws_sent = << >> /\ ws_popped = << >>

-----------------------------------------------------------------------------
(* The browser.                                                            *)

ws_open ==
  /\ ws_state = "CONNECTING"
  /\ ws_state' = "OPEN"
  /\ UNCHANGED <<ws_handle, ws_js_queue, ws_connecting, ws_connected, ws_recv_queue,
                 ws_read_idx, ws_sent, ws_popped>>

\* onmessage; a browser delivers messages only to an open socket.
ws_onmessage(empty) ==
  LET m == [n |-> Len(ws_sent) + 1, empty |-> empty] IN
  /\ ws_state = "OPEN"
  /\ Len(ws_sent) < WsMaxMessages
  /\ ws_sent' = Append(ws_sent, m)
  /\ ws_js_queue' = Append(ws_js_queue, m)
  /\ UNCHANGED <<ws_handle, ws_state, ws_connecting, ws_connected, ws_recv_queue,
                 ws_read_idx, ws_popped>>

\* The server, or an error, ends the connection.
ws_onclose ==
  /\ \/ ws_state \in {"CONNECTING", "CLOSING"} /\ ws_state' = "CLOSED"
     \/ ws_state = "OPEN" /\ ws_state' = "CLOSING"
  /\ UNCHANGED <<ws_handle, ws_js_queue, ws_connecting, ws_connected, ws_recv_queue,
                 ws_read_idx, ws_sent, ws_popped>>

-----------------------------------------------------------------------------
(* The transport.                                                          *)

\* connect() disconnects first.  ws_connect gives each socket a number of its own.
ws_connect(next) ==
  /\ ws_handle' = next
  /\ ws_state' = "CONNECTING"
  /\ ws_js_queue' = << >>
  /\ ws_connecting' = TRUE /\ ws_connected' = FALSE
  /\ ws_recv_queue' = << >> /\ ws_read_idx' = 0
  /\ ws_sent' = << >> /\ ws_popped' = << >>

\* ws_close drops the socket and its queue; the state of no socket is CLOSED.
ws_disconnect ==
  /\ ws_handle # 0
  /\ ws_handle' = 0
  /\ ws_state' = "CLOSED"
  /\ ws_js_queue' = << >>
  /\ ws_connecting' = FALSE /\ ws_connected' = FALSE
  /\ ws_recv_queue' = << >> /\ ws_read_idx' = 0
  /\ ws_sent' = << >> /\ ws_popped' = << >>

\* How many messages the loop of poll() takes: it stops behind an empty one.
WsDrained(queue) ==
  IF \E k \in DOMAIN queue : queue[k].empty
  THEN CHOOSE k \in DOMAIN queue :
         queue[k].empty /\ \A j \in 1 .. k - 1 : ~queue[j].empty
  ELSE Len(queue)

\* An empty message is not queued.
WsPayload(s) == Kept(s, {k \in DOMAIN s : ~s[k].empty})

WsConnectedAfterPoll_Never ==
  ws_state \in {"CONNECTING", "OPEN", "CLOSING"} /\ ws_connected

WsConnectedAfterPoll ==
  \/ ws_state = "OPEN" /\ (ws_connecting \/ ws_connected)
  \/ ws_state \in {"CONNECTING", "CLOSING"} /\ ws_connected

ws_poll ==
  LET taken == SubSeq(ws_js_queue, 1, WsDrained(ws_js_queue)) IN
  /\ ws_handle # 0
  /\ ws_connected' = WsConnectedAfterPoll
  /\ ws_connecting' = (ws_connecting /\ ws_state \in {"CONNECTING", "CLOSING"})
  /\ IF WsConnectedAfterPoll
     THEN /\ ws_recv_queue' = ws_recv_queue \o WsPayload(taken)
          /\ ws_js_queue' = SubSeq(ws_js_queue, Len(taken) + 1, Len(ws_js_queue))
     ELSE UNCHANGED <<ws_recv_queue, ws_js_queue>>
  /\ UNCHANGED <<ws_handle, ws_state, ws_read_idx, ws_sent, ws_popped>>

ws_pop_receive_NoReset ==
  /\ IF ws_read_idx >= Len(ws_recv_queue)
     THEN ws_recv_queue' = << >> /\ UNCHANGED <<ws_popped, ws_read_idx>>
     ELSE /\ ws_read_idx' = ws_read_idx + 1
          /\ ws_popped' = Append(ws_popped, ws_recv_queue[ws_read_idx + 1])
          /\ UNCHANGED ws_recv_queue
  /\ UNCHANGED <<ws_handle, ws_state, ws_js_queue, ws_connecting, ws_connected, ws_sent>>

ws_pop_receive_Early ==
  /\ IF ws_read_idx + 1 >= Len(ws_recv_queue)
     THEN ws_recv_queue' = << >> /\ ws_read_idx' = 0 /\ UNCHANGED ws_popped
     ELSE /\ ws_read_idx' = ws_read_idx + 1
          /\ ws_popped' = Append(ws_popped, ws_recv_queue[ws_read_idx + 1])
          /\ UNCHANGED ws_recv_queue
  /\ UNCHANGED <<ws_handle, ws_state, ws_js_queue, ws_connecting, ws_connected, ws_sent>>

\* At the end of the queue the call returns false and the queue is emptied.
ws_pop_receive ==
  /\ IF ws_read_idx >= Len(ws_recv_queue)
     THEN ws_recv_queue' = << >> /\ ws_read_idx' = 0 /\ UNCHANGED ws_popped
     ELSE /\ ws_read_idx' = ws_read_idx + 1
          /\ ws_popped' = Append(ws_popped, ws_recv_queue[ws_read_idx + 1])
          /\ UNCHANGED ws_recv_queue
  /\ UNCHANGED <<ws_handle, ws_state, ws_js_queue, ws_connecting, ws_connected, ws_sent>>

WebSocketNext ==
  \/ ws_open
  \/ \E empty \in BOOLEAN : ws_onmessage(empty)
  \/ ws_onclose
  \/ \E next \in WsHandle \ {ws_handle} : ws_connect(next)
  \/ ws_disconnect
  \/ ws_poll
  \/ ws_pop_receive

WebSocketSpec == WebSocketInit /\ [][WebSocketNext]_ws_vars

\* The browser decides the attempt to connect; the application polls every frame
\* and pops until there is nothing left.
WebSocketFair ==
  /\ WF_ws_vars(ws_open)
  /\ WF_ws_vars(ws_poll)
  /\ WF_ws_vars(ws_pop_receive)

WebSocketFairSpec == WebSocketSpec /\ WebSocketFair

-----------------------------------------------------------------------------
(* Properties.                                                             *)

\* "all WebSocket messages are reliable and ordered": what the application popped,
\* what it can still pop and what waits in the browser are the messages with
\* bytes that the server has sent, each once and in order; the reading index and
\* the two queues never lose or repeat one, also across an empty message.
WsStream ==
  WsPayload(ws_popped \o SubSeq(ws_recv_queue, ws_read_idx + 1, Len(ws_recv_queue))
            \o ws_js_queue) = WsPayload(ws_sent)

\* A message that has reached the browser reaches the application, unless the
\* connection is ended, by the server or by the application.
WsDelivered ==
  \A h \in WsHandle : \A k \in 1 .. WsMaxMessages :
    (ws_handle = h /\ Len(WsPayload(ws_sent)) >= k)
      ~> (Len(ws_popped) >= k \/ ws_handle # h \/ ws_state # "OPEN")

\* "all WebSocket messages are reliable": the same although the server closes the
\* connection behind the message.
WsReliable ==
  \A h \in WsHandle : \A k \in 1 .. WsMaxMessages :
    (ws_handle = h /\ Len(WsPayload(ws_sent)) >= k)
      ~> (Len(ws_popped) >= k \/ ws_handle # h)
=============================================================================
