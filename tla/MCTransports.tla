---------------------------- MODULE MCTransports ----------------------------
(***************************************************************************)
(* The other transports and the discovery of servers, checked in one run.  *)
(* They share no state: focus says which one a behaviour is about, and the *)
(* others stay as they are.                                                *)
(***************************************************************************)
EXTENDS EncryptedTransport, LoopbackTransport, NetworkSimulator, WebSocketTransport,
        LanDiscovery

VARIABLE focus

vars == <<focus, enc_vars, lb_vars, sim_vars, ws_vars, lan_vars>>

\* Any loss and duplication, one latency, no jitter.
OneDelay == [loss : BOOLEAN, duplication : BOOLEAN, delays : {{1}}, jitter : {0}]

Init ==
  /\ focus \in {"encrypted", "loopback", "simulator", "websocket", "lan"}
  /\ EncryptedInit
  /\ LoopbackInit
  /\ SimulatorInit
  /\ focus # "simulator" => sim_setting = CHOOSE s \in SimSettings : TRUE
  /\ WebSocketInit
  /\ LanInit

Encrypted(A) ==
  focus = "encrypted" /\ A /\ UNCHANGED <<focus, lb_vars, sim_vars, ws_vars, lan_vars>>
Loopback(A) ==
  focus = "loopback" /\ A /\ UNCHANGED <<focus, enc_vars, sim_vars, ws_vars, lan_vars>>
Simulator(A) ==
  focus = "simulator" /\ A /\ UNCHANGED <<focus, enc_vars, lb_vars, ws_vars, lan_vars>>
WebSocket(A) ==
  focus = "websocket" /\ A /\ UNCHANGED <<focus, enc_vars, lb_vars, sim_vars, lan_vars>>
Lan(A) ==
  focus = "lan" /\ A /\ UNCHANGED <<focus, enc_vars, lb_vars, sim_vars, ws_vars>>

Next ==
  \/ Encrypted(EncryptedNext)
  \/ Loopback(LoopbackNext)
  \/ Simulator(SimulatorNext)
  \/ WebSocket(WebSocketNext)
  \/ Lan(LanNext)

\* The fairness of WebSocketFairSpec and of LanFairSpec.
Fair ==
  /\ WF_vars(WebSocket(ws_open))
  /\ WF_vars(WebSocket(ws_poll))
  /\ WF_vars(WebSocket(ws_pop_receive))
  /\ WF_vars(Lan(lan_tick))
  /\ \A d \in Discos : WF_vars(Lan(lan_poll(d)))
  /\ \A d \in LanServers : SF_vars(Lan(LanGetsThrough(d)))

Spec == Init /\ [][Next]_vars /\ Fair

-----------------------------------------------------------------------------
(* Properties of all transports.                                           *)

\* What every ITransport owes its user: what poll() and pop_receive hand up was
\* sent to this transport, arrives in the order it was sent in and not again, and
\* nothing is missing that was not dropped on purpose, whatever the delays, the
\* settings and the connections in between.
TransportsInOrder ==
  LbHearsItsServer /\ LbInOrder /\ SimInOrder /\ SimAccounted /\ WsStream

\* What several users share is as each of them believes: the hub's tables as the
\* transports that are registered in them, the socket of a LanDiscovery as its
\* two roles, the time of its beacons as the time that has passed.
SharedStateInv ==
  /\ EncTypeOK /\ LoopbackTypeOK /\ SimulatorTypeOK /\ WebSocketTypeOK /\ LanTypeOK
  /\ LbRegistered /\ LanSocket /\ LanRate
=============================================================================
