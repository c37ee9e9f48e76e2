---------------------------- MODULE LanDiscovery ----------------------------
(***************************************************************************)
(* LanDiscovery (src/src/discovery/lan_discovery.cpp): servers broadcast   *)
(* beacons to a discovery port, clients listen on it.  The sockets and the *)
(* network are external: a socket bound to the discovery port has a buffer *)
(* of datagrams, which is full at some point, and any program may send to  *)
(* that port.                                                              *)
(*                                                                         *)
(* Time is counted in units, dt is the time since the last poll(), and     *)
(* longer gaps than LanMaxGap are not told apart.  A beacon is who sent it *)
(* and its player count; the other fields do not change while a server     *)
(* advertises.                                                             *)
(***************************************************************************)
EXTENDS Integers, Sequences, FiniteSetsExt

CONSTANTS
  Discos,         \* the LanDiscovery objects
  LanServers,     \* those that advertise at times
  LanInterval,    \* advert_interval_, above 0: poll() would not return
  LanPlayers,     \* player counts that servers report
  LanBuffer,      \* datagrams a socket holds
  LanMaxGap,      \* bound: time between two polls
  LanMaxForeign   \* bound: datagrams that are no beacons

ASSUME LanAssumption ==
  /\ LanServers \subseteq Discos
  /\ LanInterval \in Nat \ {0} /\ LanMaxGap \in Nat \ {0}
  /\ LanPlayers \subseteq Nat /\ 0 \in LanPlayers
  /\ LanBuffer \in Nat \ {0} /\ LanMaxForeign \in Nat

VARIABLES
  lan,          \* the members of each object
  lan_inbox,    \* datagrams in the buffer of its socket
  lan_known,    \* the player count its callback last reported of each server
  lan_credit,   \* time that it may spend on beacons: those of this advertising
  lan_foreign   \* counter of the bound

lan_vars == <<lan, lan_inbox, lan_known, lan_credit, lan_foreign>>

Unknown == -1

Beacon == [type : {"beacon"}, from : LanServers, current_players : LanPlayers]
\* Fewer than 13 bytes; or more, but another magic, version or length.
Foreign == [type : {"short", "other"}]

LanState ==
  [socket : {"none", "ephemeral", "discovery"}, advertising : BOOLEAN,
   listening : BOOLEAN, accumulator : 0 .. LanInterval - 1, dt : 0 .. LanMaxGap,
   current_players : LanPlayers, callback : BOOLEAN]

LanTypeOK ==
  /\ lan \in [Discos -> LanState]
  /\ lan_inbox \in [Discos -> Seq(Beacon \cup Foreign)]
  /\ \A d \in Discos : Len(lan_inbox[d]) <= LanBuffer
  /\ lan_known \in [Discos -> [LanServers -> LanPlayers \cup {Unknown}]]
  /\ lan_credit \in [Discos -> Int]
  /\ lan_foreign \in 0 .. LanMaxForeign

LanInit ==
  /\ lan = [d \in Discos |->
             [socket |-> "none", advertising |-> FALSE, listening |-> FALSE,
              accumulator |-> 0, dt |-> 0, current_players |-> 0, callback |-> FALSE]]
  /\ lan_inbox = [d \in Discos |-> << >>]
  /\ lan_known = [d \in Discos |-> [e \in LanServers |-> Unknown]]
  /\ lan_credit = [d \in Discos |-> 0]
  /\ lan_foreign = 0

-----------------------------------------------------------------------------

\* close_socket(): both roles end with the socket.
close_socket(x) == [x EXCEPT !.socket = "none", !.advertising = FALSE, !.listening = FALSE]

\* create_socket() closes the socket there is.
create_socket(x, port) == [close_socket(x) EXCEPT !.socket = port]

start_advertising_Keep(d) ==
  /\ d \in LanServers
  /\ lan' = [lan EXCEPT ![d] = [create_socket(@, "ephemeral") EXCEPT
               !.advertising = TRUE, !.current_players = 0]]
  /\ lan_inbox' = [lan_inbox EXCEPT ![d] = << >>]
  /\ lan_credit' = [lan_credit EXCEPT ![d] = lan[d].dt]
  /\ UNCHANGED <<lan_known, lan_foreign>>

\* An advertiser binds a port of its own.  The accumulator starts at 0, last_poll_
\* stays what it is.
start_advertising(d) ==
  /\ d \in LanServers
  /\ lan' = [lan EXCEPT ![d] = [create_socket(@, "ephemeral") EXCEPT
               !.advertising = TRUE, !.current_players = 0, !.accumulator = 0]]
  /\ lan_inbox' = [lan_inbox EXCEPT ![d] = << >>]
  /\ lan_credit' = [lan_credit EXCEPT ![d] = lan[d].dt]
  /\ UNCHANGED <<lan_known, lan_foreign>>

\* An object that has a socket keeps it.
start_listening(d) ==
  /\ ~lan[d].listening
  /\ lan' = [lan EXCEPT ![d] =
               [(IF @.socket = "none" THEN create_socket(@, "discovery") ELSE @)
                  EXCEPT !.listening = TRUE]]
  /\ UNCHANGED <<lan_inbox, lan_known, lan_credit, lan_foreign>>

\* The system refuses the socket.
create_socket_fails(d) ==
  /\ lan' = [lan EXCEPT ![d] = close_socket(@)]
  /\ lan' # lan
  /\ lan_inbox' = [lan_inbox EXCEPT ![d] = << >>]
  /\ UNCHANGED <<lan_known, lan_credit, lan_foreign>>

LanStopped(d, stopped) ==
  /\ lan' = [lan EXCEPT ![d] = stopped]
  /\ lan_inbox' = IF stopped.socket = "none" THEN [lan_inbox EXCEPT ![d] = << >>]
                  ELSE lan_inbox
  /\ UNCHANGED <<lan_known, lan_credit, lan_foreign>>

stop_advertising(d) ==
  /\ lan[d].advertising
  /\ LanStopped(d, IF lan[d].listening THEN [lan[d] EXCEPT !.advertising = FALSE]
                   ELSE close_socket(lan[d]))

stop_listening_Close(d) ==
  /\ lan[d].listening
  /\ LanStopped(d, [lan[d] EXCEPT !.listening = FALSE, !.socket = "none"])

stop_listening(d) ==
  /\ lan[d].listening
  /\ LanStopped(d, IF lan[d].advertising THEN [lan[d] EXCEPT !.listening = FALSE]
                   ELSE close_socket(lan[d]))

\* Before start_advertising, which resets it, nobody sees the count.
set_current_players(d, n) ==
  /\ lan' = [lan EXCEPT ![d].current_players = n]
  /\ UNCHANGED <<lan_inbox, lan_known, lan_credit, lan_foreign>>

on_beacon_received(d) ==
  /\ ~lan[d].callback
  /\ lan' = [lan EXCEPT ![d].callback = TRUE]
  /\ UNCHANGED <<lan_inbox, lan_known, lan_credit, lan_foreign>>

\* What a socket keeps of the datagrams sent to it.
LanBuffered(datagrams) ==
  IF Len(datagrams) > LanBuffer THEN SubSeq(datagrams, 1, LanBuffer) ELSE datagrams

\* Each beacon is sent to the broadcast and to the loopback address: a socket on
\* the discovery port gets both copies, or one, or none, as the network loses them
\* for each listener apart, and as far as its buffer has room.
send_beacon(d, count) ==
  LET beacon == [type |-> "beacon", from |-> d,
                 current_players |-> lan[d].current_players] IN
  \E copies \in [Discos \ {d} -> 0 .. 2 * count] :
    lan_inbox' = [e \in Discos |->
      IF e # d /\ lan[e].socket = "discovery"
      THEN LanBuffered(lan_inbox[e] \o [k \in 1 .. copies[e] |-> beacon])
      ELSE lan_inbox[e]]

LanDrained_Stuck(inbox) ==
  IF \E k \in DOMAIN inbox : inbox[k].type = "short"
  THEN (CHOOSE k \in DOMAIN inbox :
          inbox[k].type = "short" /\ \A j \in 1 .. k - 1 : inbox[j].type # "short") - 1
  ELSE Len(inbox)

\* The loop stops behind a datagram that is too short.
LanDrained(inbox) ==
  IF \E k \in DOMAIN inbox : inbox[k].type = "short"
  THEN CHOOSE k \in DOMAIN inbox :
         inbox[k].type = "short" /\ \A j \in 1 .. k - 1 : inbox[j].type # "short"
  ELSE Len(inbox)

\* The callback hears every beacon of the n datagrams taken; of each server the
\* last one counts.
receive_beacons(d) ==
  LET inbox == lan_inbox[d]
      n == LanDrained(inbox)
      heard(a) == {k \in 1 .. n : inbox[k].type = "beacon" /\ inbox[k].from = a} IN
  /\ lan_known' = [lan_known EXCEPT ![d] = [a \in LanServers |->
       IF heard(a) = {} THEN @[a] ELSE inbox[Max(heard(a))].current_players]]
  /\ lan_inbox' = [lan_inbox EXCEPT ![d] = SubSeq(@, n + 1, Len(@))]

LanHears(x) == x.listening /\ x.socket # "none" /\ x.callback

LanDue_Strict(time) == IF time = 0 THEN 0 ELSE (time - 1) \div LanInterval

\* How often the loop of poll() sends.
LanDue(time) == time \div LanInterval

\* An advertiser has no discovery socket, so one object does not both send and
\* receive in a poll.
lan_poll(d) ==
  LET time == lan[d].accumulator + lan[d].dt
      count == IF lan[d].advertising THEN LanDue(time) ELSE 0 IN
  /\ lan' = [lan EXCEPT ![d].dt = 0,
               ![d].accumulator = IF lan[d].advertising
                                THEN time - LanDue(time) * LanInterval ELSE @]
  /\ lan_credit' = [lan_credit EXCEPT ![d] = @ - count * LanInterval]
  /\ IF count > 0 THEN send_beacon(d, count) /\ UNCHANGED lan_known
     ELSE IF LanHears(lan[d]) THEN receive_beacons(d)
     ELSE UNCHANGED <<lan_inbox, lan_known>>
  /\ UNCHANGED lan_foreign

\* Another program sends to the discovery port.
lan_foreign_datagram(d, m) ==
  /\ lan_foreign < LanMaxForeign
  /\ lan[d].socket = "discovery"
  /\ Len(lan_inbox[d]) < LanBuffer
  /\ lan_foreign' = lan_foreign + 1
  /\ lan_inbox' = [lan_inbox EXCEPT ![d] = Append(@, m)]
  /\ UNCHANGED <<lan, lan_known, lan_credit>>

lan_tick ==
  /\ \E d \in Discos : lan[d].dt < LanMaxGap
  /\ lan' = [d \in Discos |->
               [lan[d] EXCEPT !.dt = IF @ < LanMaxGap THEN @ + 1 ELSE @]]
  /\ lan_credit' = [d \in Discos |->
                      IF lan[d].advertising /\ lan[d].dt < LanMaxGap
                      THEN lan_credit[d] + 1 ELSE lan_credit[d]]
  /\ UNCHANGED <<lan_inbox, lan_known, lan_foreign>>

LanNext ==
  \/ \E d \in Discos :
       \/ start_advertising(d)
       \/ start_listening(d)
       \/ create_socket_fails(d)
       \/ stop_advertising(d)
       \/ stop_listening(d)
       \/ \E n \in LanPlayers : lan[d].advertising /\ set_current_players(d, n)
       \/ on_beacon_received(d)
       \/ lan_poll(d)
       \/ \E m \in Foreign : lan_foreign_datagram(d, m)
  \/ lan_tick

LanSpec == LanInit /\ [][LanNext]_lan_vars

\* A poll that is due to send beacons, not all of which are lost.
LanGetsThrough(d) ==
  /\ lan[d].advertising /\ LanDue(lan[d].accumulator + lan[d].dt) > 0
  /\ lan_poll(d)
  /\ \A e \in Discos \ {d} : lan[e].socket = "discovery" =>
       Len(lan_inbox'[e]) > Len(lan_inbox[e]) \/ Len(lan_inbox[e]) = LanBuffer

\* "Must be called regularly": the applications poll, and time passes.  The network
\* does not lose all beacons of a server.
LanFair ==
  /\ WF_lan_vars(lan_tick) /\ \A d \in Discos : WF_lan_vars(lan_poll(d))
  /\ \A d \in LanServers : SF_lan_vars(LanGetsThrough(d))

LanFairSpec == LanSpec /\ LanFair

-----------------------------------------------------------------------------
(* Properties.                                                             *)

\* The two roles share a socket that either may close: as long as one is active
\* there is a socket, and one that advertises never takes another's beacons.
LanSocket ==
  \A d \in Discos :
    /\ lan[d].advertising \/ lan[d].listening => lan[d].socket # "none"
    /\ lan[d].advertising => lan[d].socket = "ephemeral"

\* However the polls are spaced, a beacon costs an interval of the time since the
\* poll before the server began to advertise: no time is counted twice, also when
\* a server stops and advertises again.
LanRate == \A d \in Discos : lan[d].advertising => lan_credit[d] >= 0

\* Soft state converges: if a server goes on advertising the same count without
\* starting again and a client goes on listening, the client ends up with that
\* count, although beacons are lost, the buffer overflows, old beacons are in it and
\* foreign datagrams end the loop.
LanFound ==
  \A a \in LanServers : \A l \in Discos \ {a} : \A n \in LanPlayers :
    ((/\ <>[](/\ lan[a].advertising /\ lan[a].current_players = n
              /\ LanHears(lan[l]) /\ lan[l].socket = "discovery")
      /\ <>[][~start_advertising(a)]_lan_vars)
      => <>[](lan_known[l][a] = n))

\* "Start listening for beacons on @p discovery_port" (start_listening).
LanListensOnPort == \A d \in Discos : lan[d].listening => lan[d].socket = "discovery"
=============================================================================
