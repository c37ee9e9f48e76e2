---------------------------- MODULE NetworkClock ----------------------------
(***************************************************************************)
(* NetworkClock (src/src/network_clock.cpp) of a client that follows a     *)
(* server: it advances by the length of every frame and aligns itself with *)
(* the tick of every snapshot that arrives.                                *)
(*                                                                         *)
(* Ticks are relative: clk_ahead is tick_ less the tick of the server, so  *)
(* that a clock can run for ever.  Time is counted in units of which       *)
(* ClkInterval make a tick; the 1e-9 of advance() absorbs rounding that    *)
(* does not exist here.  The server sends a snapshot with every tick and   *)
(* it arrives clk_latency later or not at all; a NetworkTime that is       *)
(* attached has settled (see NetworkTime): its rtt is 2 * clk_latency.     *)
(***************************************************************************)
EXTENDS Integers

CONSTANTS
  ClkInterval,   \* tick_interval_, even
  ClkLatencies,  \* times a snapshot takes
  ClkFrames,     \* lengths of a frame
  ClkFar         \* bound: distance of the clocks when the client joins or resets

ASSUME ClkAssumption ==
  /\ ClkInterval \in Nat \ {0} /\ ClkInterval % 2 = 0
  /\ ClkLatencies \subseteq Nat
  /\ ClkFrames \subseteq Nat \ {0}
  /\ ClkFar \in Nat

VARIABLES
  clk_latency, \* time a snapshot takes
  clk_synced,  \* a NetworkTime is attached: net_time_
  clk_phase,   \* time since the last tick of the server
  clk_ahead,   \* tick_ less the server's tick
  clk_acc,     \* accumulator_
  clk_new,     \* the newest snapshot that can have arrived was not looked at yet
  clk_ticked   \* the last advance() moved tick_

clk_vars == <<clk_latency, clk_synced, clk_phase, clk_ahead, clk_acc, clk_new, clk_ticked>>

ClkTypeOK ==
  /\ clk_latency \in ClkLatencies /\ clk_synced \in BOOLEAN
  /\ clk_phase \in 0 .. ClkInterval - 1
  /\ clk_ahead \in -(ClkFar + 4) .. ClkFar + 4
  /\ clk_acc \in -ClkInterval .. ClkInterval - 1
  /\ clk_new \in BOOLEAN
  /\ clk_ticked \in BOOLEAN

NetworkClockInit ==
  /\ clk_latency \in ClkLatencies /\ clk_synced = FALSE
  /\ clk_phase \in 0 .. ClkInterval - 1
  /\ clk_ahead \in -ClkFar .. ClkFar
  /\ clk_acc = 0
  /\ clk_new = FALSE
  /\ clk_ticked = FALSE

-----------------------------------------------------------------------------

\* How many ticks ago the newest snapshot that is there at this phase was sent:
\* the least n with phase + n * ClkInterval >= clk_latency.
ClkAge(phase) ==
  IF phase >= clk_latency THEN 0
  ELSE (clk_latency - phase + ClkInterval - 1) \div ClkInterval

\* advance(dt) of a client's frame, while the same time passes on the server.
\* A snapshot that arrives during the frame is the newest one after it.
advance(dt) ==
  LET server == (clk_phase + dt) \div ClkInterval
      phase == (clk_phase + dt) % ClkInterval
      ticks == IF clk_acc + dt >= 0 THEN (clk_acc + dt) \div ClkInterval ELSE 0 IN
  /\ clk_phase' = phase
  /\ clk_acc' = clk_acc + dt - ticks * ClkInterval
  /\ clk_ahead' = clk_ahead + ticks - server
  /\ clk_new' = (clk_new \/ ClkAge(phase) - server # ClkAge(clk_phase))
  /\ clk_ticked' = (ticks > 0)
  /\ UNCHANGED <<clk_latency, clk_synced>>

\* The tick the server is expected to be at, relative to its real one.
ClkExpected ==
  (2 * clk_latency + ClkInterval) \div (2 * ClkInterval) - ClkAge(clk_phase)

\* Without a NetworkTime the clock takes the server's tick.
align_without_time ==
  /\ ~clk_synced
  /\ clk_ahead' = -ClkAge(clk_phase)
  /\ clk_acc' = 0

ClkDrift == ClkExpected - clk_ahead

align_snap_Behind ==
  /\ clk_synced
  /\ ClkDrift > 2
  /\ clk_ahead' = ClkExpected
  /\ clk_acc' = 0

align_snap ==
  /\ clk_synced
  /\ ClkDrift \notin -2 .. 2
  /\ clk_ahead' = ClkExpected
  /\ clk_acc' = 0

align_faster_Lost ==
  /\ clk_synced
  /\ ClkDrift \in 1 .. 2
  /\ clk_acc' = clk_acc + ClkInterval \div 2
  /\ clk_ahead' = clk_ahead

align_faster ==
  LET acc == clk_acc + ClkInterval \div 2 IN
  /\ clk_synced
  /\ ClkDrift \in 1 .. 2
  /\ \/ acc >= ClkInterval /\ clk_acc' = acc - ClkInterval /\ clk_ahead' = clk_ahead + 1
     \/ acc < ClkInterval /\ clk_acc' = acc /\ clk_ahead' = clk_ahead

align_slower ==
  /\ clk_synced
  /\ ClkDrift \in -2 .. -1
  /\ clk_acc' = clk_acc - ClkInterval \div 2
  /\ clk_ahead' = clk_ahead

align_done ==
  /\ clk_synced
  /\ ClkDrift = 0
  /\ UNCHANGED <<clk_acc, clk_ahead>>

\* The client handles the snapshot that came last.
align_to_server_tick ==
  /\ clk_new
  /\ align_without_time \/ align_snap \/ align_faster \/ align_slower \/ align_done
  /\ clk_new' = FALSE
  /\ UNCHANGED <<clk_latency, clk_synced, clk_phase, clk_ticked>>

clk_lose ==
  /\ clk_new
  /\ clk_new' = FALSE
  /\ UNCHANGED <<clk_latency, clk_synced, clk_phase, clk_ahead, clk_acc, clk_ticked>>

\* reset(): tick 0, while the server is anywhere.
clk_reset ==
  /\ clk_ahead' \in -ClkFar .. 0
  /\ clk_acc' = 0
  /\ clk_ticked' = FALSE
  /\ UNCHANGED <<clk_latency, clk_synced, clk_phase, clk_new>>

set_network_time ==
  /\ clk_synced' = ~clk_synced
  /\ UNCHANGED <<clk_latency, clk_phase, clk_ahead, clk_acc, clk_new, clk_ticked>>

ClkFrame == \E dt \in ClkFrames : advance(dt)

NetworkClockNext == ClkFrame \/ align_to_server_tick \/ clk_lose \/ clk_reset
                    \/ set_network_time

\* Frames follow one another, snapshots are not all lost.
NetworkClockFairSpec ==
  /\ NetworkClockInit /\ [][NetworkClockNext]_clk_vars
  /\ WF_clk_vars(ClkFrame)
  /\ SF_clk_vars(align_to_server_tick)

-----------------------------------------------------------------------------
(* Properties.                                                             *)

\* Soft alignment works: with a NetworkTime the clock is within two ticks of the
\* server's from some time on, although snapshots are lost, frames have any length
\* and half a tick is given back at a time; unless it is reset over and over.
ClkSettles ==
  <>[]clk_synced => <>[](clk_ahead \in -2 .. 2) \/ []<><<clk_reset>>_clk_vars

\* "Fraction from 0.0 (start of current tick) to 1.0 (start of next tick)".
ClkFraction == clk_acc >= 0 /\ clk_acc <= ClkInterval

\* "Current local simulation tick (monotonically increasing)": a snapshot never
\* moves it back.
ClkMonotonic == [][align_to_server_tick => clk_ahead' >= clk_ahead]_clk_vars

\* "if (clock.time_until_next_tick() <= 0.0f) { /* run simulation tick */ }": after
\* an advance() that moved to another tick.
ClkTickDue == clk_ticked => ClkInterval - clk_acc <= 0
=============================================================================
