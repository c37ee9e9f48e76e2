----------------------------- MODULE MCServices -----------------------------
(***************************************************************************)
(* The services around a session, checked in one run: rate limits, time    *)
(* synchronisation, connection tokens, the clock, the buffers of the       *)
(* prediction, interpolation, interest management and the bit stream.      *)
(* They share no state: focus says which one a behaviour is about, and the *)
(* others stay as they are.                                                *)
(***************************************************************************)
EXTENDS MCRateLimits, NetworkTime, ConnectionToken, NetworkClock, InputBuffer, LagCompensator,
        SnapshotInterpolation, MCSpatialInterest, MCBitStream

VARIABLE focus

vars == <<focus, rl_vars, ts_vars, tok_vars, clk_vars, ib_vars, lag_vars, sb_vars, sp_vars, bs_vars>>

-----------------------------------------------------------------------------
Services == {"rate", "time", "token", "clock", "input", "lag", "snapshot", "spatial", "stream"}

(* A component that a behaviour is not about starts in one initial state. *)
Init ==
  /\ focus \in Services
  /\ RateLimitsInit
  /\ NetworkTimeInit
  /\ focus # "time" => ts_offset = CHOOSE o \in TsOffsets : TRUE
  /\ ConnectionTokenInit
  /\ focus # "token" => tok_secret = TokNoSecret
  /\ NetworkClockInit
  /\ focus # "clock" => /\ clk_latency = CHOOSE l \in ClkLatencies : TRUE
                        /\ clk_phase = 0 /\ clk_ahead = 0
  /\ InputBufferInit
  /\ LagInit
  /\ SnapshotInterpolationInit
  /\ focus # "snapshot" => sb_mode = "prediction"
  /\ SpatialInterestInit
  /\ focus # "spatial" => /\ sp_cell_size = CHOOSE s \in SpCellSizes : TRUE
                          /\ sp_default = CHOOSE r \in SpDefaults : TRUE
  /\ BitStreamInit

Rate(A) ==
  /\ focus = "rate" /\ A
  /\ UNCHANGED <<focus, ts_vars, tok_vars, clk_vars, ib_vars, lag_vars, sb_vars, sp_vars, bs_vars>>
Time(A) ==
  /\ focus = "time" /\ A
  /\ UNCHANGED <<focus, rl_vars, tok_vars, clk_vars, ib_vars, lag_vars, sb_vars, sp_vars, bs_vars>>
Tokens(A) ==
  /\ focus = "token" /\ A
  /\ UNCHANGED <<focus, rl_vars, ts_vars, clk_vars, ib_vars, lag_vars, sb_vars, sp_vars, bs_vars>>
Clock(A) ==
  /\ focus = "clock" /\ A
  /\ UNCHANGED <<focus, rl_vars, ts_vars, tok_vars, ib_vars, lag_vars, sb_vars, sp_vars, bs_vars>>
Input(A) ==
  /\ focus = "input" /\ A
  /\ UNCHANGED <<focus, rl_vars, ts_vars, tok_vars, clk_vars, lag_vars, sb_vars, sp_vars, bs_vars>>
Lag(A) ==
  /\ focus = "lag" /\ A
  /\ UNCHANGED <<focus, rl_vars, ts_vars, tok_vars, clk_vars, ib_vars, sb_vars, sp_vars, bs_vars>>
Snapshot(A) ==
  /\ focus = "snapshot" /\ A
  /\ UNCHANGED <<focus, rl_vars, ts_vars, tok_vars, clk_vars, ib_vars, lag_vars, sp_vars, bs_vars>>
Spatial(A) ==
  /\ focus = "spatial" /\ A
  /\ UNCHANGED <<focus, rl_vars, ts_vars, tok_vars, clk_vars, ib_vars, lag_vars, sb_vars, bs_vars>>
Stream(A) ==
  /\ focus = "stream" /\ A
  /\ UNCHANGED <<focus, rl_vars, ts_vars, tok_vars, clk_vars, ib_vars, lag_vars, sb_vars, sp_vars>>

Next ==
  \/ Rate(RateLimitsNext)
  \/ Time(NetworkTimeNext)
  \/ Tokens(ConnectionTokenNext)
  \/ Clock(NetworkClockNext)
  \/ Input(InputBufferNext)
  \/ Lag(LagNext)
  \/ Snapshot(SnapshotInterpolationNext)
  \/ Spatial(SpatialInterestNext)
  \/ Stream(BitStreamNext)

\* The fairness of NetworkClockFairSpec.
Fair == WF_vars(Clock(ClkFrame)) /\ SF_vars(Clock(align_to_server_tick))

Spec == Init /\ [][Next]_vars /\ Fair

-----------------------------------------------------------------------------
(* Properties of several services.                                         *)

\* The rings that are looked up by wrapping ticks, ids or times: the input, the old
\* state or the pair of snapshots found is the one that was asked for, and it is
\* found as long as the ring holds it.
RingsInv == InputBufferInv /\ LagTypeOK /\ LagRewinds /\ SbTypeOK /\ SbBrackets

\* What a client knows of the server's time and tick: the clocks keep their ranges,
\* and the smoothed offset is no worse than the worst sample allows.
ClocksInv == NetworkTimeTypeOK /\ TsErrorBounded /\ ClkTypeOK
=============================================================================
