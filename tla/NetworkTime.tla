---------------------------- MODULE NetworkTime -----------------------------
(***************************************************************************)
(* NetworkTime (src/src/network_time.cpp) and the exchange of NetworkManager*)
(* that feeds it: a client asks for the server's time every two seconds    *)
(* over the ordered channel and smooths the samples it gets.  Messages     *)
(* wait on their way for any time, retransmissions included.               *)
(*                                                                         *)
(* The server's clock is ts_offset ahead of the client's and runs at the   *)
(* same rate.  Smoothed values are integers, multiplied by Scale and       *)
(* rounded down where the code keeps a double: exact for three samples.    *)
(***************************************************************************)
EXTENDS Integers, Sequences, FiniteSetsExt

CONSTANTS
  TsOffsets,     \* offsets of the server's clock
  TsInterval,    \* a request is sent when more time than this has passed (2.0)
  TsMaxTime,     \* bound: time of the client
  TsMaxSamples   \* bound: samples since the last reset()

ASSUME TsAssumption ==
  /\ TsOffsets \subseteq Int /\ TsInterval \in Nat
  /\ TsMaxTime \in Nat \ {0} /\ TsMaxSamples \in Nat

Scale == 200

VARIABLES
  ts_now,        \* now_seconds() of the client, above 0
  ts_offset,     \* how far the server's clock is ahead
  ts_connected,  \* client_connected
  ts_last,       \* last_time_sync, 0 before the first poll
  ts_requests,   \* TimeSyncRequest messages on their way: t0
  ts_responses,  \* TimeSyncResponse messages on their way
  ts_time,       \* smoothed_offset_, smoothed_rtt_ and sample_count_
  ts_rtts        \* the round trips measured since the last reset()

ts_vars == <<ts_now, ts_offset, ts_connected, ts_last, ts_requests, ts_responses,
             ts_time, ts_rtts>>

NetworkTimeTypeOK ==
  /\ ts_now \in 1 .. TsMaxTime
  /\ ts_offset \in TsOffsets
  /\ ts_connected \in BOOLEAN
  /\ ts_last \in 0 .. TsMaxTime
  /\ ts_requests \in Seq(1 .. TsMaxTime)
  /\ ts_responses \in Seq([t0 : 1 .. TsMaxTime, t1 : Int, t2 : Int])
  /\ ts_time \in [offset : Int, rtt : Nat, sample_count : 0 .. TsMaxSamples]
  /\ ts_rtts \subseteq Nat

Unsynced == [offset |-> 0, rtt |-> 0, sample_count |-> 0]

NetworkTimeInit ==
  /\ ts_now = 1
  /\ ts_offset \in TsOffsets
  /\ ts_connected = FALSE
  /\ ts_last = 0
  /\ ts_requests = << >> /\ ts_responses = << >>
  /\ ts_time = Unsynced
  /\ ts_rtts = {}

-----------------------------------------------------------------------------

ts_connect ==
  /\ ~ts_connected
  /\ ts_connected' = TRUE
  /\ UNCHANGED <<ts_now, ts_offset, ts_last, ts_requests, ts_responses, ts_time, ts_rtts>>

\* stop() resets the time, not last_time_sync; what is on its way is lost.
ts_stop ==
  /\ ts_connected
  /\ ts_connected' = FALSE
  /\ ts_requests' = << >> /\ ts_responses' = << >>
  /\ ts_time' = Unsynced
  /\ ts_rtts' = {}
  /\ UNCHANGED <<ts_now, ts_offset, ts_last>>

poll_client_time_sync ==
  /\ ts_connected
  /\ \/ /\ ts_last = 0
        /\ ts_last' = ts_now
        /\ UNCHANGED ts_requests
     \/ /\ ts_last # 0
        /\ ts_now - ts_last > TsInterval
        /\ ts_last' = ts_now
        /\ ts_requests' = Append(ts_requests, ts_now)
  /\ UNCHANGED <<ts_now, ts_offset, ts_connected, ts_responses, ts_time, ts_rtts>>

\* The server stamps the request when it processes it and answers at once.
TimeSyncRequest ==
  LET t == ts_now + ts_offset IN
  /\ ts_requests # << >>
  /\ ts_requests' = Tail(ts_requests)
  /\ ts_responses' = Append(ts_responses, [t0 |-> Head(ts_requests), t1 |-> t, t2 |-> t])
  /\ UNCHANGED <<ts_now, ts_offset, ts_connected, ts_last, ts_time, ts_rtts>>

raw_rtt_Span(t0, t1, t2, t3) == (t3 - t1) - (t2 - t0)

raw_rtt(t0, t1, t2, t3) == (t3 - t0) - (t2 - t1)

\* Twice the offset of a sample.
raw_offset2_Sign(t0, t1, t2, t3) == (t1 - t0) + (t3 - t2)

raw_offset2(t0, t1, t2, t3) == (t1 - t0) + (t2 - t3)

\* The first sample is taken as it is, the others with weights 0.1 and 0.2.
record_sample(t0, t1, t2, t3) ==
  LET offset == raw_offset2(t0, t1, t2, t3) * (Scale \div 2)
      rtt == raw_rtt(t0, t1, t2, t3) * Scale
      first == ts_time.sample_count = 0 IN
  [offset |-> IF first THEN offset ELSE ts_time.offset + (offset - ts_time.offset) \div 10,
   rtt |-> IF first THEN rtt ELSE ts_time.rtt + (rtt - ts_time.rtt) \div 5,
   sample_count |-> ts_time.sample_count + 1]

TimeSyncResponse ==
  LET r == Head(ts_responses) IN
  /\ ts_responses # << >>
  /\ ts_time.sample_count < TsMaxSamples
  /\ ts_responses' = Tail(ts_responses)
  /\ ts_time' = record_sample(r.t0, r.t1, r.t2, ts_now)
  /\ ts_rtts' = ts_rtts \cup {ts_now - r.t0}
  /\ UNCHANGED <<ts_now, ts_offset, ts_connected, ts_last, ts_requests>>

ts_tick ==
  /\ ts_now < TsMaxTime
  /\ ts_now' = ts_now + 1
  /\ UNCHANGED <<ts_offset, ts_connected, ts_last, ts_requests, ts_responses, ts_time,
                 ts_rtts>>

NetworkTimeNext ==
  \/ ts_connect
  \/ ts_stop
  \/ poll_client_time_sync
  \/ TimeSyncRequest
  \/ TimeSyncResponse
  \/ ts_tick

NetworkTimeSpec == NetworkTimeInit /\ [][NetworkTimeNext]_ts_vars

-----------------------------------------------------------------------------
(* Properties.                                                             *)

\* However long the two ways take and however different they are, the smoothed
\* offset is wrong by at most half of the longest round trip that was sampled,
\* and the smoothed round trip lies between the shortest and the longest.
TsErrorBounded ==
  ts_time.sample_count > 0 =>
    /\ 2 * (ts_time.offset - ts_offset * Scale) <= Max(ts_rtts) * Scale
    /\ 2 * (ts_offset * Scale - ts_time.offset) <= Max(ts_rtts) * Scale
    /\ Min(ts_rtts) * Scale <= ts_time.rtt
    /\ ts_time.rtt <= Max(ts_rtts) * Scale
=============================================================================
