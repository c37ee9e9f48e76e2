--------------------------- MODULE LagCompensator ---------------------------
(***************************************************************************)
(* LagCompensator (src/src/prediction/lag_compensator.cpp) over the        *)
(* SnapshotHistory that the replication manager fills: with every entity   *)
(* on a full tick, with the dirty ones on the others, and not at all while *)
(* no client is connected, although the tick uses up its id. The state of  *)
(* an entity is the tick at which it last changed; ticks of the code are   *)
(* those of the model modulo LagTickMod (2^16).                            *)
(***************************************************************************)
EXTENDS Integers

CONSTANTS
  LagEntities,
  LagTickMod,    \* values of a std::uint16_t
  LagRing,       \* SnapshotHistory::MAX_SNAPSHOTS
  LagRtts,       \* round trips, in units of which LagInterval make a tick
  LagInterval,
  LagMaxTick     \* bound: ticks

ASSUME LagAssumption ==
  /\ LagTickMod \in Nat \ {0} /\ LagRing \in 1 .. LagTickMod - 1
  /\ LagRtts \subseteq Nat /\ LagInterval \in Nat \ {0}
  /\ LagMaxTick \in Nat

VARIABLES
  lag_snapshots,  \* SnapshotHistory: snapshots_
  lag_head,       \* head_
  lag_count,      \* count_
  lag_server,     \* tick of the replication manager
  \* history variables
  lag_past,       \* tick -> entity -> its state then
  lag_idle        \* last tick that stored nothing

lag_vars == <<lag_snapshots, lag_head, lag_count, lag_server, lag_past, lag_idle>>

LagSlots == 0 .. LagRing - 1
LagTicks == 0 .. LagMaxTick
LagWire(t) == t % LagTickMod

LagAbsent == -1  \* state of an entity that a snapshot does not hold

LagTypeOK ==
  /\ lag_snapshots \in [LagSlots -> [id : 0 .. LagTickMod - 1,
                                     entities : [LagEntities -> LagTicks \cup {LagAbsent}]]]
  /\ lag_head \in LagSlots
  /\ lag_count \in 0 .. LagRing
  /\ lag_server \in LagTicks
  /\ lag_past \in [LagTicks -> [LagEntities -> LagTicks]]
  /\ lag_idle \in 0 .. lag_server

LagInit ==
  /\ lag_snapshots = [i \in LagSlots |->
       [id |-> 0, entities |-> [e \in LagEntities |-> LagAbsent]]]
  /\ lag_head = 0 /\ lag_count = 0
  /\ lag_server = 0
  /\ lag_past = [t \in LagTicks |-> [e \in LagEntities |-> 0]]
  /\ lag_idle = 0

-----------------------------------------------------------------------------
\* The game changed some entities, and marked them, before the next tick.
LagGameTick(changed) ==
  /\ lag_server < LagMaxTick
  /\ lag_server' = lag_server + 1
  /\ lag_past' = [lag_past EXCEPT ![lag_server + 1] =
       [e \in LagEntities |-> IF e \in changed THEN lag_server + 1 ELSE lag_past[lag_server][e]]]

\* A full tick (a client without an acknowledgement, the interval, or an interest
\* filter) serialises every entity.
LagStored(changed, full) ==
  [e \in LagEntities |-> IF full \/ e \in changed THEN lag_past'[lag_server + 1][e] ELSE LagAbsent]

lag_store_Full(changed, full) ==
  LET head == (lag_head + 1) % LagRing IN
  /\ LagGameTick(changed)
  /\ lag_snapshots' = [lag_snapshots EXCEPT
       ![head] = [id |-> LagWire(lag_server + 1), entities |-> LagStored(changed, full)]]
  /\ lag_head' = head
  /\ lag_count' = lag_count + 1
  /\ UNCHANGED lag_idle

lag_store(changed, full) ==
  LET head == (lag_head + 1) % LagRing IN
  /\ LagGameTick(changed)
  /\ lag_snapshots' = [lag_snapshots EXCEPT
       ![head] = [id |-> LagWire(lag_server + 1), entities |-> LagStored(changed, full)]]
  /\ lag_head' = head
  /\ lag_count' = IF lag_count < LagRing THEN lag_count + 1 ELSE lag_count
  /\ UNCHANGED lag_idle

\* Without clients: the id is used up and the dirty marks are dropped.
lag_idle_tick(changed) ==
  /\ LagGameTick(changed)
  /\ lag_idle' = lag_server + 1
  /\ UNCHANGED <<lag_snapshots, lag_head, lag_count>>

HistoryDelta(w) == (lag_snapshots[lag_head].id - w) % LagTickMod

HistoryHas_Late(w) == lag_count > 0 /\ HistoryDelta(w) <= lag_count

HistoryHas(w) == lag_count > 0 /\ HistoryDelta(w) < lag_count

\* retrieve, of a tick that the history has.
HistorySlot(w) == lag_snapshots[(lag_head + LagRing - HistoryDelta(w)) % LagRing]

\* get_entity_state and get_all_entities of such a tick.
HistoryState(w, e) == HistorySlot(w).entities[e]

\* One way is half of the round trip, rounded to a tick.
TickOffset(rtt) == (rtt + LagInterval) \div (2 * LagInterval)

get_rewind_tick_Trip(w, rtt) ==
  IF w - rtt \div LagInterval < 0 THEN 0 ELSE w - rtt \div LagInterval

get_rewind_tick(w, rtt) ==
  IF w - TickOffset(rtt) < 0 THEN 0 ELSE w - TickOffset(rtt)

LagNext ==
  \E changed \in SUBSET LagEntities :
    \/ \E full \in BOOLEAN : lag_store(changed, full)
    \/ lag_idle_tick(changed)

LagSpec == LagInit /\ [][LagNext]_lag_vars

-----------------------------------------------------------------------------
(* Properties.                                                             *)

\* "rewinds the relevant entities to the positions they had when the client
\* pulled the trigger": while the ring holds the tick one way before the client's, the
\* lookup finds that tick, whatever ids have wrapped; each entity in it has the state
\* it had then, and one that had just changed is in it. Only for a tick that the
\* subtraction does not take below 0 and after the last tick without clients.
LagRewinds ==
  \A t \in 1 .. lag_server, rtt \in LagRtts :
    LET w == get_rewind_tick(LagWire(t), rtt)
        seen == t - TickOffset(rtt) IN
    (TickOffset(rtt) <= LagWire(t) /\ seen > lag_idle /\ seen > lag_server - LagTickMod) =>
      /\ seen > lag_server - LagRing => HistoryHas(w)
      /\ HistoryHas(w) =>
           \A e \in LagEntities :
             /\ HistoryState(w, e) \in {lag_past[seen][e], LagAbsent}
             /\ lag_past[seen][e] = seen => HistoryState(w, e) = seen

\* The snapshot that LagRewinds speaks of is found for every tick of a client.
LagRewindsWrapped ==
  \A t \in 1 .. lag_server, rtt \in LagRtts :
    LET w == get_rewind_tick(LagWire(t), rtt)
        seen == t - TickOffset(rtt) IN
    seen > lag_idle /\ seen > lag_server - LagRing =>
      HistoryHas(w) /\ HistorySlot(w).id = LagWire(seen)

\* "If the history doesn't go back far enough, returns the oldest available tick."
LagOldest ==
  \A t \in 1 .. lag_server, rtt \in LagRtts : HistoryHas(get_rewind_tick(LagWire(t), rtt))

\* "snapshot IDs are contiguous (increment by 1 per tick)."
LagContiguous ==
  \A w \in 0 .. LagTickMod - 1 : HistoryHas(w) => HistorySlot(w).id = w
=============================================================================
