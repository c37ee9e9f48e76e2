------------------------ MODULE SnapshotInterpolation ------------------------
(***************************************************************************)
(* What a client does with the snapshots that arrive                       *)
(* (src/src/network_replication.cpp): in interpolation mode they go to the *)
(* ring of ClientSnapshotBuffer and client_interpolate blends two of them, *)
(* otherwise they are applied at once or handed to the game.               *)
(*                                                                         *)
(* The state of an entity is a position that grows on the server, so that  *)
(* what is shown should only grow.  A snapshot holds at least what changed *)
(* since the one before it that arrived (module Replication says why); it  *)
(* may come late, after newer ones.  Positions shown are multiplied by     *)
(* SbUnit, a multiple of every distance in time, so that the blend factor  *)
(* is exact.  The bridge interpolates linearly and extrapolates as its     *)
(* default does; in prediction mode the game takes what the callback says. *)
(***************************************************************************)
EXTENDS Integers, Sequences

CONSTANTS
  SbEntities,    \* the entities
  SbRing,        \* MAX_SNAPSHOTS
  SbDelay,       \* interpolation_delay_
  SbMaxSnaps,    \* bound: snapshots accepted
  SbMaxTime      \* bound: client_time_, at most 4

ASSUME SbAssumption ==
  /\ SbRing \in Nat \ {0, 1} /\ SbDelay \in Nat
  /\ SbMaxSnaps \in Nat /\ SbMaxTime \in 0 .. 4

SbUnit == 12

VARIABLES
  sb_mode,       \* prediction_mode_, interpolation_enabled_ or neither of them
  sb_server,     \* positions on the server with its last snapshot
  sb_late,       \* a snapshot that is late, at most one
  sb_reordered,  \* history: a snapshot arrived after a newer one
  sb_time,       \* client_time_
  sb_snapshots,  \* snapshots_ of the ring
  sb_head,       \* head_
  sb_count,      \* count_
  sb_stored,     \* history: all snapshots stored
  sb_render,     \* render_time of the last frame
  sb_shown,      \* what the bridge or the game was told last, times SbUnit
  sb_known,      \* entities the bridge was told of by a frame
  sb_snapped     \* those of them that the last frame took to be newly visible

sb_vars == <<sb_mode, sb_server, sb_late, sb_reordered, sb_time, sb_snapshots, sb_head, sb_count, sb_stored,
             sb_render, sb_shown, sb_known, sb_snapped>>

SbSlots == 0 .. SbRing - 1
SbPositions == [SbEntities -> 0 .. SbMaxSnaps]

\* A snapshot: the entities it holds and their positions; receive_time when stored.
SbSent == [has : SUBSET SbEntities, at : SbPositions]
SbSnapshot == [time : 0 .. SbMaxTime, has : SUBSET SbEntities, at : SbPositions]

SbTypeOK ==
  /\ sb_mode \in {"prediction", "interpolation", "immediate"}
  /\ sb_server \in SbPositions
  /\ sb_late \subseteq SbSent
  /\ sb_reordered \in BOOLEAN
  /\ sb_time \in 0 .. SbMaxTime
  /\ sb_snapshots \in [SbSlots -> SbSnapshot]
  /\ sb_head \in SbSlots
  /\ sb_count \in 0 .. SbRing
  /\ sb_stored \in Seq(SbSnapshot)
  /\ sb_render \in 0 .. SbMaxTime
  /\ sb_shown \in [SbEntities -> 0 .. SbMaxSnaps * SbUnit]
  /\ sb_known \subseteq SbEntities /\ sb_snapped \subseteq sb_known

SnapshotInterpolationInit ==
  /\ sb_mode \in {"prediction", "interpolation", "immediate"}
  /\ sb_server = [e \in SbEntities |-> 0]
  /\ sb_late = {} /\ sb_reordered = FALSE
  /\ sb_time = 0
  /\ sb_snapshots = [i \in SbSlots |-> [time |-> 0, has |-> {}, at |-> sb_server]]
  /\ sb_head = 0 /\ sb_count = 0
  /\ sb_stored = << >>
  /\ sb_render = 0
  /\ sb_shown = [e \in SbEntities |-> 0]
  /\ sb_known = {} /\ sb_snapped = {}

-----------------------------------------------------------------------------

\* The positions after moved have moved; the snapshot holds them and others.
SbMoved(moved) == [e \in SbEntities |-> sb_server[e] + IF e \in moved THEN 1 ELSE 0]

\* ClientSnapshotBuffer::store
sb_store_Full(snap) ==
  LET head == (sb_head + 1) % SbRing IN
  /\ sb_head' = head
  /\ sb_snapshots' = [sb_snapshots EXCEPT ![head] = snap]
  /\ sb_count' = sb_count + 1
  /\ sb_stored' = Append(sb_stored, snap)

sb_store(snap) ==
  LET head == (sb_head + 1) % SbRing IN
  /\ sb_head' = head
  /\ sb_snapshots' = [sb_snapshots EXCEPT ![head] = snap]
  /\ sb_count' = IF sb_count < SbRing THEN sb_count + 1 ELSE sb_count
  /\ sb_stored' = Append(sb_stored, snap)

\* on_receive_delta once the entities are parsed: nothing asks whether the
\* snapshot is older than another one.
sb_receive(has, at) ==
  \/ /\ sb_mode = "interpolation"
     /\ sb_store([time |-> sb_time, has |-> has, at |-> at])
     /\ UNCHANGED sb_shown
  \/ /\ sb_mode \in {"prediction", "immediate"}
     /\ sb_shown' = [e \in SbEntities |-> IF e \in has THEN at[e] * SbUnit ELSE sb_shown[e]]
     /\ UNCHANGED <<sb_snapshots, sb_head, sb_count, sb_stored>>

\* The server's next snapshot: it moves some entities first.
SbSends(moved, has) ==
  /\ Len(sb_stored) < SbMaxSnaps
  /\ (moved \cup UNION {s.has : s \in sb_late}) \subseteq has
  /\ SbMoved(moved) \in SbPositions
  /\ sb_server' = SbMoved(moved)

SbArrives(moved, has) ==
  /\ SbSends(moved, has)
  /\ sb_receive(has, SbMoved(moved))
  /\ UNCHANGED <<sb_mode, sb_late, sb_reordered, sb_time, sb_render, sb_known, sb_snapped>>

SbIsLate(moved, has) ==
  /\ SbSends(moved, has)
  /\ sb_late = {} /\ ~sb_reordered
  /\ sb_late' = {[has |-> has, at |-> SbMoved(moved)]}
  /\ UNCHANGED <<sb_mode, sb_reordered, sb_time, sb_snapshots, sb_head, sb_count,
                 sb_stored, sb_render, sb_shown, sb_known, sb_snapped>>

SbArrivesLate ==
  \E s \in sb_late :
    /\ Len(sb_stored) < SbMaxSnaps
    /\ sb_receive(s.has, s.at)
    /\ sb_late' = {}
    /\ sb_reordered' = TRUE
    /\ UNCHANGED <<sb_mode, sb_server, sb_time, sb_render, sb_known, sb_snapped>>

\* client_tick; its acknowledgements are in module Replication.
sb_client_tick ==
  /\ sb_time < SbMaxTime
  /\ sb_time' = sb_time + 1
  /\ UNCHANGED <<sb_mode, sb_server, sb_late, sb_reordered, sb_snapshots, sb_head,
                 sb_count, sb_stored, sb_render, sb_shown, sb_known, sb_snapped>>

\* The i-th oldest snapshot of the ring, from 0.
Nth_Old(i) == sb_snapshots[(sb_head + SbRing - sb_count + i) % SbRing]

Nth(i) == sb_snapshots[(sb_head + SbRing - (sb_count - 1) + i) % SbRing]

Pair(i, num, den) == [older |-> Nth(i), newer |-> Nth(i + 1), num |-> num, den |-> den]

\* find_bracketing: the pair and the blend factor num / den, or nothing.
find_bracketing(target) ==
  LET last == sb_count - 1
      within == {i \in 0 .. last - 1 : target >= Nth(i).time /\ target <= Nth(i + 1).time}
      i == CHOOSE k \in within : \A l \in within : k <= l
      dt == Nth(i + 1).time - Nth(i).time IN
  IF sb_count < 2 THEN {}
  ELSE IF target <= Nth(0).time THEN {Pair(0, 0, 1)}
  ELSE IF target >= Nth(last).time THEN {Pair(last - 1, 1, 1)}
  ELSE IF within = {} THEN {}
  ELSE {IF dt > 0 THEN Pair(i, target - Nth(i).time, dt) ELSE Pair(i, 0, 1)}

\* interpolate_entity of the bridge with the two states and t.
Blend_Swapped(p, e) ==
  p.newer.at[e] * SbUnit + ((p.older.at[e] - p.newer.at[e]) * p.num * SbUnit) \div p.den

Blend(p, e) ==
  p.older.at[e] * SbUnit + ((p.newer.at[e] - p.older.at[e]) * p.num * SbUnit) \div p.den

\* client_interpolate of a frame: every entity of the newer snapshot.
client_interpolate(render) ==
  LET target == render - SbDelay IN
  /\ sb_mode = "interpolation"
  /\ render > sb_render
  /\ sb_render' = render
  /\ \/ /\ find_bracketing(target) = {}
        /\ UNCHANGED <<sb_shown, sb_known, sb_snapped>>
     \/ \E p \in find_bracketing(target) :
          LET extrapolating == target > p.newer.time
              snapped == IF extrapolating THEN {} ELSE p.newer.has \ p.older.has IN
          /\ sb_shown' = [e \in SbEntities |->
                            IF e \notin p.newer.has THEN sb_shown[e]
                            ELSE IF extrapolating \/ e \in snapped
                                 THEN p.newer.at[e] * SbUnit
                                 ELSE Blend(p, e)]
          /\ sb_known' = sb_known \cup p.newer.has
          /\ sb_snapped' = snapped \cap sb_known
  /\ UNCHANGED <<sb_mode, sb_server, sb_late, sb_reordered, sb_time, sb_snapshots,
                 sb_head, sb_count, sb_stored>>

SnapshotInterpolationNext ==
  \/ \E moved, has \in SUBSET SbEntities : SbArrives(moved, has) \/ SbIsLate(moved, has)
  \/ SbArrivesLate
  \/ sb_client_tick
  \/ \E render \in 1 .. sb_time : client_interpolate(render)

SnapshotInterpolationSpec == SnapshotInterpolationInit /\ [][SnapshotInterpolationNext]_sb_vars

-----------------------------------------------------------------------------
(* Properties.                                                             *)

\* "Should not reach here with count_ >= 2": however the ring has wrapped, two
\* neighbours among the last SbRing snapshots are found for every time, with the
\* time between them if the ring covers it and the nearest pair otherwise.
SbBrackets ==
  LET n == Len(sb_stored)
      oldest == IF n < SbRing THEN 1 ELSE n - SbRing + 1 IN
  (sb_mode = "interpolation" /\ n >= 2) =>
    \A target \in -1 .. SbMaxTime :
      \E p \in find_bracketing(target), i \in oldest .. n - 1 :
        /\ p.older = sb_stored[i] /\ p.newer = sb_stored[i + 1]
        /\ 0 <= p.num /\ p.num <= p.den
        /\ \/ sb_stored[i].time <= target /\ target <= sb_stored[i + 1].time
           \/ i = oldest /\ target < sb_stored[i].time /\ p.num = 0
           \/ i = n - 1 /\ target > sb_stored[n].time /\ p.num = p.den

\* What is shown of an entity does not move back in this step, and is not ahead of
\* the server.
SbOnward ==
  \A e \in SbEntities :
    sb_shown'[e] >= sb_shown[e] /\ sb_shown'[e] <= sb_server'[e] * SbUnit

\* As long as snapshots arrive in order, what is shown never moves back from frame
\* to frame and is never ahead of the server, although the snapshots hold different
\* entities, several may come in one frame and the ring drops old ones.
SbForward == [][~sb_reordered' => SbOnward]_sb_vars

\* "200ms simulated jitter; remote entities move smoothly": whatever the order.
SbSmooth == [][SbOnward]_sb_vars

\* "Entity only exists in newer snapshot (newly visible) - snap to latest": an entity
\* that is snapped was not shown before.
SbSnapOnlyNew == sb_snapped = {}
=============================================================================
