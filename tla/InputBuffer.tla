----------------------------- MODULE InputBuffer ----------------------------
(***************************************************************************)
(* InputBuffer (src/src/prediction/input_buffer.cpp): the inputs a server  *)
(* has of a client, one for each tick, in a ring.                          *)
(*                                                                         *)
(* A tick of the model is a natural number; the code sees it modulo        *)
(* IbTickMod (2^16).  The client sends an input with every tick over a     *)
(* channel that loses, repeats and reorders; the server simulates behind   *)
(* it and prunes the inputs it has applied.                                *)
(***************************************************************************)
EXTENDS Integers

CONSTANTS
  IbTickMod,    \* values of a std::uint16_t
  IbRing,       \* MAX_TICKS
  IbDelay,      \* an input arrives less than this many ticks after it was sent
  IbLead,       \* ticks the client may be ahead of the server's simulation
  IbFirst,      \* the first tick of the client, as after a long session
  IbMaxTick     \* bound: ticks

ASSUME IbAssumption ==
  /\ IbTickMod \in Nat \ {0} /\ IbTickMod % 2 = 0
  /\ IbRing \in Nat \ {0} /\ IbTickMod % IbRing = 0
  /\ IbDelay \in Nat /\ IbLead \in Nat
  /\ IbMaxTick \in Nat /\ IbFirst \in 0 .. IbMaxTick

VARIABLES
  ib_tick,      \* newest tick of the client
  ib_flight,    \* ticks of the inputs on their way
  ib_pruned,    \* the server has applied the inputs up to this tick
  ib_buffer,    \* the ring of the client in buffers_, or IbNoBuffer
  ib_stored     \* ticks stored since the client connected, not pruned

ib_vars == <<ib_tick, ib_flight, ib_pruned, ib_buffer, ib_stored>>

IbSlots == 0 .. IbRing - 1
IbWire(t) == t % IbTickMod
IbNothing == -1

\* An entry is its tick and whose input the data is.
IbEntry == [tick : 0 .. IbTickMod - 1, input : IbFirst .. IbMaxTick \cup {IbNothing}]
IbEmptyEntry == [tick |-> 0, input |-> IbNothing]
IbNoBuffer == << >>

IbTypeOK ==
  /\ ib_tick \in IbFirst .. IbMaxTick
  /\ ib_flight \subseteq IbFirst .. IbMaxTick
  /\ ib_pruned \in IbFirst .. IbMaxTick
  /\ ib_buffer = IbNoBuffer \/ ib_buffer \in [IbSlots -> IbEntry]
  /\ ib_stored \subseteq IbFirst .. IbMaxTick

InputBufferInit ==
  /\ ib_tick = IbFirst
  /\ ib_flight = {}
  /\ ib_pruned = IbFirst
  /\ ib_buffer = IbNoBuffer
  /\ ib_stored = {}

-----------------------------------------------------------------------------

\* The client's next tick: it sends its input; what is late by IbDelay is lost.
ib_input ==
  /\ ib_tick < IbMaxTick
  /\ ib_tick - ib_pruned < IbLead
  /\ ib_tick' = ib_tick + 1
  /\ ib_flight' = {t \in ib_flight \cup {ib_tick + 1} : ib_tick + 1 - t < IbDelay}
  /\ UNCHANGED <<ib_pruned, ib_buffer, ib_stored>>

IbBuffer == IF ib_buffer = IbNoBuffer THEN [i \in IbSlots |-> IbEmptyEntry] ELSE ib_buffer

\* store of an input that arrives, perhaps not for the last time.
ib_store_Newest(t) ==
  LET i == IbWire(t) % IbRing IN
  /\ ib_buffer' = IF IbBuffer[i].tick > IbWire(t) THEN IbBuffer
                  ELSE [IbBuffer EXCEPT ![i] = [tick |-> IbWire(t), input |-> t]]
  /\ ib_stored' = {u \in ib_stored \cup {t} : u > ib_pruned}
  /\ \/ ib_flight' = ib_flight
     \/ ib_flight' = ib_flight \ {t}
  /\ UNCHANGED <<ib_tick, ib_pruned>>

ib_store_Wide(t) ==
  /\ ib_buffer' = [IbBuffer EXCEPT ![t % IbRing] = [tick |-> t, input |-> t]]
  /\ ib_stored' = {u \in ib_stored \cup {t} : u > ib_pruned}
  /\ \/ ib_flight' = ib_flight
     \/ ib_flight' = ib_flight \ {t}
  /\ UNCHANGED <<ib_tick, ib_pruned>>

ib_store(t) ==
  /\ ib_buffer' = [IbBuffer EXCEPT ![IbWire(t) % IbRing] = [tick |-> IbWire(t), input |-> t]]
  /\ ib_stored' = {u \in ib_stored \cup {t} : u > ib_pruned}
  /\ \/ ib_flight' = ib_flight
     \/ ib_flight' = ib_flight \ {t}
  /\ UNCHANGED <<ib_tick, ib_pruned>>

ib_has(t) == ib_buffer # IbNoBuffer /\ ib_buffer[IbWire(t) % IbRing].tick = IbWire(t)

ib_retrieve(t) == ib_buffer[IbWire(t) % IbRing].input

\* static_cast<std::int16_t>(a - b) as a signed number.
IbSignedDiff(a, b) ==
  LET d == (a - b) % IbTickMod IN IF d < IbTickMod \div 2 THEN d ELSE d - IbTickMod

IbPruned_Equal(e, t) == e.tick # 0 /\ IbWire(t) = e.tick

IbPruned(e, t) == e.tick # 0 /\ IbSignedDiff(IbWire(t), e.tick) >= 0

\* The server has simulated up to t.
prune_up_to(t) ==
  /\ t > ib_pruned /\ t <= ib_tick
  /\ ib_pruned' = t
  /\ ib_buffer' = IF ib_buffer = IbNoBuffer THEN IbNoBuffer
                  ELSE [i \in IbSlots |-> IF IbPruned(ib_buffer[i], t) THEN IbEmptyEntry
                                          ELSE ib_buffer[i]]
  /\ ib_stored' = {u \in ib_stored : u > t}
  /\ UNCHANGED <<ib_tick, ib_flight>>

clear_client ==
  /\ ib_buffer' = IbNoBuffer
  /\ ib_stored' = {}
  /\ ib_flight' = {}
  /\ UNCHANGED <<ib_tick, ib_pruned>>

\* The loop over the entries: each that is newer than the newest so far, which
\* is 0 at first, replaces it.
last_received_tick ==
  LET max_tick[i \in 0 .. IbRing] ==
        IF i = 0 THEN 0
        ELSE LET w == ib_buffer[i - 1].tick IN
             IF w # 0 /\ IbSignedDiff(w, max_tick[i - 1]) > 0 THEN w ELSE max_tick[i - 1] IN
  IF ib_buffer = IbNoBuffer THEN 0 ELSE max_tick[IbRing]

InputBufferNext ==
  \/ ib_input
  \/ \E t \in ib_flight : ib_store(t)
  \/ \E t \in IbFirst .. IbMaxTick : prune_up_to(t)
  \/ clear_client

InputBufferSpec == InputBufferInit /\ [][InputBufferNext]_ib_vars

-----------------------------------------------------------------------------
(* Properties.                                                             *)

\* "so that the game loop can apply inputs at the exact tick they belong to": what
\* the server finds for a tick it has not applied yet was sent for that tick, not
\* one lap of the 16-bit counter before.  Tick 0 marks an empty entry.
IbOwnInput ==
  \A t \in ib_pruned + 1 .. ib_tick : IbWire(t) # 0 /\ ib_has(t) => ib_retrieve(t) = t

\* An input that arrived is there until its tick is pruned, whatever arrives after
\* it and in whatever order.
IbKept == \A t \in ib_stored : ib_has(t) /\ ib_retrieve(t) = t

\* The ring of a client finds the input of the tick it is asked for, and keeps it
\* until it is pruned.
InputBufferInv == IbTypeOK /\ IbOwnInput /\ IbKept

\* "Check whether input for client at tick exists."
IbHas == \A t \in ib_pruned + 1 .. ib_tick : ib_has(t) => t \in ib_stored

\* "The newest tick stored for client (0 if none)."
IbLastReceived ==
  ib_stored # {} =>
    last_received_tick = IbWire(CHOOSE t \in ib_stored : \A u \in ib_stored : u <= t)
=============================================================================
