--------------------------- MODULE SpatialInterest ---------------------------
(***************************************************************************)
(* SpatialInterestManager (src/src/replication/spatial_interest_manager.cpp):*)
(* entities in a uniform grid, and what is near a point or relevant to a   *)
(* client.  Points have two whole coordinates; the third one of the code   *)
(* is treated like them.                                                   *)
(***************************************************************************)
EXTENDS Integers, FiniteSets, Sequences, SequencesExt

CONSTANTS
  SpEntities,     \* ids of entities
  SpPoints,       \* the points of the world: pairs of integers
  SpRadii,        \* radii, 0 for the default
  SpDefaults,     \* values of default_relevancy_radius_
  SpCellSizes,    \* values of cell_size_
  SpCaps,         \* values of max_entities_per_client_, 0 for none
  SpDisciplined   \* the cell size is only set while there are no entities

ASSUME SpAssumption ==
  /\ SpPoints \subseteq Int \X Int
  /\ SpRadii \subseteq Nat /\ SpDefaults \subseteq Nat
  /\ SpCellSizes \subseteq Nat \ {0} /\ SpCellSizes # {}
  /\ SpCaps \subseteq Nat /\ 0 \in SpRadii /\ 0 \in SpCaps /\ SpDisciplined \in BOOLEAN

VARIABLES
  sp_cell_size,  \* cell_size_
  sp_default,    \* default_relevancy_radius_
  sp_cap,        \* max_entities_per_client_
  sp_entities,   \* entities_: position, cell and radius of the registered ones
  sp_client,     \* clients_ for one client: none or its position and radius
  sp_cells       \* cells_: the ids in each cell that has some

sp_vars == <<sp_cell_size, sp_default, sp_cap, sp_entities, sp_client, sp_cells>>

world_to_cell(p) == <<p[1] \div sp_cell_size, p[2] \div sp_cell_size>>

SpEntry == [pos : SpPoints, cell : Int \X Int, radius : SpRadii]

SpTypeOK ==
  /\ sp_cell_size \in SpCellSizes
  /\ sp_default \in SpDefaults
  /\ sp_cap \in SpCaps
  /\ DOMAIN sp_entities \subseteq SpEntities
  /\ \A e \in DOMAIN sp_entities : sp_entities[e] \in SpEntry
  /\ sp_client \subseteq [pos : SpPoints, radius : SpRadii] /\ Cardinality(sp_client) <= 1
  /\ DOMAIN sp_cells \subseteq Int \X Int
  /\ \A c \in DOMAIN sp_cells : sp_cells[c] \in Seq(SpEntities) /\ sp_cells[c] # << >>

SpatialInterestInit ==
  /\ sp_cell_size \in SpCellSizes
  /\ sp_default \in SpDefaults
  /\ sp_cap = 0
  /\ sp_entities = << >> /\ sp_client = {} /\ sp_cells = << >>

-----------------------------------------------------------------------------

SpKeep(f, S) == [k \in S |-> f[k]]

add_to_cell(cells, c, e) ==
  [k \in DOMAIN cells \cup {c} |->
     IF k # c THEN cells[k] ELSE IF c \in DOMAIN cells THEN Append(cells[c], e) ELSE <<e>>]

\* The first occurrence goes, and the cell with its last id.
remove_from_cell_Empty(cells, c, e) ==
  IF c \notin DOMAIN cells THEN cells ELSE [cells EXCEPT ![c] = RemoveFirst(@, e)]

remove_from_cell(cells, c, e) ==
  IF c \notin DOMAIN cells THEN cells
  ELSE IF cells[c] = <<e>> THEN SpKeep(cells, DOMAIN cells \ {c})
  ELSE [cells EXCEPT ![c] = RemoveFirst(@, e)]

\* update_entity of a registered entity.
SpMoved_Stay(e, p) ==
  /\ sp_entities' = [sp_entities EXCEPT ![e].pos = p]
  /\ sp_cells' = sp_cells

SpMoved(e, p) ==
  LET old == sp_entities[e]
      cell == world_to_cell(p) IN
  IF old.pos = p THEN UNCHANGED <<sp_entities, sp_cells>>
  ELSE /\ sp_entities' = [sp_entities EXCEPT ![e].pos = p, ![e].cell = cell]
       /\ sp_cells' = IF old.cell = cell THEN sp_cells
                      ELSE add_to_cell(remove_from_cell(sp_cells, old.cell, e), cell, e)

register_entity(e, p) ==
  /\ \/ /\ e \in DOMAIN sp_entities
        /\ SpMoved(e, p)
     \/ /\ e \notin DOMAIN sp_entities
        /\ sp_entities' = [k \in DOMAIN sp_entities \cup {e} |->
             IF k = e THEN [pos |-> p, cell |-> world_to_cell(p), radius |-> 0]
             ELSE sp_entities[k]]
        /\ sp_cells' = add_to_cell(sp_cells, world_to_cell(p), e)
  /\ UNCHANGED <<sp_cell_size, sp_default, sp_cap, sp_client>>

update_entity(e, p) ==
  /\ e \in DOMAIN sp_entities
  /\ SpMoved(e, p)
  /\ UNCHANGED <<sp_cell_size, sp_default, sp_cap, sp_client>>

remove_entity(e) ==
  /\ e \in DOMAIN sp_entities
  /\ sp_cells' = remove_from_cell(sp_cells, sp_entities[e].cell, e)
  /\ sp_entities' = SpKeep(sp_entities, DOMAIN sp_entities \ {e})
  /\ UNCHANGED <<sp_cell_size, sp_default, sp_cap, sp_client>>

set_entity_relevancy_radius(e, r) ==
  /\ e \in DOMAIN sp_entities
  /\ sp_entities' = [sp_entities EXCEPT ![e].radius = r]
  /\ UNCHANGED <<sp_cell_size, sp_default, sp_cap, sp_client, sp_cells>>

\* register_client of a new client; of a known one it is update_client.
register_client(p) ==
  /\ sp_client' = IF sp_client = {} THEN {[pos |-> p, radius |-> 0]}
                  ELSE {[c EXCEPT !.pos = p] : c \in sp_client}
  /\ UNCHANGED <<sp_cell_size, sp_default, sp_cap, sp_entities, sp_cells>>

remove_client ==
  /\ sp_client' = {}
  /\ UNCHANGED <<sp_cell_size, sp_default, sp_cap, sp_entities, sp_cells>>

set_client_view_radius(r) ==
  /\ sp_client' = {[c EXCEPT !.radius = r] : c \in sp_client}
  /\ UNCHANGED <<sp_cell_size, sp_default, sp_cap, sp_entities, sp_cells>>

\* The entities stay in the cells they have.
set_cell_size(s) ==
  /\ SpDisciplined => sp_entities = << >>
  /\ sp_cell_size' = s
  /\ UNCHANGED <<sp_default, sp_cap, sp_entities, sp_client, sp_cells>>

set_default_relevancy_radius(r) ==
  /\ sp_default' = r
  /\ UNCHANGED <<sp_cell_size, sp_cap, sp_entities, sp_client, sp_cells>>

set_max_entities_per_client(n) ==
  /\ sp_cap' = n
  /\ UNCHANGED <<sp_cell_size, sp_default, sp_entities, sp_client, sp_cells>>

sp_clear ==
  /\ sp_entities' = << >> /\ sp_client' = {} /\ sp_cells' = << >>
  /\ UNCHANGED <<sp_cell_size, sp_default, sp_cap>>

SpatialInterestNext ==
  \/ \E e \in SpEntities :
       \/ \E p \in SpPoints : register_entity(e, p) \/ update_entity(e, p)
       \/ remove_entity(e)
       \/ \E r \in SpRadii : set_entity_relevancy_radius(e, r)
  \/ \E p \in SpPoints : register_client(p)
  \/ remove_client
  \/ \E r \in SpRadii : set_client_view_radius(r)
  \/ \E s \in SpCellSizes : set_cell_size(s)
  \/ \E r \in SpDefaults : set_default_relevancy_radius(r)
  \/ \E n \in SpCaps : set_max_entities_per_client(n)
  \/ sp_clear

SpatialInterestSpec == SpatialInterestInit /\ [][SpatialInterestNext]_sp_vars

-----------------------------------------------------------------------------
(* The queries.                                                            *)

DistSq(p, q) == (p[1] - q[1]) * (p[1] - q[1]) + (p[2] - q[2]) * (p[2] - q[2])

\* The cells between those of the corners of the box around the sphere.
CellsAround_Open(p, r) ==
  LET low == world_to_cell(<<p[1] - r, p[2] - r>>)
      high == world_to_cell(<<p[1] + r, p[2] + r>>) IN
  (low[1] .. high[1] - 1) \X (low[2] .. high[2] - 1)

CellsAround(p, r) ==
  LET low == world_to_cell(<<p[1] - r, p[2] - r>>)
      high == world_to_cell(<<p[1] + r, p[2] + r>>) IN
  (low[1] .. high[1]) \X (low[2] .. high[2])

\* The ids it returns; with a radius of 0 there are none.
query_sphere(p, r) ==
  IF r = 0 THEN {}
  ELSE {e \in DOMAIN sp_entities :
          /\ \E c \in CellsAround(p, r) \cap DOMAIN sp_cells : e \in Range(sp_cells[c])
          /\ DistSq(sp_entities[e].pos, p) <= r * r}

\* The client's radius, or else the entity's, or else the default.
get_relevancy_radius(e, c) ==
  IF c.radius > 0 THEN c.radius
  ELSE IF sp_entities[e].radius > 0 THEN sp_entities[e].radius ELSE sp_default

is_relevant(e, c) ==
  LET r == get_relevancy_radius(e, c) IN DistSq(sp_entities[e].pos, c.pos) <= r * r

\* What query_visible may return: the nearest ones if there are too many.
query_visible(c) ==
  LET near == query_sphere(c.pos, IF c.radius > 0 THEN c.radius ELSE sp_default)
      closer(a, b) == DistSq(sp_entities[a].pos, c.pos) <= DistSq(sp_entities[b].pos, c.pos) IN
  IF sp_cap = 0 \/ Cardinality(near) <= sp_cap THEN {near}
  ELSE {S \in SUBSET near :
          Cardinality(S) = sp_cap /\ \A a \in S, b \in near \ S : closer(a, b)}

-----------------------------------------------------------------------------
(* Properties.                                                             *)

\* The grid follows the entities: each is in the cell of its position, once, and
\* nothing else is in it.
SpIndex ==
  /\ \A e \in DOMAIN sp_entities :
       /\ sp_entities[e].cell = world_to_cell(sp_entities[e].pos)
       /\ sp_entities[e].cell \in DOMAIN sp_cells
  /\ \A c \in DOMAIN sp_cells : \A i \in DOMAIN sp_cells[c] :
       /\ sp_cells[c][i] \in DOMAIN sp_entities
       /\ sp_entities[sp_cells[c][i]].cell = c
       /\ \A j \in DOMAIN sp_cells[c] : sp_cells[c][i] = sp_cells[c][j] => i = j

\* "Return all entities within radius of the given point": a query through the grid
\* finds exactly what a look at every entity would find.
SpQueryComplete ==
  \A p \in SpPoints, r \in SpRadii \ {0} :
    query_sphere(p, r) = {e \in DOMAIN sp_entities : DistSq(sp_entities[e].pos, p) <= r * r}

\* The grid is exact: it follows the entities and hides none from a query.
SpatialInterestInv == SpTypeOK /\ SpIndex /\ SpQueryComplete

\* "Return all entities visible to client" says the same as "Check whether entity
\* should be replicated to client" while there is no cap.
SpAgree ==
  \A c \in sp_client :
    sp_cap = 0 => query_visible(c) = {{e \in DOMAIN sp_entities : is_relevant(e, c)}}

\* "Hard cap on how many entities a single client may receive (0 = unlimited)": the
\* filter given to the replication manager is is_relevant.
SpCapped ==
  \A c \in sp_client :
    sp_cap > 0 => Cardinality({e \in DOMAIN sp_entities : is_relevant(e, c)}) <= sp_cap
=============================================================================
