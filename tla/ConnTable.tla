----------------------------- MODULE ConnTable -----------------------------
(***************************************************************************)
(* The clients of My_project_2x (components/sle_slave): g_conn_ids, a      *)
(* table with as many slots as clients are served, and                     *)
(* g_active_conn_count, next to the links the SLE stack really has.        *)
(*                                                                         *)
(* The callbacks run one at a time in the SLE task; a broadcast of the     *)
(* main program walks the table while they do.  0 marks an empty slot, so  *)
(* the module is about a stack that numbers its links from 1.  The stack   *)
(* may report a link that is up once more: add_connection looks for the    *)
(* link and for room in one pass, so it overlooks the link's slot when one *)
(* before it is empty, and enters the link twice.  doubled records that.   *)
(***************************************************************************)
EXTENDS Naturals, FiniteSets

CONSTANTS
  ConnIds,           \* numbers the stack gives to links
  MAX_CONNECTIONS    \* CONFIG_MY_PROJECT_2X_MAX_CONNECTIONS

ASSUME IdAssumption == ConnIds \subseteq Nat \ {0}
ASSUME SlotAssumption == MAX_CONNECTIONS \in Nat \ {0} /\ MAX_CONNECTIONS < 256

VARIABLES
  conn_ids,            \* g_conn_ids
  active_conn_count,   \* g_active_conn_count
  links,               \* stack: the links that are up
  refused,             \* links that found the table full
  doubled,             \* history: a link was entered a second time
  walk,                \* the slot sle_slave_broadcast_notify_all looks at next
  told,                \* whom this broadcast has told, with the number of times
  stable               \* links that are up and in the table since it began

table == <<conn_ids, active_conn_count, links, refused, doubled>>
cast == <<walk, told, stable>>
tableVars == <<table, cast>>

Slots == 0 .. MAX_CONNECTIONS - 1
Idle == MAX_CONNECTIONS

Used == {i \in Slots : conn_ids[i] # 0}
Tracked == {conn_ids[i] : i \in Used}

TableInit ==
  /\ conn_ids = [i \in Slots |-> 0]
  /\ active_conn_count = 0
  /\ links = {} /\ refused = {} /\ doubled = FALSE
  /\ walk = Idle
  /\ told = [c \in ConnIds |-> 0]
  /\ stable = {}

-----------------------------------------------------------------------------
(* The connection callback.                                                *)

\* The slot where the search of add_connection stops.
IsStop(i, c) ==
  /\ conn_ids[i] \in {0, c}
  /\ \A j \in 0 .. i - 1 : conn_ids[j] \notin {0, c}

\* sle_slave_add_connection finds an empty slot, perhaps before the link's own.
Connected(c) ==
  /\ links' = links \cup {c}
  /\ \E i \in Slots :
       /\ IsStop(i, c) /\ conn_ids[i] = 0
       /\ conn_ids' = [conn_ids EXCEPT ![i] = c]
  /\ active_conn_count' = active_conn_count + 1
  /\ refused' = refused \ {c}
  /\ doubled' = (doubled \/ c \in Tracked)
  /\ UNCHANGED cast

\* The link is already in the list.
ConnectedAgain(c) ==
  /\ \E i \in Slots : IsStop(i, c) /\ conn_ids[i] = c
  /\ links' = links \cup {c}
  /\ UNCHANGED <<conn_ids, active_conn_count, refused, doubled, cast>>

\* Mutant: a link that is turned away is counted.
ConnectedFullCounts(c) ==
  /\ links' = links \cup {c}
  /\ \A i \in Slots : conn_ids[i] \notin {0, c}
  /\ refused' = refused \cup {c}
  /\ active_conn_count' = active_conn_count + 1
  /\ UNCHANGED <<conn_ids, doubled, cast>>

\* The table is full; the link stays up all the same.
ConnectedFull(c) ==
  /\ links' = links \cup {c}
  /\ \A i \in Slots : conn_ids[i] \notin {0, c}
  /\ refused' = refused \cup {c}
  /\ UNCHANGED <<conn_ids, active_conn_count, doubled, cast>>

\* Mutant: the slot of a client that leaves is not cleared.
DisconnectedKeepSlot(c) ==
  /\ c \in links /\ c \in Tracked
  /\ links' = links \ {c}
  /\ active_conn_count' = active_conn_count - 1
  /\ stable' = stable \ {c}
  /\ UNCHANGED <<conn_ids, refused, doubled, walk, told>>

\* sle_slave_remove_connection clears the first slot with the number.
Disconnected(c) ==
  /\ c \in links
  /\ links' = links \ {c}
  /\ \E i \in Slots :
       /\ conn_ids[i] = c /\ \A j \in 0 .. i - 1 : conn_ids[j] # c
       /\ conn_ids' = [conn_ids EXCEPT ![i] = 0]
  /\ active_conn_count' =
       IF active_conn_count > 0 THEN active_conn_count - 1 ELSE active_conn_count
  /\ stable' = stable \ {c}
  /\ UNCHANGED <<refused, doubled, walk, told>>

\* Mutant: the count goes down although the link was never counted.
DisconnectedUntrackedCounts(c) ==
  /\ c \in links /\ c \notin Tracked
  /\ links' = links \ {c} /\ refused' = refused \ {c}
  /\ active_conn_count' =
       IF active_conn_count > 0 THEN active_conn_count - 1 ELSE active_conn_count
  /\ UNCHANGED <<conn_ids, doubled, cast>>

\* A link that was refused leaves: its number is not found.
DisconnectedUntracked(c) ==
  /\ c \in links /\ c \notin Tracked
  /\ links' = links \ {c} /\ refused' = refused \ {c}
  /\ UNCHANGED <<conn_ids, active_conn_count, doubled, cast>>

-----------------------------------------------------------------------------
(* sle_slave_broadcast_notify_all.                                         *)

BroadcastNotifyAll ==
  /\ walk = Idle /\ active_conn_count # 0
  /\ walk' = 0
  /\ told' = [c \in ConnIds |-> 0]
  /\ stable' = Tracked
  /\ UNCHANGED table

\* Mutant: the walk ends at the count, as if there were no holes.
NotifySlotDense ==
  /\ walk # Idle
  /\ told' = IF conn_ids[walk] = 0 THEN told ELSE [told EXCEPT ![conn_ids[walk]] = @ + 1]
  /\ walk' = IF walk + 1 < active_conn_count THEN walk + 1 ELSE Idle
  /\ UNCHANGED <<table, stable>>

\* One slot: an empty one is passed over, a failing notify does not end the walk.
NotifySlot ==
  /\ walk # Idle
  /\ told' = IF conn_ids[walk] = 0 THEN told ELSE [told EXCEPT ![conn_ids[walk]] = @ + 1]
  /\ walk' = walk + 1
  /\ UNCHANGED <<table, stable>>

TableNext ==
  \/ \E c \in ConnIds :
       \/ Connected(c) \/ ConnectedAgain(c) \/ ConnectedFull(c)
       \/ Disconnected(c) \/ DisconnectedUntracked(c)
  \/ BroadcastNotifyAll \/ NotifySlot

TableSpec == TableInit /\ [][TableNext]_tableVars

-----------------------------------------------------------------------------
(* Properties.                                                             *)

\* Every variable has its type; the count fits the byte it is kept in.
TableTypeOK ==
  /\ conn_ids \in [Slots -> ConnIds \cup {0}]
  /\ active_conn_count \in 0 .. MAX_CONNECTIONS
  /\ links \subseteq ConnIds /\ refused \subseteq ConnIds /\ doubled \in BOOLEAN
  /\ walk \in 0 .. MAX_CONNECTIONS
  /\ told \in [ConnIds -> Nat]
  /\ stable \subseteq ConnIds

\* The count sle_slave_is_connected and broadcasts rely on is the number of
\* slots in use, whatever holes connects and disconnects leave and even when a
\* link was entered twice.
CountIsExact == active_conn_count = Cardinality(Used)

\* As long as no link was overlooked, none is in the table twice, and the
\* table has exactly the links that are up, except those that came while it
\* was full.
TableIsLinks ==
  ~doubled =>
    /\ \A i, j \in Used : conn_ids[i] = conn_ids[j] => i = j
    /\ Tracked = links \ refused /\ refused \subseteq links

\* Until then a broadcast tells every client that stays connected while it
\* runs exactly once, however the table changes under its feet.
BroadcastReachesAll ==
  walk = Idle /\ ~doubled => \A c \in stable : told[c] = 1

=============================================================================
