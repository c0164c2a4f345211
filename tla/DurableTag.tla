----------------------------- MODULE DurableTag -----------------------------
(***************************************************************************)
(* What storage_sync promises about the tag number, whatever the handlers  *)
(* and the power supply do: a number is stored durably first, shown next,  *)
(* and confirmed to a client last; a restart shows the stored number, or   *)
(* the default when there is none or it cannot be read.                    *)
(***************************************************************************)
EXTENDS Naturals

CONSTANTS TagIds, DefaultTag, None

VARIABLES
  stored,     \* the number that survives a power cut, None when there is none
  shown,      \* the number the running program shows, None while it is off
  confirmed   \* the number last confirmed to a client, None when it is replaced

tagVars == <<stored, shown, confirmed>>

TagInit ==
  /\ stored \in TagIds \cup {None}
  /\ shown = None
  /\ confirmed = None

\* Only while the program runs, and the number shown stays for now.
Store(t) ==
  /\ shown # None
  /\ stored' = t
  /\ confirmed' = None
  /\ UNCHANGED shown

Show ==
  /\ shown # None /\ stored # None
  /\ shown' = stored
  /\ UNCHANGED <<stored, confirmed>>

\* A number is confirmed only once it is both durable and shown.
Confirm ==
  /\ stored # None /\ shown = stored
  /\ confirmed' = stored
  /\ UNCHANGED <<stored, shown>>

Stop == shown' = None /\ UNCHANGED <<stored, confirmed>>

Restart ==
  /\ shown = None
  /\ shown' \in ({stored} \ {None, 0}) \cup {DefaultTag}
  /\ UNCHANGED <<stored, confirmed>>

TagNext == (\E t \in TagIds : Store(t)) \/ Show \/ Confirm \/ Stop \/ Restart

TagSpec == TagInit /\ [][TagNext]_tagVars

=============================================================================
