---------------------------- MODULE StorageSync ----------------------------
(***************************************************************************)
(* The tag record of My_project_2x: components/storage_sync keeps one      *)
(* record in RAM (g_sync.field) and its tag_id in NV, and the handlers of  *)
(* app/main.c change it, publish it to the broadcast and answer a client.  *)
(*                                                                         *)
(* A handler is a run of calls, and power may be cut between any two of    *)
(* them: pc names the call the running handler makes next, "off" while the *)
(* record is not initialised.  Handlers run one at a time here; FindMe is  *)
(* about several contexts that run them at the same time.                  *)
(***************************************************************************)
EXTENDS TagRecord

CONSTANTS
  DefaultTag,  \* MY_PROJECT_2X_DEFAULT_TAG_ID
  MaxLag,      \* bound: updates made while no publish succeeds
  None         \* "no value": an empty NV item, nothing heard, no answer yet

ASSUME TagAssumption == 0 \in TagIds /\ TagIds \subseteq Nat /\ DefaultTag \in TagIds \ {0}
ASSUME SeqAssumption == SeqMod \in Nat /\ MaxLag \in Nat /\ MaxLag < SeqMod /\ MaxLag > 0

VARIABLES
  field,     \* g_sync.field, the record in RAM
  nv,        \* the NV item NV_ID_BS2X_TAG_ID, None while it was never written
  pc,        \* the call the handler that runs makes next
  request,   \* the BIND_TAG that runs: where it came from and the tag it asks for
  heard,     \* the last record the radio carried, as a scanner heard it
  fresh,     \* some publish succeeded since the last start
  lag,       \* updates of the record since the last publish that succeeded
  loaded,    \* the NV item was read without error at the last start
  answer,    \* the last notification sent to the client
  acked      \* the tag confirmed to the client, None once a new bind is stored

vars == <<field, nv, pc, request, heard, fresh, lag, loaded, answer, acked>>

Answers ==
  [cmd : {"RSP_BIND_OK", "RSP_BIND_FAIL"}, tag_id : TagIds]
    \cup [cmd : {"RSP_INVENTORY"}, record : Record]

\* Commands come from an SLE client or from the UART test console.
Sources == {"sle", "uart"}
Requests == [who : Sources, tag_id : TagIds]

ASSUME NoneAssumption == None \notin Nat \cup Record \cup Requests

Inited == pc # "off"

-----------------------------------------------------------------------------
(* The record after a start.                                               *)

\* Whether RAM's tag must come from NV: an empty item and 0 both count as unset.
Provisioned == nv \notin {None, 0}

\* Mutant: the NV item is never looked at.
InitRecordDefault(readOk) == [ZeroRecord EXCEPT !.tag_id = DefaultTag]

\* What storage_sync_init makes of the NV item; readOk says the read succeeded.
InitRecord(readOk) ==
  [ZeroRecord EXCEPT !.tag_id = IF readOk /\ Provisioned THEN nv ELSE DefaultTag]

-----------------------------------------------------------------------------
(* The calls.                                                              *)

Init ==
  /\ field = ZeroRecord
  /\ nv \in TagIds \cup {None}
  /\ pc = "off"
  /\ request = None
  /\ heard = None
  /\ fresh = FALSE
  /\ lag = 0
  /\ loaded = FALSE
  /\ answer = None
  /\ acked = None

\* storage_sync_init, called by the entry function, which publishes next.
StorageSyncInit(readOk) ==
  /\ pc = "off"
  /\ field' = InitRecord(readOk)
  /\ loaded' = readOk
  /\ pc' = "publish"
  /\ UNCHANGED <<nv, request, heard, fresh, lag, answer, acked>>

\* A call that changed the record: the handler goes on to publish it.
Update(f) ==
  /\ field' = f
  /\ lag' = lag + 1
  /\ pc' = "publish"
  /\ UNCHANGED <<nv, request, heard, fresh, loaded, answer, acked>>

\* The UPDATE_QTY handler calls storage_sync_set_qty.
SetQty(q) ==
  /\ pc = "idle" /\ lag < MaxLag
  /\ Update(WithQty(field, q))

\* FIND_ME, STOP_FIND and the restore timer call storage_sync_set_find_status.
SetFindStatus(active) ==
  /\ pc = "idle" /\ lag < MaxLag
  /\ Update(WithFindStatus(field, active))

\* Mutant: the handler goes on although nothing was stored.
SaveTagIdNvUnchecked(who, t) ==
  /\ pc = "idle" /\ lag < MaxLag
  /\ request' = [who |-> who, tag_id |-> t]
  /\ pc' = "set_tag_id"
  /\ UNCHANGED <<field, nv, heard, fresh, lag, loaded, answer, acked>>

\* The first half of storage_sync_set_tag_id writes NV.
SaveTagIdNv(who, t) ==
  /\ pc = "idle" /\ lag < MaxLag
  /\ nv' = t
  /\ acked' = None
  /\ request' = [who |-> who, tag_id |-> t]
  /\ pc' = "set_tag_id"
  /\ UNCHANGED <<field, heard, fresh, lag, loaded, answer>>

\* Mutant: RAM takes the tag although the NV write failed.
SaveTagIdNvFailsInRam(who, t) ==
  /\ pc = "idle" /\ lag < MaxLag
  /\ Update(WithTagId(field, t))

\* The NV write fails: the SLE handler answers so, the UART handler publishes.
SaveTagIdNvFails(who, t) ==
  /\ pc = "idle"
  /\ IF who = "uart"
       THEN pc' = "publish" /\ UNCHANGED answer
       ELSE answer' = [cmd |-> "RSP_BIND_FAIL", tag_id |-> t] /\ UNCHANGED pc
  /\ UNCHANGED <<field, nv, request, heard, fresh, lag, loaded, acked>>

\* The second half of storage_sync_set_tag_id changes RAM.
SetTagIdRam ==
  /\ pc = "set_tag_id"
  /\ Update(WithTagId(field, request.tag_id))

\* storage_sync_publish; refresh_adv_cb may return an error, which no handler
\* looks at: the SLE BIND_TAG handler confirms the tag, the others are done.
Publish ==
  /\ pc = "publish"
  /\ IF request # None /\ request.who = "sle"
       THEN pc' = "bind_rsp" /\ UNCHANGED request
       ELSE pc' = "idle" /\ request' = None
  /\ \/ heard' = field /\ fresh' = TRUE /\ lag' = 0
     \/ UNCHANGED <<heard, fresh, lag>>
  /\ UNCHANGED <<field, nv, loaded, answer, acked>>

\* The BIND_TAG handler confirms the tag to its client, if the notify succeeds.
SendBindRsp ==
  /\ pc = "bind_rsp"
  /\ \/ /\ answer' = [cmd |-> "RSP_BIND_OK", tag_id |-> request.tag_id]
        /\ acked' = request.tag_id
     \/ UNCHANGED <<answer, acked>>
  /\ pc' = "idle"
  /\ request' = None
  /\ UNCHANGED <<field, nv, heard, fresh, lag, loaded>>

\* The INVENTORY handler; it has no guard on initialisation.
SendInventoryRsp ==
  /\ pc \in {"off", "idle"}
  /\ answer' = [cmd |-> "RSP_INVENTORY", record |-> field]
  /\ UNCHANGED <<field, nv, pc, request, heard, fresh, lag, loaded, acked>>

\* A command that arrives before storage_sync_init fails; BIND_TAG says so.
BindBeforeInit(t) ==
  /\ pc = "off"
  /\ answer' = [cmd |-> "RSP_BIND_FAIL", tag_id |-> t]
  /\ UNCHANGED <<field, nv, pc, request, heard, fresh, lag, loaded, acked>>

\* Power is cut between two calls: RAM is lost, NV and what was sent stay.
PowerCut ==
  /\ Inited
  /\ pc' = "off"
  /\ field' = ZeroRecord
  /\ fresh' = FALSE
  /\ lag' = 0
  /\ loaded' = FALSE
  /\ request' = None
  /\ UNCHANGED <<nv, heard, answer, acked>>

Next ==
  \/ \E readOk \in BOOLEAN : StorageSyncInit(readOk)
  \/ \E q \in Qtys : SetQty(q)
  \/ \E active \in BOOLEAN : SetFindStatus(active)
  \/ \E who \in Sources, t \in TagIds : SaveTagIdNv(who, t)
  \/ \E who \in Sources, t \in TagIds : SaveTagIdNvFails(who, t)
  \/ SetTagIdRam
  \/ Publish
  \/ SendBindRsp
  \/ SendInventoryRsp
  \/ \E t \in TagIds : BindBeforeInit(t)
  \/ PowerCut

Spec == Init /\ [][Next]_vars

-----------------------------------------------------------------------------
(* Properties.                                                             *)

\* Every variable has its type.
TypeOK ==
  /\ field \in Record
  /\ nv \in TagIds \cup {None}
  /\ pc \in {"off", "idle", "set_tag_id", "publish", "bind_rsp"}
  /\ request \in Requests \cup {None}
  /\ heard \in Record \cup {None}
  /\ fresh \in BOOLEAN
  /\ lag \in 0 .. MaxLag
  /\ loaded \in BOOLEAN
  /\ answer \in Answers \cup {None}
  /\ acked \in TagIds \cup {None}

\* OUTSTOCK is shown only for an empty bin, whatever order quantities, finds
\* and restores come in (storage_sync_set_qty, storage_sync_set_find_status).
OutstockIsEmpty == field.status = "OUTSTOCK" => field.qty = 0

\* A scanner that heard the running program can tell from seq how many
\* changes it missed, and holds the current record when it missed none:
\* every change of the record bumps seq exactly once, across the wrap too.
SeqCountsChanges ==
  fresh => /\ field.seq = (heard.seq + lag) % SeqMod
           /\ lag = 0 => heard = field

\* A tag confirmed to a client (RSP_BIND_OK) is in NV, and is the tag the
\* record carries after every restart that could read NV; power cuts between
\* the NV write, the RAM update, the publish and the answer do not matter.
ConfirmedTagSurvives ==
  acked # None =>
    /\ nv = acked
    /\ Inited /\ acked # 0 /\ loaded => field.tag_id = acked

\* The tag in RAM is never a third value: it is what NV holds, or the default
\* of a start that found NV empty, zero or unreadable; only between the two
\* halves of storage_sync_set_tag_id may it be the tag that is replaced.
RamTagFromNv ==
  pc \notin {"off", "set_tag_id"} =>
    \/ field.tag_id = nv
    \/ field.tag_id = DefaultTag /\ (loaded => ~Provisioned)

\* The program implements DurableTag: no client is told RSP_BIND_OK before the
\* tag is in NV and in the record, and no restart shows a tag of its own making.
Tag == INSTANCE DurableTag WITH
         stored <- nv,
         shown <- IF Inited THEN field.tag_id ELSE None,
         confirmed <- acked

ImplementsDurableTag == Tag!TagSpec

=============================================================================
