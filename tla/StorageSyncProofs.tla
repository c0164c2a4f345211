------------------------- MODULE StorageSyncProofs -------------------------
(***************************************************************************)
(* Proofs about StorageSync, for every set of tags and quantities, every   *)
(* seq modulus and every bound on unpublished updates.                     *)
(***************************************************************************)
EXTENDS StorageSync, TLAPS

-----------------------------------------------------------------------------
(* Arithmetic of the wrapping sequence number.                             *)

\* A remainder of a number below the modulus is the number itself.
LEMMA ModSmall ==
  ASSUME NEW m \in Nat \ {0}, NEW x \in 0 .. m - 1
  PROVE  x % m = x
  BY SMT

\* One subtraction is enough below twice the modulus.
LEMMA ModOnce ==
  ASSUME NEW m \in Nat \ {0}, NEW x \in m .. 2 * m - 1
  PROVE  x % m = x - m
  BY SMT

\* The count of one more update wraps like the count itself.
LEMMA ModSuccessor ==
  ASSUME NEW m \in Nat \ {0}, NEW x \in 0 .. 2 * m - 2
  PROVE  ((x % m) + 1) % m = (x + 1) % m
<1>1. CASE x + 1 < m
  <2>1. x \in 0 .. m - 1 /\ x + 1 \in 0 .. m - 1
    BY <1>1
  <2>2. x % m = x /\ (x + 1) % m = x + 1
    BY <2>1, ModSmall
  <2> QED BY <2>2
<1>2. CASE x + 1 = m
  <2>1. x \in 0 .. m - 1 /\ x + 1 \in m .. 2 * m - 1
    BY <1>2
  <2>2. x % m = x /\ (x + 1) % m = x + 1 - m
    BY <2>1, ModSmall, ModOnce
  <2> QED BY <2>2
<1>3. CASE x >= m
  <2>1. x \in m .. 2 * m - 1 /\ x + 1 \in m .. 2 * m - 1 /\ x - m + 1 \in 0 .. m - 1
    BY <1>3
  <2>2. x % m = x - m
    BY <2>1, ModOnce
  <2>4. (x + 1) % m = x + 1 - m
    BY <2>1, ModOnce
  <2>3. (x - m + 1) % m = x - m + 1
    BY <2>1, ModSmall
  <2> QED BY <2>1, <2>2, <2>3, <2>4
<1> QED BY <1>1, <1>2, <1>3

-----------------------------------------------------------------------------
(* The inductive invariant.                                                *)

\* How far a BIND_TAG handler has come: from the NV write on, NV holds the tag
\* that was asked for; from the RAM update on, the record does too.
BindProgress ==
  /\ request # None => pc \in {"set_tag_id", "publish", "bind_rsp"} /\ nv = request.tag_id
  /\ pc = "set_tag_id" => request # None /\ acked = None /\ lag < MaxLag
  /\ pc \in {"publish", "bind_rsp"} /\ request # None => field.tag_id = nv
  /\ pc = "bind_rsp" => request # None
  /\ pc = "off" => ~fresh /\ field = ZeroRecord
  /\ fresh => heard # None

\* Invariants about the tag, and about the rest of the record.
TagInv == BindProgress /\ ConfirmedTagSurvives /\ RamTagFromNv
IInv == TypeOK /\ TagInv /\ OutstockIsEmpty /\ SeqCountsChanges

\* None is told apart from every value it stands in for.
LEMMA NoneIsNoValue == None \notin Nat /\ None \notin Record /\ None \notin Requests
  BY NoneAssumption

USE TagAssumption, QtyAssumption, SeqAssumption, NoneIsNoValue

-----------------------------------------------------------------------------
(* The records the program builds.                                         *)

\* Before and right after storage_sync_init the record is well formed.
LEMMA FreshRecords ==
  ASSUME TypeOK, NEW readOk \in BOOLEAN
  PROVE  ZeroRecord \in Record /\ InitRecord(readOk) \in Record
<1>1. ZeroRecord \in Record
  BY DEF ZeroRecord, Record, Status
<1>2. (IF readOk /\ Provisioned THEN nv ELSE DefaultTag) \in TagIds
  BY DEF TypeOK, Provisioned
<1> QED BY <1>1, <1>2 DEF InitRecord, Record, ZeroRecord

\* g is record f after one change, and carries tag t.
Changed(f, g, t) ==
  /\ g \in Record
  /\ g.seq = Bumped(f)
  /\ g.status = "OUTSTOCK" => g.qty = 0
  /\ g.tag_id = t

\* The three changes are such changes, of a record that shows OUTSTOCK only
\* for an empty bin.
LEMMA ChangedRecords ==
  ASSUME NEW f \in Record, f.status = "OUTSTOCK" => f.qty = 0
  PROVE  /\ \A q \in Qtys : Changed(f, WithQty(f, q), f.tag_id)
         /\ \A active \in BOOLEAN : Changed(f, WithFindStatus(f, active), f.tag_id)
         /\ \A t \in TagIds : Changed(f, WithTagId(f, t), t)
<1>1. Bumped(f) \in 0 .. SeqMod - 1
  BY DEF Bumped, Record
<1>2. ASSUME NEW q \in Qtys PROVE Changed(f, WithQty(f, q), f.tag_id)
  BY <1>1 DEF Changed, WithQty, Record, Status
<1>3. ASSUME NEW active \in BOOLEAN PROVE Changed(f, WithFindStatus(f, active), f.tag_id)
  BY <1>1 DEF Changed, WithFindStatus, Record, Status
<1>4. ASSUME NEW t \in TagIds PROVE Changed(f, WithTagId(f, t), t)
  BY <1>1 DEF Changed, WithTagId, Record, Status
<1> QED BY <1>2, <1>3, <1>4

\* Initially nothing is confirmed, heard or asked for.
THEOREM Initially == Init => IInv
<1> SUFFICES ASSUME Init PROVE IInv
  OBVIOUS
<1>1. ZeroRecord \in Record
  BY DEF ZeroRecord, Record, Status
<1>2. TypeOK
  <2>1. field \in Record
    BY <1>1 DEF Init
  <2>2. /\ nv \in TagIds \cup {None}
        /\ pc \in {"off", "idle", "set_tag_id", "publish", "bind_rsp"}
    BY DEF Init
  <2>3. /\ request \in Requests \cup {None}
        /\ heard \in Record \cup {None}
        /\ answer \in Answers \cup {None}
        /\ acked \in TagIds \cup {None}
    BY Zenon DEF Init
  <2>4. fresh \in BOOLEAN /\ loaded \in BOOLEAN
    BY DEF Init
  <2>5. lag \in 0 .. MaxLag
    BY DEF Init
  <2> QED BY <2>1, <2>2, <2>3, <2>4, <2>5 DEF TypeOK
<1>3. TagInv
  BY DEF Init, TagInv, BindProgress, ConfirmedTagSurvives, RamTagFromNv
<1>4. OutstockIsEmpty /\ SeqCountsChanges
  BY DEF Init, OutstockIsEmpty, SeqCountsChanges, ZeroRecord
<1> QED BY <1>2, <1>3, <1>4 DEF IInv

-----------------------------------------------------------------------------
(* Every step preserves it.                                                *)

\* A change of the record, when no bind runs or when it is the bind's own.
LEMMA UpdateStep ==
  ASSUME IInv, NEW f, Changed(field, f, f.tag_id), Update(f), lag < MaxLag,
         pc \in {"idle", "set_tag_id"},
         f.tag_id = IF pc = "idle" THEN field.tag_id ELSE nv
  PROVE  IInv'
<1>1. TypeOK'
  BY DEF IInv, TypeOK, Changed, Update
<1>2. TagInv'
  <2>1. BindProgress'
    BY DEF IInv, TypeOK, TagInv, BindProgress, Update
  <2>2. ConfirmedTagSurvives'
    BY DEF IInv, TypeOK, TagInv, BindProgress, ConfirmedTagSurvives, Inited, Update
  <2>3. RamTagFromNv'
    BY DEF IInv, TypeOK, TagInv, BindProgress, RamTagFromNv, Provisioned, Update
  <2> QED BY <2>1, <2>2, <2>3 DEF TagInv
<1>3. OutstockIsEmpty'
  BY DEF OutstockIsEmpty, Changed, Update
<1>4. SeqCountsChanges'
  <2> SUFFICES ASSUME fresh PROVE f.seq = (heard.seq + (lag + 1)) % SeqMod /\ lag + 1 # 0
    BY DEF SeqCountsChanges, Update, IInv, TypeOK
  <2>1. heard \in Record
    BY DEF IInv, TypeOK, TagInv, BindProgress
  <2>2. heard.seq \in 0 .. SeqMod - 1 /\ lag \in 0 .. MaxLag
    BY <2>1 DEF IInv, TypeOK, Record
  <2>3. heard.seq + lag \in 0 .. 2 * SeqMod - 2 /\ SeqMod \in Nat \ {0}
    BY <2>2
  <2>4. f.seq = (((heard.seq + lag) % SeqMod) + 1) % SeqMod
    BY DEF Changed, Bumped, IInv, SeqCountsChanges
  <2>5. f.seq = ((heard.seq + lag) + 1) % SeqMod
    BY <2>3, <2>4, ModSuccessor
  <2> QED BY <2>2, <2>5
<1> QED BY <1>1, <1>2, <1>3, <1>4 DEF IInv

\* The steps that change no record.
LEMMA QuietStep ==
  ASSUME IInv, NEW readOk \in BOOLEAN, NEW who \in Sources, NEW t \in TagIds,
         \/ StorageSyncInit(readOk) \/ SaveTagIdNv(who, t) \/ SaveTagIdNvFails(who, t)
         \/ Publish \/ SendBindRsp \/ SendInventoryRsp \/ BindBeforeInit(t) \/ PowerCut
  PROVE  IInv'
<1> USE DEF IInv
<1>1. CASE StorageSyncInit(readOk)
  <2>1. TypeOK'
    BY <1>1, FreshRecords DEF TypeOK, StorageSyncInit
  <2>2. TagInv'
    BY <1>1 DEF TypeOK, TagInv, BindProgress, ConfirmedTagSurvives, RamTagFromNv,
                StorageSyncInit, InitRecord, ZeroRecord, Provisioned, Inited
  <2>3. OutstockIsEmpty' /\ SeqCountsChanges'
    BY <1>1 DEF TagInv, BindProgress, OutstockIsEmpty, SeqCountsChanges,
                StorageSyncInit, InitRecord, ZeroRecord
  <2> QED BY <2>1, <2>2, <2>3
<1>2. CASE SaveTagIdNv(who, t)
  <2>1. TypeOK'
    BY <1>2 DEF TypeOK, SaveTagIdNv, Requests
  <2>2. TagInv'
    <3>1. request' # None
      BY <1>2 DEF SaveTagIdNv, Requests
    <3> QED BY <1>2, <3>1 DEF TypeOK, TagInv, BindProgress, ConfirmedTagSurvives,
                              RamTagFromNv, SaveTagIdNv
  <2>3. OutstockIsEmpty' /\ SeqCountsChanges'
    BY <1>2 DEF OutstockIsEmpty, SeqCountsChanges, SaveTagIdNv
  <2> QED BY <2>1, <2>2, <2>3
<1>3. CASE SaveTagIdNvFails(who, t)
  <2>0. answer' \in Answers \cup {None}
    BY <1>3 DEF TypeOK, SaveTagIdNvFails, Answers
  <2>1. TypeOK'
    BY <1>3, <2>0 DEF TypeOK, SaveTagIdNvFails
  <2>2. TagInv'
    BY <1>3 DEF TypeOK, TagInv, BindProgress, ConfirmedTagSurvives, RamTagFromNv,
                Provisioned, Inited, SaveTagIdNvFails
  <2>3. OutstockIsEmpty' /\ SeqCountsChanges'
    BY <1>3 DEF OutstockIsEmpty, SeqCountsChanges, SaveTagIdNvFails
  <2> QED BY <2>1, <2>2, <2>3
<1>4. CASE Publish
  <2>1. TypeOK'
    <3>1. /\ field' \in Record /\ heard' \in Record \cup {None}
          /\ fresh' \in BOOLEAN /\ lag' \in 0 .. MaxLag
      <4>1. CASE heard' = field /\ fresh' = TRUE /\ lag' = 0
        BY <1>4, <4>1 DEF TypeOK, Publish
      <4>2. CASE UNCHANGED <<heard, fresh, lag>>
        BY <1>4, <4>2 DEF TypeOK, Publish
      <4> QED BY <1>4, <4>1, <4>2 DEF Publish
    <3>2. request' \in Requests \cup {None}
      BY <1>4 DEF TypeOK, Publish
    <3> QED BY <1>4, <3>1, <3>2 DEF TypeOK, Publish
  <2>2. TagInv'
    <3>1. BindProgress'
      <4>1. CASE heard' = field
        <5>1. field # None
          BY DEF TypeOK
        <5> QED BY <1>4, <4>1, <5>1 DEF TagInv, BindProgress, Publish
      <4>2. CASE UNCHANGED <<heard, fresh, lag>>
        BY <1>4, <4>2 DEF TagInv, BindProgress, Publish
      <4> QED BY <1>4, <4>1, <4>2 DEF Publish
    <3>2. ConfirmedTagSurvives' /\ RamTagFromNv'
      BY <1>4 DEF TagInv, ConfirmedTagSurvives, RamTagFromNv, Provisioned, Inited, Publish
    <3> QED BY <3>1, <3>2 DEF TagInv
  <2>3. SeqCountsChanges'
    <3>1. CASE heard' = field /\ fresh' = TRUE /\ lag' = 0
      <4>1. field.seq \in 0 .. SeqMod - 1
        BY DEF TypeOK, Record
      <4>2. field.seq = (field.seq + 0) % SeqMod
        BY <4>1, ModSmall
      <4> QED BY <1>4, <3>1, <4>2 DEF SeqCountsChanges, Publish
    <3>2. CASE UNCHANGED <<heard, fresh, lag>>
      BY <1>4, <3>2 DEF SeqCountsChanges, Publish
    <3> QED BY <1>4, <3>1, <3>2 DEF Publish
  <2>4. OutstockIsEmpty'
    BY <1>4 DEF OutstockIsEmpty, Publish
  <2> QED BY <2>1, <2>2, <2>3, <2>4
<1>5. CASE SendBindRsp
  <2>3. request \in Requests
    BY <1>5 DEF TypeOK, TagInv, BindProgress, SendBindRsp
  <2>0. answer' \in Answers \cup {None} /\ acked' \in TagIds \cup {None}
    <3>1. CASE UNCHANGED <<answer, acked>>
      BY <3>1 DEF TypeOK
    <3>2. CASE /\ answer' = [cmd |-> "RSP_BIND_OK", tag_id |-> request.tag_id]
               /\ acked' = request.tag_id
      BY <2>3, <3>2 DEF Answers, Requests
    <3> QED BY <1>5, <3>1, <3>2 DEF SendBindRsp
  <2>1. TypeOK'
    BY <1>5, <2>0 DEF TypeOK, SendBindRsp
  <2>2. TagInv'
    BY <1>5 DEF TypeOK, TagInv, BindProgress, ConfirmedTagSurvives, RamTagFromNv,
                Provisioned, Inited, SendBindRsp
  <2>4. OutstockIsEmpty' /\ SeqCountsChanges'
    BY <1>5 DEF OutstockIsEmpty, SeqCountsChanges, SendBindRsp
  <2> QED BY <2>1, <2>2, <2>4
<1>6. CASE SendInventoryRsp \/ BindBeforeInit(t)
  <2>0. answer' \in Answers \cup {None}
    BY <1>6 DEF TypeOK, SendInventoryRsp, BindBeforeInit, Answers
  <2>1. UNCHANGED <<field, nv, pc, request, heard, fresh, lag, loaded, acked>>
    BY <1>6 DEF SendInventoryRsp, BindBeforeInit
  <2>2. TypeOK'
    BY <2>0, <2>1 DEF TypeOK
  <2>3. TagInv' /\ OutstockIsEmpty' /\ SeqCountsChanges'
    BY <2>1 DEF TagInv, BindProgress, ConfirmedTagSurvives, RamTagFromNv, Provisioned,
                Inited, OutstockIsEmpty, SeqCountsChanges
  <2> QED BY <2>2, <2>3
<1>7. CASE PowerCut
  <2>1. TypeOK'
    <3>1. field' \in Record
      BY <1>7, FreshRecords DEF PowerCut
    <3>2. fresh' \in BOOLEAN /\ loaded' \in BOOLEAN
      BY <1>7, Zenon DEF PowerCut
    <3>3. lag' \in 0 .. MaxLag
      BY <1>7 DEF PowerCut
    <3> QED BY <1>7, <3>1, <3>2, <3>3 DEF TypeOK, PowerCut
  <2>2. TagInv'
    BY <1>7 DEF TypeOK, TagInv, BindProgress, ConfirmedTagSurvives, RamTagFromNv,
                Inited, PowerCut
  <2>3. OutstockIsEmpty' /\ SeqCountsChanges'
    BY <1>7 DEF OutstockIsEmpty, SeqCountsChanges, PowerCut, ZeroRecord
  <2> QED BY <2>1, <2>2, <2>3
<1> QED BY <1>1, <1>2, <1>3, <1>4, <1>5, <1>6, <1>7

\* Every step of the program preserves the invariant.
THEOREM Stepwise == IInv /\ [Next]_vars => IInv'
<1> SUFFICES ASSUME IInv, [Next]_vars PROVE IInv'
  OBVIOUS
<1> USE DEF IInv
<1>0. /\ \A q \in Qtys : Changed(field, WithQty(field, q), field.tag_id)
      /\ \A active \in BOOLEAN : Changed(field, WithFindStatus(field, active), field.tag_id)
      /\ \A t \in TagIds : Changed(field, WithTagId(field, t), t)
  BY ChangedRecords DEF TypeOK, OutstockIsEmpty
<1>1. ASSUME NEW q \in Qtys, SetQty(q) PROVE IInv'
  BY <1>0, <1>1, UpdateStep DEF SetQty, Changed
<1>2. ASSUME NEW active \in BOOLEAN, SetFindStatus(active) PROVE IInv'
  BY <1>0, <1>2, UpdateStep DEF SetFindStatus, Changed
<1>3. CASE SetTagIdRam
  <2>0. request \in Requests
    BY <1>3 DEF TypeOK, TagInv, BindProgress, SetTagIdRam
  <2>1. request.tag_id \in TagIds /\ nv = request.tag_id /\ lag < MaxLag
    BY <1>3, <2>0 DEF TypeOK, TagInv, BindProgress, SetTagIdRam, Requests
  <2> QED BY <1>0, <1>3, <2>1, UpdateStep DEF SetTagIdRam, Changed
<1>4. CASE UNCHANGED vars
  BY <1>4 DEF vars, TypeOK, TagInv, BindProgress, ConfirmedTagSurvives, RamTagFromNv,
              Provisioned, Inited, OutstockIsEmpty, SeqCountsChanges
<1>5. ASSUME NEW readOk \in BOOLEAN, StorageSyncInit(readOk) PROVE IInv'
  BY <1>5, QuietStep DEF Sources
<1>6. ASSUME NEW who \in Sources, NEW t \in TagIds,
             SaveTagIdNv(who, t) \/ SaveTagIdNvFails(who, t) \/ BindBeforeInit(t)
      PROVE  IInv'
  BY <1>6, QuietStep
<1>7. CASE Publish \/ SendBindRsp \/ SendInventoryRsp \/ PowerCut
  BY <1>7, QuietStep DEF Sources
<1> QED BY <1>1, <1>2, <1>3, <1>4, <1>5, <1>6, <1>7 DEF Next, Sources

-----------------------------------------------------------------------------
(* The theorems.                                                           *)

\* The strengthened invariant holds throughout.
THEOREM Invariance == Spec => []IInv
BY Initially, Stepwise, PTL DEF Spec

\* Every variable keeps its type.
THEOREM TypeCorrect == Spec => []TypeOK
BY Invariance, PTL DEF IInv

\* OUTSTOCK is shown only for an empty bin.
THEOREM OutstockCorrect == Spec => []OutstockIsEmpty
BY Invariance, PTL DEF IInv

\* seq counts the changes a scanner has missed.
THEOREM SeqCorrect == Spec => []SeqCountsChanges
BY Invariance, PTL DEF IInv

\* A confirmed tag survives power cuts.
THEOREM ConfirmedCorrect == Spec => []ConfirmedTagSurvives
BY Invariance, PTL DEF IInv, TagInv

\* The record's tag is the stored one, or the default.
THEOREM RamTagCorrect == Spec => []RamTagFromNv
BY Invariance, PTL DEF IInv, TagInv

-----------------------------------------------------------------------------
(* The program implements DurableTag.                                      *)

\* Which calls DurableTag sees: an initialisation is a restart, the NV write a
\* store, the RAM update a show, the answer a confirmation; all others stutter.
LEMMA TagStep == IInv /\ [Next]_vars => [Tag!TagNext]_(Tag!tagVars)
<1> SUFFICES ASSUME IInv, [Next]_vars PROVE [Tag!TagNext]_(Tag!tagVars)
  OBVIOUS
<1> USE DEF IInv, TagInv, Inited
<1>0. None \notin TagIds
  OBVIOUS
<1>1. ASSUME NEW readOk \in BOOLEAN, StorageSyncInit(readOk) PROVE Tag!Restart
  BY <1>1 DEF StorageSyncInit, InitRecord, ZeroRecord, Provisioned, Tag!Restart
<1>2. ASSUME NEW f, Update(f), f.tag_id = field.tag_id, pc = "idle"
      PROVE  UNCHANGED Tag!tagVars
  BY <1>2 DEF Update, Tag!tagVars
<1>3. ASSUME NEW q \in Qtys, SetQty(q) PROVE UNCHANGED Tag!tagVars
  BY <1>2, <1>3 DEF SetQty, WithQty, TypeOK, Record
<1>4. ASSUME NEW active \in BOOLEAN, SetFindStatus(active) PROVE UNCHANGED Tag!tagVars
  BY <1>2, <1>4 DEF SetFindStatus, WithFindStatus, TypeOK, Record
<1>5. ASSUME NEW who \in Sources, NEW t \in TagIds, SaveTagIdNv(who, t) PROVE Tag!Store(t)
  <2>1. field.tag_id # None
    BY <1>0 DEF TypeOK, Record
  <2> QED BY <1>5, <2>1 DEF SaveTagIdNv, Tag!Store
<1>6. ASSUME NEW who \in Sources, NEW t \in TagIds, SaveTagIdNvFails(who, t)
      PROVE  UNCHANGED Tag!tagVars
  BY <1>6 DEF SaveTagIdNvFails, Tag!tagVars
<1>7. ASSUME SetTagIdRam PROVE Tag!Show
  <2>1. request \in Requests /\ nv = request.tag_id
    BY <1>7 DEF SetTagIdRam, BindProgress, TypeOK
  <2>2. request.tag_id \in TagIds /\ field.tag_id \in TagIds
    BY <2>1 DEF TypeOK, Record, Requests
  <2>3. field'.tag_id = nv
    BY <1>7, <2>1 DEF SetTagIdRam, Update, WithTagId, TypeOK, Record
  <2> QED BY <1>0, <1>7, <2>1, <2>2, <2>3 DEF SetTagIdRam, Update, Tag!Show
<1>8. CASE Publish
  BY <1>8 DEF Publish, Tag!tagVars
<1>9. ASSUME SendBindRsp PROVE Tag!Confirm \/ UNCHANGED Tag!tagVars
  <2>1. request \in Requests /\ nv = request.tag_id /\ field.tag_id = nv
    BY <1>9 DEF SendBindRsp, BindProgress, TypeOK
  <2>2. nv \in TagIds
    BY <2>1 DEF Requests
  <2> QED BY <1>0, <1>9, <2>1, <2>2 DEF SendBindRsp, Tag!Confirm, Tag!tagVars
<1>10. CASE SendInventoryRsp
  BY <1>10 DEF SendInventoryRsp, Tag!tagVars
<1>11. ASSUME NEW t \in TagIds, BindBeforeInit(t) PROVE UNCHANGED Tag!tagVars
  BY <1>11 DEF BindBeforeInit, Tag!tagVars
<1>12. ASSUME PowerCut PROVE Tag!Stop
  BY <1>12 DEF PowerCut, Tag!Stop
<1>13. CASE UNCHANGED vars
  BY <1>13 DEF vars, Tag!tagVars
<1> QED BY <1>1, <1>3, <1>4, <1>5, <1>6, <1>7, <1>8, <1>9, <1>10, <1>11, <1>12, <1>13
        DEF Next, Tag!TagNext

\* No client is told RSP_BIND_OK before the tag is durable and shown.
THEOREM Refinement == Spec => ImplementsDurableTag
<1>1. Init => Tag!TagInit
  BY DEF Init, Inited, Tag!TagInit
<1>2. []IInv /\ [][Next]_vars => [][Tag!TagNext]_(Tag!tagVars)
  BY TagStep, PTL
<1> QED BY <1>1, <1>2, Invariance, PTL DEF Spec, ImplementsDurableTag, Tag!TagSpec

=============================================================================
