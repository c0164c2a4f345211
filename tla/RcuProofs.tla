----------------------------- MODULE RcuProofs ------------------------------
(***************************************************************************)
(* Proofs about Rcu, for every set of chords and connections, every length *)
(* of the queue and every number of events.                                *)
(***************************************************************************)
EXTENDS Rcu, FiniteSetTheorems, SequenceTheorems, TLAPS

Words == Chords \union {"up", "hold"}
Callers == {"sle", "pm"}
Events == [what : {"connected", "disconnected", "paired"}, id : Ids, host : Devices]

\* What TypeOK says, part by part.
KeyTypes ==
  /\ held \in Chords \union {""}
  /\ queue \in Seq(Words) /\ Len(queue) <= MaxMsg
  /\ timers \subseteq {"hold", "pair", "study"}
  /\ flag \in Combos \union {""} /\ check \subseteq Kinds
  /\ voice \in BOOLEAN /\ mic \in BOOLEAN /\ lost \in BOOLEAN
Histories == lowpower \in BOOLEAN /\ moved \in BOOLEAN /\ misread \in BOOLEAN
RowTypes ==
  /\ dev \in [Rows -> Row(Rows)]
  /\ \A r \in Rows : dev[r].type = "SLE" => dev[r].id \in Ids /\ dev[r].addr \in Devices
StateTypes ==
  /\ obj \in Rows /\ sleObj \in Rows
  /\ mode \in {"IDLE", "IR_SEND", "IR_STUDY", "ADV_SEND"}
  /\ status \in [Ids -> Statuses]
  /\ cb \in [Devices -> Rows] /\ air \in Devices \union {"off", "pair"}
  /\ power \in {"boot", "work", "sleep"}

\* A call under way names devices to call; the SLE task's, the link that was lost as well.
Calls == [at : {"idle", "call", "wait"}, todo : Seq(Devices), n : 0 .. MaxCount,
          id : Ids \union {NoId}, host : Rows]
CallTypes ==
  /\ pc \in [Callers -> Calls]
  /\ \A c \in Callers :
       /\ pc[c].at # "idle" => pc[c].todo # <<>>
       /\ pc[c].at = "call" => pc[c].n < MaxCount
  /\ pc["sle"].at # "idle" => pc["sle"].id \in Ids /\ pc["sle"].host \in Devices

StackTypes ==
  /\ links \in [Ids -> Rows] /\ pressed \in [Devices -> SUBSET Kinds]
  /\ cbs \in Seq(Events)
Types == KeyTypes /\ Histories /\ RowTypes /\ StateTypes /\ CallTypes /\ StackTypes

\* The microphone is on for the voice key.
Listens == mic => voice

\* A key that is down at a host is down at the host of the link the keys go to, and the
\* report that releases it will be sent.
Directed ==
  ~moved => \A h \in Devices : pressed[h] # {} =>
              Active \in Ids /\ links[Active] = h /\ pressed[h] \subseteq check

\* Of the words in q the last one of the keypad, if there is one, is w.
NoKeys(q) == \A i \in 1 .. Len(q) : q[i] = "hold"
Told(q, w) ==
  \A i \in 1 .. Len(q) :
    (q[i] # "hold" /\ \A j \in i + 1 .. Len(q) : q[j] = "hold") => q[i] = w

Shown == IF held = "" THEN "up" ELSE held
Quiet ==
  /\ ~voice /\ ~mic
  /\ ~moved => \A h \in Devices : pressed[h] = {}

\* What the task was, or will last be, told of the keypad is what it shows.
Seen == ~lost => Told(queue, Shown) /\ (held = "" /\ NoKeys(queue) => Quiet)

IInv == Types /\ Listens /\ Directed /\ Seen

-----------------------------------------------------------------------------
(* Sequences, and what was told.                                           *)

LEMMA Added ==
  ASSUME NEW S, NEW q \in Seq(S), NEW e \in S
  PROVE  /\ Append(q, e) \in Seq(S) /\ Len(q) \in Nat /\ Len(Append(q, e)) = Len(q) + 1
         /\ \A i \in 1 .. Len(q) : Append(q, e)[i] = q[i]
         /\ Append(q, e)[Len(q) + 1] = e
  BY AppendProperties, LenProperties

LEMMA Empty == Len(<<>>) = 0 /\ \A S : <<>> \in Seq(S)
  BY EmptySeq

LEMMA Served ==
  ASSUME NEW S, NEW q \in Seq(S), q # <<>>
  PROVE  /\ Tail(q) \in Seq(S) /\ Len(q) \in Nat \ {0} /\ Len(Tail(q)) = Len(q) - 1
         /\ Head(q) = q[1] /\ Head(q) \in S
         /\ \A i \in 1 .. Len(q) - 1 : Tail(q)[i] = q[i + 1]
<1>1. Len(q) \in Nat \ {0}
  BY EmptySeq
<1> QED BY <1>1, HeadTailProperties, ElementOfSeq

\* A word of the keypad added at the end says what the keypad shows.
LEMMA ToldAppend ==
  ASSUME NEW q \in Seq(Words), NEW e \in Words, NEW w
  PROVE  /\ e # "hold" => Told(Append(q, e), e) /\ ~NoKeys(Append(q, e))
         /\ e = "hold" /\ Told(q, w) => Told(Append(q, e), w)
         /\ e = "hold" /\ NoKeys(Append(q, e)) => NoKeys(q)
<1> DEFINE a == Append(q, e)
<1>1. /\ Len(q) \in Nat /\ Len(a) = Len(q) + 1 /\ a[Len(q) + 1] = e
      /\ \A i \in 1 .. Len(q) : a[i] = q[i]
  BY Added
<1> HIDE DEF a
<1>2. Len(a) \in 1 .. Len(a) /\ a[Len(a)] = e
  BY <1>1
<1>3. ASSUME e # "hold" PROVE Told(a, e) /\ ~NoKeys(a)
  <2>1. ~NoKeys(a)
    BY <1>2, <1>3 DEF NoKeys
  <2>2. ASSUME NEW i \in 1 .. Len(a), \A j \in i + 1 .. Len(a) : a[j] = "hold"
        PROVE  a[i] = e
    <3>1. ~(Len(a) \in i + 1 .. Len(a))
      BY <1>2, <1>3, <2>2
    <3>2. i = Len(a)
      BY <1>1, <3>1
    <3> QED BY <1>2, <3>2
  <2> QED BY <2>1, <2>2 DEF Told
<1>4. ASSUME e = "hold", Told(q, w) PROVE Told(a, w)
  <2>1. ASSUME NEW i \in 1 .. Len(a), a[i] # "hold", \A j \in i + 1 .. Len(a) : a[j] = "hold"
        PROVE  a[i] = w
    <3>1. i \in 1 .. Len(q) /\ a[i] = q[i]
      BY <1>1, <1>4, <2>1
    <3>2. \A j \in i + 1 .. Len(q) : q[j] = "hold"
      BY <1>1, <2>1, <3>1
    <3> QED BY <1>4, <2>1, <3>1, <3>2 DEF Told
  <2> QED BY <2>1 DEF Told
<1>5. NoKeys(a) => NoKeys(q)
  BY <1>1 DEF NoKeys
<1> QED BY <1>3, <1>4, <1>5 DEF a

\* Serving the head.
LEMMA ToldTail ==
  ASSUME NEW q \in Seq(Words), q # <<>>, NEW w, Told(q, w)
  PROVE  /\ Told(Tail(q), w)
         /\ Head(q) # "hold" /\ NoKeys(Tail(q)) => Head(q) = w
         /\ Head(q) = "hold" /\ NoKeys(Tail(q)) => NoKeys(q)
<1> DEFINE t == Tail(q) b == Head(q)
<1>1. /\ Len(q) \in Nat \ {0} /\ Len(t) = Len(q) - 1 /\ b = q[1]
      /\ \A i \in 1 .. Len(q) - 1 : t[i] = q[i + 1]
  BY Served
<1> HIDE DEF t, b
<1>2. ASSUME NEW i \in 2 .. Len(q)
      PROVE  i - 1 \in 1 .. Len(t) /\ t[i - 1] = q[i]
  BY <1>1
<1>3. Told(t, w)
  <2>1. ASSUME NEW i \in 1 .. Len(t), t[i] # "hold", \A j \in i + 1 .. Len(t) : t[j] = "hold"
        PROVE  t[i] = w
    <3>1. i + 1 \in 1 .. Len(q) /\ t[i] = q[i + 1]
      BY <1>1
    <3>2. ASSUME NEW j \in (i + 1) + 1 .. Len(q) PROVE q[j] = "hold"
      <4>1. j \in 2 .. Len(q) /\ j - 1 \in i + 1 .. Len(t)
        BY <1>1
      <4> QED BY <1>2, <2>1, <4>1
    <3> QED BY <2>1, <3>1, <3>2 DEF Told
  <2> QED BY <2>1 DEF Told
<1>4. ASSUME NoKeys(t), NEW j \in 1 + 1 .. Len(q) PROVE q[j] = "hold"
  BY <1>2, <1>4 DEF NoKeys
<1>5. b # "hold" /\ NoKeys(t) => b = w
  <2>1. 1 \in 1 .. Len(q)
    BY <1>1
  <2> QED BY <1>1, <1>4, <2>1 DEF Told
<1>6. b = "hold" /\ NoKeys(t) => NoKeys(q)
  <2>1. ASSUME NEW i \in 1 .. Len(q) PROVE i = 1 \/ i \in 1 + 1 .. Len(q)
    BY <1>1
  <2> QED BY <1>1, <1>4, <2>1 DEF NoKeys
<1> QED BY <1>3, <1>5, <1>6 DEF t, b

\* A list of the events of a finite set is a sequence of events.
LEMMA Listed ==
  ASSUME NEW S, IsFiniteSet(S)
  PROVE  SetToSeq(S) \in Seq(S)
<1> DEFINE n == Cardinality(S) F == [1 .. n -> S]
<1>1. n \in Nat /\ ExistsBijection(1 .. n, S)
  BY FS_CardinalityType
<1>2. PICK f \in Bijection(1 .. n, S) : TRUE
  BY <1>1 DEF ExistsBijection
<1>3. f \in F /\ IsInjective(f)
  BY <1>2 DEF Bijection, Injection
<1> HIDE DEF n, F
<1>4. SetToSeq(S) \in F
  BY <1>3 DEF SetToSeq, n, F
<1>5. \A g \in F : g \in Seq(S)
  BY <1>1 DEF F
<1> QED BY <1>4, <1>5

-----------------------------------------------------------------------------
(* The parts of a step.                                                    *)

LEMMA WordCases == "up" \notin Chords /\ "hold" \notin Chords /\ "" \notin Chords
  BY ChordsAssumption DEF Combos

LEMMA IdCases == 0 \in Ids /\ NoId \notin Ids /\ \A i \in Ids : i \in 0 .. 254
  BY IdsAssumption DEF NoId

LEMMA StatusTypes ==
  ASSUME StateTypes, NEW i, NEW s \in Statuses
  PROVE  StatusSet(i, s) \in [Ids -> Statuses]
  BY DEF StateTypes, StatusSet

\* The table after a row was written, or reset.
LEMMA RowWritten ==
  ASSUME RowTypes, NEW r \in Rows, NEW i \in Ids, NEW h \in Devices, dev' = InfoSet(r, i, h)
  PROVE  RowTypes'
<1> DEFINE new == [id |-> i, type |-> "SLE", addr |-> h]
<1>1. new \in Row(Rows) /\ new.id \in Ids /\ new.addr \in Devices
  BY DEF Row, Rows
<1>2. ASSUME NEW q \in Rows
      PROVE  /\ [dev[q] EXCEPT !.type = "junk"] \in Row(Rows)
             /\ [dev[q] EXCEPT !.type = "junk"].type # "SLE"
  BY DEF RowTypes, Row
<1>3. dev' = [q \in Rows |-> IF q = r THEN new
                             ELSE IF r = "NONE" THEN [dev[q] EXCEPT !.type = "junk"] ELSE dev[q]]
  BY DEF InfoSet
<1> HIDE DEF new
<1>4. ASSUME NEW q \in Rows
      PROVE  dev'[q] \in Row(Rows) /\ (dev'[q].type = "SLE" => dev'[q].id \in Ids /\ dev'[q].addr \in Devices)
  BY <1>1, <1>2, <1>3 DEF RowTypes
<1> QED BY <1>3, <1>4 DEF RowTypes

LEMMA RowsReset ==
  ASSUME RowTypes, dev' = [r \in Rows |-> IF r = "NONE" THEN [dev[r] EXCEPT !.id = 0] ELSE NoRow]
  PROVE  RowTypes'
<1>1. NoRow \in Row(Rows) /\ NoRow.type # "SLE"
  BY DEF NoRow, Row, Rows
<1>2. ASSUME NEW r \in Rows
      PROVE  /\ [dev[r] EXCEPT !.id = 0] \in Row(Rows)
             /\ [dev[r] EXCEPT !.id = 0].type = dev[r].type /\ [dev[r] EXCEPT !.id = 0].id \in Ids
             /\ [dev[r] EXCEPT !.id = 0].addr = dev[r].addr
  BY IdCases DEF RowTypes, Row
<1>3. ASSUME NEW r \in Rows
      PROVE  dev'[r] \in Row(Rows) /\ (dev'[r].type = "SLE" => dev'[r].id \in Ids /\ dev'[r].addr \in Devices)
  <2> HIDE DEF NoRow
  <2>1. CASE r = "NONE"
    BY <1>2, <2>1 DEF RowTypes
  <2>2. CASE r # "NONE"
    BY <1>1, <2>2
  <2> QED BY <2>1, <2>2
<1> QED BY <1>3 DEF RowTypes

\* The links that are cut are reported, each once.
LEMMA CutTypes ==
  ASSUME StackTypes, RowTypes, NEW ds \in SUBSET Devices, Cut(ds)
  PROVE  StackTypes'
<1> DEFINE hosts == {dev[d].addr : d \in {d \in ds : dev[d].type = "SLE"}}
           gone == {i \in Ids : links[i] \in hosts}
           told == {Cb("disconnected", i, links[i]) : i \in gone}
<1>1. links' \in [Ids -> Rows] /\ pressed' \in [Devices -> SUBSET Kinds]
  BY DEF Cut, StackTypes, Rows
<1>2. cbs' = cbs \o SetToSeq(told)
  BY DEF Cut
<1>3. told \subseteq Events
  <2>1. hosts \subseteq Devices
    BY DEF RowTypes, Rows
  <2>2. ASSUME NEW i \in gone PROVE Cb("disconnected", i, links[i]) \in Events
    BY <2>1 DEF Cb, Events
  <2> QED BY <2>2
<1>4. IsFiniteSet(told)
  <2>1. IsFiniteSet(gone)
    <3>1. gone \in SUBSET (0 .. 254)
      BY IdCases
    <3>2. IsFiniteSet(0 .. 254)
      <4>1. 0 \in Int /\ 254 \in Int
        OBVIOUS
      <4> QED BY <4>1, FS_Interval, Zenon
    <3> QED BY <3>1, <3>2, FS_Subset
  <2> DEFINE f == [i \in gone |-> Cb("disconnected", i, links[i])]
  <2>2. f \in Surjection(gone, told)
    BY DEF Surjection
  <2> HIDE DEF f, gone, told
  <2> QED BY <2>1, <2>2, FS_Surjection
<1> HIDE DEF told
<1>5. SetToSeq(told) \in Seq(Events)
  BY <1>3, <1>4, Listed, SeqMonotonic
<1> QED BY <1>1, <1>2, <1>5, ConcatProperties DEF StackTypes

\* What the steps of the SLE task and of the power manager call.
LEMMA CallCases ==
  ASSUME Step
  PROVE  \/ AppInit \/ (\E c \in Chords \union {""} : app_keyscan_callback(c)) \/ RcuTask
         \/ key_hold_long_timer_callback \/ pair_timer_callback \/ ir_study_timer_callback
         \/ NotifyConnected \/ NotifyDisconnected \/ sle_pair_complete_cbk
         \/ (\E c \in Callers : Call(c) \/ CallNext(c))
         \/ standby_to_sleep \/ sleep_to_work
         \/ (\E h \in Devices, i \in Ids : HostConnects(h, i))
         \/ (\E i \in Ids : HostPairs(i) \/ LinkLost(i))
  BY Zenon DEF Step, SleTask, PowerTask, Callers

\* The message the task takes, and what it does with it.
LEMMA TaskCases ==
  ASSUME Types, RcuTask
  PROVE  \E m \in Words :
           /\ Message(m)
           /\ \/ m \notin {"up", "hold"} /\ one_key_process(m)
              \/ m \notin {"up", "hold"} /\ m \in Combos /\ key_down_process(m)
              \/ m = "up" /\ key_up_process
              \/ m = "hold" /\ key_hold_process
<1>1. CASE \E c \in Chords \ Combos : one_key_process(c)
  BY <1>1, WordCases DEF one_key_process, Words
<1>2. CASE \E c \in Chords \intersect Combos : key_down_process(c)
  BY <1>2, WordCases DEF key_down_process, Words
<1>3. CASE key_up_process
  BY <1>3 DEF key_up_process, Words
<1>4. CASE key_hold_process
  BY <1>4 DEF key_hold_process, Words
<1> QED BY <1>1, <1>2, <1>3, <1>4 DEF RcuTask

LEMMA KeyCases ==
  ASSUME NEW c, one_key_process(c)
  PROVE  /\ Message(c)
         /\ \/ InfraredKey(c)
            \/ /\ ReportKey(c) \/ VoiceKey \/ \E d \in Devices : key_switch_device(d)
               /\ UNCHANGED <<timers, mode, dev, flag, lowpower, links, cbs, misread>>
  BY Zenon DEF one_key_process

LEMMA HoldCases ==
  ASSUME key_hold_process
  PROVE  /\ Message("hold") /\ flag' = "" /\ UNCHANGED check
         /\ key_hold_switch_device("TV") \/ key_hold_switch_device("OTT") \/ Unpair \/ IrStudy \/ NoPair
  BY Zenon DEF key_hold_process

-----------------------------------------------------------------------------
(* The types.                                                              *)

LEMMA Posting ==
  ASSUME KeyTypes, NEW m \in Words
  PROVE  /\ Posted(queue, m) \in Seq(Words) /\ Len(Posted(queue, m)) <= MaxMsg
         /\ Len(queue) # MaxMsg => Posted(queue, m) = Append(queue, m)
         /\ Posted(queue, m) = Append(queue, m) \/ Posted(queue, m) = queue
<1>1. /\ Len(queue) \in Nat /\ Len(queue) <= MaxMsg /\ MaxMsg \in Nat
      /\ Append(queue, m) \in Seq(Words) /\ Len(Append(queue, m)) = Len(queue) + 1
  BY Added, BoundAssumption DEF KeyTypes
<1>2. Len(queue) < MaxMsg <=> Len(queue) # MaxMsg
  BY <1>1
<1>3. Len(queue) < MaxMsg => Len(Append(queue, m)) <= MaxMsg
  BY <1>1
<1> QED BY <1>1, <1>2, <1>3 DEF Posted, KeyTypes

\* What the four contexts besides the keypad and the task leave alone.
LEMMA Background ==
  ASSUME Step
  PROVE  \/ (\E c \in Chords \union {""} : app_keyscan_callback(c)) \/ RcuTask
         \/ key_hold_long_timer_callback
         \/ UNCHANGED <<held, queue, flag, check, voice, mic, lost>>
<1>1. CASE AppInit \/ pair_timer_callback \/ ir_study_timer_callback
  BY <1>1 DEF AppInit, pair_timer_callback, ir_study_timer_callback, keys, history
<1>2. CASE NotifyConnected \/ NotifyDisconnected \/ sle_pair_complete_cbk
  BY <1>2 DEF NotifyConnected, NotifyDisconnected, sle_pair_complete_cbk, SleCallback, keys, history
<1>3. CASE \E c \in Callers : Call(c) \/ CallNext(c)
  BY <1>3 DEF Call, CallNext, keys, history
<1>4. CASE standby_to_sleep \/ sleep_to_work
  BY <1>4 DEF standby_to_sleep, sleep_to_work, keys, history
<1>5. CASE \/ \E h \in Devices, i \in Ids : HostConnects(h, i)
           \/ \E i \in Ids : HostPairs(i) \/ LinkLost(i)
  BY <1>5 DEF HostConnects, HostPairs, LinkLost, keys, history
<1> QED BY <1>1, <1>2, <1>3, <1>4, <1>5, CallCases

LEMMA Timers ==
  ASSUME Step, timers \subseteq {"hold", "pair", "study"}
  PROVE  timers' \subseteq {"hold", "pair", "study"}
<1>1. CASE AppInit \/ (\E c \in Chords \union {""} : app_keyscan_callback(c))
  BY <1>1 DEF AppInit, app_keyscan_callback
<1>2. CASE key_hold_long_timer_callback \/ pair_timer_callback \/ ir_study_timer_callback
  BY <1>2 DEF key_hold_long_timer_callback, pair_timer_callback, ir_study_timer_callback
<1>3. CASE NotifyConnected \/ NotifyDisconnected \/ sle_pair_complete_cbk
  BY <1>3 DEF NotifyConnected, NotifyDisconnected, sle_pair_complete_cbk, SleCallback
<1>4. CASE \E c \in Callers : Call(c) \/ CallNext(c)
  BY <1>4 DEF Call, CallNext, CallOver
<1>5. CASE standby_to_sleep \/ sleep_to_work
  BY <1>5 DEF standby_to_sleep, sleep_to_work
<1>6. CASE \/ \E h \in Devices, i \in Ids : HostConnects(h, i)
           \/ \E i \in Ids : HostPairs(i) \/ LinkLost(i)
  BY <1>6 DEF HostConnects, HostPairs, LinkLost
<1>7. CASE RcuTask
  <2>1. CASE \E c \in Chords \ Combos : one_key_process(c)
    BY <2>1, KeyCases DEF InfraredKey
  <2>2. CASE (\E c \in Chords \intersect Combos : key_down_process(c)) \/ key_up_process
    BY <2>2 DEF key_down_process, key_up_process
  <2>3. CASE key_hold_process
    BY <2>3, HoldCases DEF key_hold_switch_device, Repair, pair_start_fun, Unpair, IrStudy, NoPair
  <2> QED BY <1>7, <2>1, <2>2, <2>3 DEF RcuTask
<1> QED BY <1>1, <1>2, <1>3, <1>4, <1>5, <1>6, <1>7, CallCases

LEMMA KeyTypesStep ==
  ASSUME Types, Step
  PROVE  KeyTypes'
<1>1. KeyTypes /\ timers' \subseteq {"hold", "pair", "study"}
  BY Timers DEF Types, KeyTypes
<1>2. CASE UNCHANGED <<held, queue, flag, check, voice, mic, lost>>
  BY <1>1, <1>2 DEF KeyTypes
<1>3. CASE \E c \in Chords \union {""} : app_keyscan_callback(c)
  <2>1. PICK c \in Chords \union {""} : app_keyscan_callback(c)
    BY <1>3
  <2> DEFINE m == IF c = "" THEN "up" ELSE c
  <2>2. m \in Words /\ queue' = Posted(queue, m) /\ held' = c
    BY <2>1 DEF app_keyscan_callback, Words
  <2> HIDE DEF m
  <2>3. UNCHANGED <<flag, check, voice, mic>> /\ lost' \in BOOLEAN
    BY <2>1 DEF app_keyscan_callback, keys
  <2> QED BY <1>1, <2>2, <2>3, Posting DEF KeyTypes
<1>4. CASE key_hold_long_timer_callback
  <2>1. "hold" \in Words /\ queue' = Posted(queue, "hold")
    BY <1>4 DEF key_hold_long_timer_callback, Words
  <2>2. UNCHANGED <<held, flag, check, voice, mic, lost>>
    BY <1>4 DEF key_hold_long_timer_callback, keys, history
  <2> QED BY <1>1, <2>1, <2>2, Posting DEF KeyTypes
<1>5. CASE RcuTask
  <2>1. PICK m \in Words :
           /\ Message(m)
           /\ \/ m \notin {"up", "hold"} /\ one_key_process(m)
              \/ m \notin {"up", "hold"} /\ m \in Combos /\ key_down_process(m)
              \/ m = "up" /\ key_up_process
              \/ m = "hold" /\ key_hold_process
    BY <1>5, TaskCases
  <2>2. queue # <<>> /\ queue' = Tail(queue) /\ held' = held /\ lost' = lost
    BY <2>1 DEF Message
  <2>3. queue' \in Seq(Words) /\ Len(queue') <= MaxMsg
    <3>1. queue' \in Seq(Words) /\ Len(queue) \in Nat /\ Len(queue') = Len(queue) - 1
      BY <1>1, <2>2, Served DEF KeyTypes
    <3>2. MaxMsg \in Nat /\ Len(queue) <= MaxMsg
      BY <1>1, BoundAssumption DEF KeyTypes
    <3> QED BY <3>1, <3>2
  <2>4. flag' \in Combos \union {""} /\ check' \subseteq Kinds /\ voice' \in BOOLEAN /\ mic' \in BOOLEAN
    <3>1. CASE one_key_process(m)
      <4>1. CASE InfraredKey(m)
        BY <1>1, <4>1 DEF InfraredKey, KeyTypes
      <4>2. CASE ReportKey(m) /\ UNCHANGED flag
        BY <1>1, <4>2 DEF ReportKey, KeyTypes, Kinds
      <4>3. CASE (VoiceKey \/ \E d \in Devices : key_switch_device(d)) /\ UNCHANGED flag
        BY <1>1, <4>3 DEF VoiceKey, key_switch_device, KeyTypes
      <4> QED BY <3>1, <4>1, <4>2, <4>3, KeyCases
    <3>2. CASE m \in Combos /\ key_down_process(m)
      BY <1>1, <3>2 DEF key_down_process, KeyTypes
    <3>3. CASE key_up_process
      BY <1>1, <3>3 DEF key_up_process, SleSendEnd, KeyTypes
    <3>4. CASE key_hold_process
      <4>1. flag' = "" /\ check' = check
        BY <3>4, HoldCases
      <4>2. voice' = voice /\ mic' \in {mic, FALSE}
        BY <3>4, HoldCases DEF key_hold_switch_device, Repair, Unpair, IrStudy, NoPair
      <4> QED BY <1>1, <4>1, <4>2 DEF KeyTypes
    <3> QED BY <2>1, <3>1, <3>2, <3>3, <3>4
  <2> QED BY <1>1, <2>2, <2>3, <2>4 DEF KeyTypes
<1> QED BY <1>2, <1>3, <1>4, <1>5, Background

LEMMA HistoriesStep ==
  ASSUME Types, Step, Noted
  PROVE  Histories'
<1>1. moved' \in BOOLEAN
  BY DEF Noted, Types, Histories
<1>2. lowpower' \in BOOLEAN /\ misread' \in BOOLEAN
  <2>1. lowpower \in BOOLEAN /\ misread \in BOOLEAN
    BY DEF Types, Histories
  <2>2. CASE AppInit \/ (\E c \in Chords \union {""} : app_keyscan_callback(c))
    BY <2>1, <2>2 DEF AppInit, app_keyscan_callback, history
  <2>3. CASE key_hold_long_timer_callback \/ pair_timer_callback \/ ir_study_timer_callback
    BY <2>1, <2>3 DEF key_hold_long_timer_callback, pair_timer_callback, ir_study_timer_callback,
                      Misread, history
  <2>4. CASE NotifyConnected \/ NotifyDisconnected \/ sle_pair_complete_cbk
    BY <2>1, <2>4 DEF NotifyConnected, NotifyDisconnected, sle_pair_complete_cbk, SleCallback, history
  <2>5. CASE \E c \in Callers : Call(c) \/ CallNext(c)
    BY <2>1, <2>5 DEF Call, CallNext, history
  <2>6. CASE standby_to_sleep \/ sleep_to_work
    BY <2>1, <2>6 DEF standby_to_sleep, sleep_to_work, history
  <2>7. CASE \/ \E h \in Devices, i \in Ids : HostConnects(h, i)
             \/ \E i \in Ids : HostPairs(i) \/ LinkLost(i)
    BY <2>1, <2>7 DEF HostConnects, HostPairs, LinkLost, history
  <2>8. CASE RcuTask
    <3>1. CASE \E c \in Chords \ Combos : one_key_process(c)
      BY <2>1, <3>1, KeyCases DEF InfraredKey
    <3>2. CASE (\E c \in Chords \intersect Combos : key_down_process(c)) \/ key_up_process
      BY <2>1, <3>2 DEF key_down_process, key_up_process
    <3>3. CASE key_hold_process
      BY <2>1, <3>3, HoldCases DEF key_hold_switch_device, Repair, pair_start_fun, Misread, Unpair, IrStudy, NoPair
    <3> QED BY <2>8, <3>1, <3>2, <3>3 DEF RcuTask
  <2> QED BY <2>2, <2>3, <2>4, <2>5, <2>6, <2>7, <2>8, CallCases
<1> QED BY <1>1, <1>2 DEF Histories

\* An announcement directed to the host of a row that has a link, or to the device called.
LEMMA Directing ==
  ASSUME StateTypes, RowTypes, NEW d \in Devices, NEW h \in Devices, DirectedAdvInit(d, h)
  PROVE  sleObj' \in Rows /\ air' \in Devices /\ status' \in [Ids -> Statuses]
  BY StatusTypes DEF DirectedAdvInit, Rows, Statuses

LEMMA PairStart ==
  ASSUME StateTypes, NEW d \in Devices, pair_start_fun(d)
  PROVE  air' \in Devices \union {"off", "pair"} /\ status' \in [Ids -> Statuses]
  BY StatusTypes DEF pair_start_fun, AdvInit, StateTypes, Statuses

\* Where the row of a host is.
LEMMA Indexed == \A h : con_index(h) \in Rows
  BY DEF con_index, Rows, Devices

\* The event the SLE task takes.
LEMMA Taken ==
  ASSUME StackTypes, NEW w, SleCallback(w)
  PROVE  /\ Head(cbs) \in Events /\ Head(cbs).id \in Ids /\ Head(cbs).host \in Devices
         /\ cbs' \in Seq(Events)
<1>1. Head(cbs) \in Events /\ cbs' \in Seq(Events)
  BY Served DEF SleCallback, StackTypes
<1> QED BY <1>1 DEF Events

LEMMA StateTypesStep ==
  ASSUME Types, Step
  PROVE  StateTypes'
<1>1. StateTypes /\ RowTypes /\ StackTypes
  BY DEF Types
<1> DEFINE Modes == {"IDLE", "IR_SEND", "IR_STUDY", "ADV_SEND"}
<1>2. CASE AppInit
  BY <1>1, <1>2 DEF AppInit, StateTypes, Statuses
<1>3. CASE (\E c \in Chords \union {""} : app_keyscan_callback(c)) \/ key_hold_long_timer_callback
  BY <1>1, <1>3 DEF app_keyscan_callback, key_hold_long_timer_callback, control, StateTypes
<1>4. CASE ir_study_timer_callback
  BY <1>1, <1>4 DEF ir_study_timer_callback, StateTypes
<1>5. CASE pair_timer_callback
  <2>1. status' \in [Ids -> Statuses] /\ air' \in Devices \union {"off", "pair"}
    BY <1>1, <1>5, StatusTypes DEF pair_timer_callback, AdvDeinit, StateTypes, Statuses
  <2> QED BY <1>1, <1>5, <2>1 DEF pair_timer_callback, StateTypes
<1>6. CASE NotifyConnected
  <2> DEFINE e == Head(cbs)
             r == IF con_index(e.host) = "NONE" THEN obj ELSE con_index(e.host)
  <2>1. UNCHANGED <<obj, sleObj, power>>
    BY <1>6 DEF NotifyConnected, SleCallback
  <2>2. status' = StatusSet(e.id, "CONNECTED") /\ air' = "off" /\ mode' = "ADV_SEND"
    BY <1>6 DEF NotifyConnected
  <2>3. cb' = [d \in Devices |-> IF d = r THEN "NONE" ELSE cb[d]]
    BY <1>6 DEF NotifyConnected
  <2>4. cb' \in [Devices -> Rows]
    BY <1>1, <2>3 DEF StateTypes, Rows
  <2>5. status' \in [Ids -> Statuses]
    BY <1>1, <2>2, StatusTypes DEF Statuses
  <2> QED BY <1>1, <2>1, <2>2, <2>4, <2>5 DEF StateTypes
<1>7. CASE NotifyDisconnected
  <2> DEFINE e == Head(cbs) r == con_index(e.host)
  <2>1. UNCHANGED <<obj, sleObj, power, mode, air>>
    BY <1>7 DEF NotifyDisconnected, SleCallback
  <2>2. status' = StatusSet(e.id, "DISCONNECT") /\ cb' = [d \in Devices |-> IF d = r THEN e.host ELSE cb[d]]
    BY <1>7 DEF NotifyDisconnected
  <2>3. e.host \in Rows
    BY <1>1, <1>7, Taken DEF NotifyDisconnected, Rows
  <2>4. cb' \in [Devices -> Rows]
    BY <1>1, <2>2, <2>3 DEF StateTypes
  <2>5. status' \in [Ids -> Statuses]
    BY <1>1, <2>2, StatusTypes DEF Statuses
  <2> QED BY <1>1, <2>1, <2>4, <2>5 DEF StateTypes
<1>8. CASE sle_pair_complete_cbk
  <2>1. UNCHANGED <<obj, sleObj, power, mode, air, cb>> /\ status' = StatusSet(Head(cbs).id, "PAIRED")
    BY <1>8 DEF sle_pair_complete_cbk, SleCallback
  <2>2. status' \in [Ids -> Statuses]
    BY <1>1, <2>1, StatusTypes DEF Statuses
  <2> QED BY <1>1, <2>1, <2>2 DEF StateTypes
<1>9. CASE \E c \in Callers : Call(c)
  <2>1. PICK c \in Callers : Call(c)
    BY <1>9
  <2> DEFINE d == Head(pc[c].todo)
  <2>2. UNCHANGED <<obj, mode, cb, power>>
    BY <2>1 DEF Call
  <2>3. pc[c].at = "call"
    BY <2>1 DEF Call
  <2>4. d \in Devices
    BY <2>3, HeadTailProperties DEF Types, CallTypes, Calls
  <2>5. CASE cb[d] # "NONE"
    <3>1. DirectedAdvInit(d, cb[d]) /\ cb[d] \in Devices
      BY <1>1, <2>1, <2>4, <2>5 DEF Call, StateTypes, Rows
    <3> QED BY <1>1, <2>2, <2>4, <3>1, Directing DEF StateTypes
  <2>6. CASE cb[d] = "NONE"
    <3>1. UNCHANGED <<sleObj, air, status>>
      BY <2>1, <2>6 DEF Call
    <3> QED BY <1>1, <2>2, <3>1 DEF StateTypes
  <2> QED BY <2>5, <2>6
<1>10. CASE \E c \in Callers : CallNext(c)
  <2>1. UNCHANGED <<obj, sleObj, mode, status, cb, power>> /\ air' \in {air, "off"}
    BY <1>10 DEF CallNext
  <2> QED BY <1>1, <2>1 DEF StateTypes
<1>11. CASE standby_to_sleep \/ sleep_to_work
  BY <1>1, <1>11 DEF standby_to_sleep, sleep_to_work, control, StateTypes
<1>12. CASE \/ \E h \in Devices, i \in Ids : HostConnects(h, i)
            \/ \E i \in Ids : HostPairs(i) \/ LinkLost(i)
  BY <1>1, <1>12 DEF HostConnects, HostPairs, LinkLost, control, StateTypes
<1>13. CASE RcuTask
  <2>1. UNCHANGED <<cb, power>>
    BY <1>13 DEF RcuTask, one_key_process, key_down_process, key_up_process, key_hold_process, Message
  <2>2. CASE \E c \in Chords \ Combos : one_key_process(c)
    <3>1. CASE \E c \in Chords : InfraredKey(c)
      BY <1>1, <2>1, <3>1 DEF InfraredKey, control, StateTypes
    <3>2. CASE (\E c \in Chords : ReportKey(c)) /\ UNCHANGED mode
      BY <1>1, <2>1, <3>2 DEF ReportKey, StateTypes
    <3>3. CASE VoiceKey /\ UNCHANGED mode
      BY <1>1, <2>1, <3>3 DEF VoiceKey, StateTypes
    <3>4. CASE (\E d \in Devices : key_switch_device(d)) /\ UNCHANGED mode
      <4>1. PICK d \in Devices : key_switch_device(d)
        BY <3>4
      <4>2. obj' = d /\ d \in Rows
        BY <4>1 DEF key_switch_device, Rows
      <4>3. CASE dev[d].type = "SLE" /\ DirectedAdvInit(d, dev[d].addr)
        <5>1. dev[d].addr \in Devices
          BY <1>1, <4>2, <4>3 DEF RowTypes
        <5>2. sleObj' \in Rows /\ air' \in Devices /\ status' \in [Ids -> Statuses]
          BY <1>1, <4>3, <5>1, Directing
        <5> QED BY <1>1, <2>1, <3>4, <4>2, <5>2 DEF StateTypes
      <4>4. CASE UNCHANGED <<sleObj, air, status>>
        BY <1>1, <2>1, <3>4, <4>2, <4>4 DEF StateTypes
      <4> QED BY <4>1, <4>3, <4>4 DEF key_switch_device
    <3> QED BY <2>2, <3>1, <3>2, <3>3, <3>4, KeyCases
  <2>3. CASE (\E c \in Chords \intersect Combos : key_down_process(c)) \/ key_up_process
    BY <1>1, <2>1, <2>3 DEF key_down_process, key_up_process, control, StateTypes
  <2>4. CASE \E d \in Devices : key_hold_switch_device(d)
    <3>1. PICK d \in Devices : key_hold_switch_device(d)
      BY <2>4
    <3>2. obj' = d /\ sleObj' = d /\ mode' = "ADV_SEND" /\ d \in Rows /\ pair_start_fun(d)
      BY <3>1 DEF key_hold_switch_device, Repair, Rows
    <3> QED BY <1>1, <2>1, <3>2, PairStart DEF StateTypes
  <2>5. CASE Unpair
    BY <1>1, <2>1, <2>5 DEF Unpair, StateTypes, Rows, Statuses
  <2>6. CASE IrStudy \/ NoPair
    BY <1>1, <2>1, <2>6 DEF IrStudy, NoPair, control, StateTypes
  <2>7. "TV" \in Devices /\ "OTT" \in Devices
    BY DEF Devices
  <2> QED BY <1>13, <2>2, <2>3, <2>4, <2>5, <2>6, <2>7, HoldCases DEF RcuTask
<1> QED BY <1>2, <1>3, <1>4, <1>5, <1>6, <1>7, <1>8, <1>9, <1>10, <1>11, <1>12, <1>13, CallCases

\* The table is written by the start, by unpairing, and by the SLE task.
LEMMA Table ==
  ASSUME Step
  PROVE  \/ UNCHANGED dev \/ AppInit \/ Unpair
         \/ NotifyConnected \/ NotifyDisconnected \/ Call("sle") \/ CallNext("sle")
<1>1. CASE \/ \E c \in Chords \union {""} : app_keyscan_callback(c)
           \/ key_hold_long_timer_callback \/ pair_timer_callback \/ ir_study_timer_callback
  BY <1>1 DEF app_keyscan_callback, key_hold_long_timer_callback, pair_timer_callback,
              ir_study_timer_callback, control
<1>2. CASE sle_pair_complete_cbk
  BY <1>2 DEF sle_pair_complete_cbk
<1>3. CASE Call("pm") \/ CallNext("pm")
  BY <1>3 DEF Call, CallNext, CallOver
<1>4. CASE standby_to_sleep \/ sleep_to_work
  BY <1>4 DEF standby_to_sleep, sleep_to_work, control
<1>5. CASE \/ \E h \in Devices, i \in Ids : HostConnects(h, i)
           \/ \E i \in Ids : HostPairs(i) \/ LinkLost(i)
  BY <1>5 DEF HostConnects, HostPairs, LinkLost, control
<1>6. CASE RcuTask
  <2>1. CASE \E c \in Chords \ Combos : one_key_process(c)
    BY <2>1, KeyCases DEF InfraredKey, control
  <2>2. CASE (\E c \in Chords \intersect Combos : key_down_process(c)) \/ key_up_process
    BY <2>2 DEF key_down_process, key_up_process, control
  <2>3. CASE key_hold_process
    BY <2>3, HoldCases DEF key_hold_switch_device, Repair, IrStudy, NoPair, control
  <2> QED BY <1>6, <2>1, <2>2, <2>3 DEF RcuTask
<1> QED BY <1>1, <1>2, <1>3, <1>4, <1>5, <1>6, CallCases DEF Callers

LEMMA RowTypesStep ==
  ASSUME Types, Step
  PROVE  RowTypes'
<1>1. StateTypes /\ RowTypes /\ StackTypes /\ CallTypes
  BY DEF Types
<1>2. CASE UNCHANGED dev
  BY <1>1, <1>2 DEF RowTypes
<1>3. CASE AppInit \/ Unpair
  BY <1>1, <1>3, RowsReset DEF AppInit, Unpair
<1>4. CASE NotifyConnected
  <2> DEFINE e == Head(cbs)
             r == IF con_index(e.host) = "NONE" THEN obj ELSE con_index(e.host)
  <2>1. e.id \in Ids /\ e.host \in Devices
    BY <1>1, <1>4, Taken DEF NotifyConnected
  <2>2. r \in Rows
    BY <1>1, Indexed DEF StateTypes
  <2>3. dev' = InfoSet(r, e.id, e.host)
    BY <1>4 DEF NotifyConnected
  <2> HIDE DEF e, r
  <2> QED BY <1>1, <2>1, <2>2, <2>3, RowWritten
<1>5. CASE NotifyDisconnected
  <2> DEFINE e == Head(cbs) r == con_index(e.host)
  <2>1. e.id \in Ids /\ e.host \in Devices
    BY <1>1, <1>5, Taken DEF NotifyDisconnected
  <2>2. r \in Rows
    BY Indexed
  <2>3. dev' = dev \/ dev' = InfoSet(r, e.id, e.host)
    BY <1>5 DEF NotifyDisconnected
  <2> HIDE DEF e, r
  <2> QED BY <1>1, <1>2, <2>1, <2>2, <2>3, RowWritten
<1>6. CASE Call("sle") \/ CallNext("sle")
  <2> DEFINE d == Head(pc["sle"].todo)
  <2>1. pc["sle"].at # "idle"
    BY <1>6 DEF Call, CallNext
  <2>2. dev' = dev \/ dev' = InfoSet(d, pc["sle"].id, pc["sle"].host)
    BY <1>6 DEF Call, CallNext, CallOver
  <2>3. pc["sle"].id \in Ids /\ pc["sle"].host \in Devices
    BY <1>1, <2>1 DEF CallTypes
  <2>4. d \in Rows
    BY <1>1, <2>1, HeadTailProperties DEF CallTypes, Calls, Callers, Rows
  <2> HIDE DEF d
  <2> QED BY <1>1, <1>2, <2>2, <2>3, <2>4, RowWritten
<1> QED BY <1>2, <1>3, <1>4, <1>5, <1>6, Table

\* What is said of one call.
Calling(c, p) ==
  /\ p \in Calls
  /\ p.at # "idle" => p.todo # <<>>
  /\ p.at = "call" => p.n < MaxCount
  /\ c = "sle" /\ p.at # "idle" => p.id \in Ids /\ p.host \in Devices

LEMMA IdleCalls == \A c : Calling(c, Idle)
<1>1. 0 \in 0 .. MaxCount /\ <<>> \in Seq(Devices)
  BY BoundAssumption, Empty
<1> QED BY <1>1 DEF Calling, Calls, Idle, Rows

LEMMA CallingAll == CallTypes <=> (pc \in [Callers -> Calls] /\ \A c \in Callers : Calling(c, pc[c]))
  BY DEF CallTypes, Calling, Callers

\* A call that begins, of the devices t.
LEMMA CallBegins ==
  ASSUME NEW c, NEW t \in Seq(Devices), t # <<>>, NEW i \in Ids \union {NoId}, NEW h \in Rows,
         c = "sle" => i \in Ids /\ h \in Devices
  PROVE  Calling(c, [at |-> "call", todo |-> t, n |-> 0, id |-> i, host |-> h])
<1>1. 0 \in 0 .. MaxCount /\ 0 < MaxCount
  BY BoundAssumption
<1> QED BY <1>1 DEF Calling, Calls

\* A record whose fields change, one field at a time.
Record(a, t, n, i, h) == [at |-> a, todo |-> t, n |-> n, id |-> i, host |-> h]

LEMMA AtChanges ==
  ASSUME NEW a, NEW t, NEW n, NEW i, NEW h, NEW x
  PROVE  [Record(a, t, n, i, h) EXCEPT !.at = x] = Record(x, t, n, i, h)
BY DEF Record

LEMMA TodoChanges ==
  ASSUME NEW a, NEW t, NEW n, NEW i, NEW h, NEW x
  PROVE  [Record(a, t, n, i, h) EXCEPT !.todo = x] = Record(a, x, n, i, h)
BY DEF Record

LEMMA CountChanges ==
  ASSUME NEW a, NEW t, NEW n, NEW i, NEW h, NEW x
  PROVE  [Record(a, t, n, i, h) EXCEPT !.n = x] = Record(a, t, x, i, h)
BY DEF Record

\* The power manager's first call.
LEMMA WakeBegins ==
  ASSUME NEW t \in Seq(Devices), t # <<>>
  PROVE  Calling("pm", [Idle EXCEPT !.at = "call", !.todo = t])
<1>1. [Idle EXCEPT !.at = "call", !.todo = t] = Record("call", t, 0, NoId, "NONE")
  <2>1. Idle = Record("idle", <<>>, 0, NoId, "NONE")
    BY DEF Idle, Record
  <2>2. [Idle EXCEPT !.at = "call"] = Record("call", <<>>, 0, NoId, "NONE")
    BY <2>1, AtChanges
  <2>3. [Record("call", <<>>, 0, NoId, "NONE") EXCEPT !.todo = t] = Record("call", t, 0, NoId, "NONE")
    BY TodoChanges
  <2>4. [Idle EXCEPT !.at = "call", !.todo = t] = [[Idle EXCEPT !.at = "call"] EXCEPT !.todo = t]
    BY Zenon
  <2> QED BY <2>2, <2>3, <2>4
<1>2. Calling("pm", Record("call", t, 0, NoId, "NONE"))
  BY CallBegins DEF Record, Rows
<1> QED BY <1>1, <1>2

\* And its next.
LEMMA WakeGoesOn ==
  ASSUME NEW c, NEW p \in Calls, Calling(c, p), p.at # "idle", Len(p.todo) # 1
  PROVE  Calling(c, [p EXCEPT !.at = "call", !.todo = Tail(p.todo), !.n = 0])
<1> DEFINE t == Tail(p.todo)
<1>1. p.todo \in Seq(Devices) /\ p.todo # <<>>
  BY DEF Calling, Calls
<1>2. t \in Seq(Devices) /\ Len(p.todo) \in Nat \ {0} /\ Len(t) = Len(p.todo) - 1
  BY <1>1, Served
<1>3. t # <<>>
  <2>1. Len(t) # 0
    BY <1>2
  <2> QED BY <2>1, Empty
<1> HIDE DEF t
<1>4. p = Record(p.at, p.todo, p.n, p.id, p.host)
  BY DEF Calls, Record
<1>5. [p EXCEPT !.at = "call", !.todo = t, !.n = 0] = Record("call", t, 0, p.id, p.host)
  <2>1. [p EXCEPT !.at = "call"] = Record("call", p.todo, p.n, p.id, p.host)
    BY <1>4, AtChanges
  <2>2. [Record("call", p.todo, p.n, p.id, p.host) EXCEPT !.todo = t]
          = Record("call", t, p.n, p.id, p.host)
    BY TodoChanges
  <2>3. [Record("call", t, p.n, p.id, p.host) EXCEPT !.n = 0] = Record("call", t, 0, p.id, p.host)
    BY CountChanges
  <2>4. [p EXCEPT !.at = "call", !.todo = t, !.n = 0]
          = [[[p EXCEPT !.at = "call"] EXCEPT !.todo = t] EXCEPT !.n = 0]
    BY Zenon
  <2> QED BY <2>1, <2>2, <2>3, <2>4
<1>6. p.id \in Ids \union {NoId} /\ p.host \in Rows /\ (c = "sle" => p.id \in Ids /\ p.host \in Devices)
  BY DEF Calls, Calling
<1>7. Calling(c, Record("call", t, 0, p.id, p.host))
  BY <1>2, <1>3, <1>6, CallBegins DEF Record
<1> QED BY <1>5, <1>7 DEF t

LEMMA CallTypesStep ==
  ASSUME Types, Step
  PROVE  CallTypes'
<1>1. StateTypes /\ RowTypes /\ StackTypes /\ CallTypes
  BY DEF Types
<1>2. ASSUME NEW c \in Callers, NEW p, Calling(c, p), pc' = [pc EXCEPT ![c] = p]
      PROVE  CallTypes'
  <2>1. pc \in [Callers -> Calls] /\ \A b \in Callers : Calling(b, pc[b])
    BY <1>1, CallingAll
  <2>2. pc' \in [Callers -> Calls] /\ \A b \in Callers : Calling(b, pc'[b])
    BY <1>2, <2>1 DEF Calling
  <2>3. CallTypes' <=> (pc' \in [Callers -> Calls] /\ \A b \in Callers : Calling(b, pc'[b]))
    BY DEF CallTypes, Calling, Callers
  <2> QED BY <2>2, <2>3
<1>3. CASE UNCHANGED pc
  BY <1>1, <1>3 DEF CallTypes
<1>4. CASE \/ AppInit \/ (\E c \in Chords \union {""} : app_keyscan_callback(c))
           \/ key_hold_long_timer_callback \/ pair_timer_callback \/ ir_study_timer_callback
           \/ NotifyConnected \/ sle_pair_complete_cbk \/ standby_to_sleep
  BY <1>3, <1>4 DEF AppInit, app_keyscan_callback, key_hold_long_timer_callback,
       pair_timer_callback, ir_study_timer_callback, NotifyConnected, sle_pair_complete_cbk,
       standby_to_sleep
<1>5. CASE \/ \E h \in Devices, i \in Ids : HostConnects(h, i)
           \/ \E i \in Ids : HostPairs(i) \/ LinkLost(i)
  BY <1>3, <1>5 DEF HostConnects, HostPairs, LinkLost
<1>6. CASE RcuTask
  BY <1>3, <1>6 DEF RcuTask, one_key_process, key_down_process, key_up_process, key_hold_process, Message
<1>7. CASE NotifyDisconnected
  <2> DEFINE e == Head(cbs) r == con_index(e.host)
             p == [at |-> "call", todo |-> <<r>>, n |-> 0, id |-> e.id, host |-> e.host]
  <2>1. e.id \in Ids /\ e.host \in Devices
    BY <1>1, <1>7, Taken DEF NotifyDisconnected
  <2>2. CASE r # "NONE" /\ ~lowpower
    <3>1. <<r>> \in Seq(Devices) /\ <<r>> # <<>>
      BY <2>2, Indexed DEF Rows
    <3>2. Calling("sle", p)
      BY <2>1, <3>1, CallBegins DEF Rows
    <3>3. pc' = [pc EXCEPT !["sle"] = p]
      BY <1>7, <2>2 DEF NotifyDisconnected
    <3> HIDE DEF p
    <3> QED BY <1>2, <3>2, <3>3 DEF Callers
  <2>3. CASE ~(r # "NONE" /\ ~lowpower)
    BY <1>3, <1>7, <2>3 DEF NotifyDisconnected
  <2> QED BY <2>2, <2>3
<1>8. CASE sleep_to_work
  <2> DEFINE one(d) == IF dev[d].type = "SLE" THEN <<d>> ELSE <<>>
             todo == one("TV") \o one("OTT")
             p == [Idle EXCEPT !.at = "call", !.todo = todo]
  <2>1. todo \in Seq(Devices)
    <3>1. one("TV") \in Seq(Devices) /\ one("OTT") \in Seq(Devices)
      <4>1. <<"TV">> \in Seq(Devices) /\ <<"OTT">> \in Seq(Devices)
        BY DEF Devices
      <4>2. <<>> \in Seq(Devices)
        BY Empty
      <4> QED BY <4>1, <4>2
    <3> HIDE DEF one
    <3> QED BY <3>1, ConcatProperties
  <2>2. pc' = [pc EXCEPT !["pm"] = IF todo = <<>> THEN Idle ELSE p]
    BY <1>8 DEF sleep_to_work
  <2> HIDE DEF todo
  <2>3. ASSUME todo # <<>> PROVE Calling("pm", p)
    BY <2>1, <2>3, WakeBegins
  <2> HIDE DEF p
  <2>4. Calling("pm", IF todo = <<>> THEN Idle ELSE p)
    BY <2>3, IdleCalls
  <2> QED BY <1>2, <2>2, <2>4 DEF Callers
<1>9. ASSUME NEW c \in Callers, pc[c].at # "idle", CallOver(c)
      PROVE  CallTypes'
  <2>1. Calling(c, pc[c])
    BY <1>1, CallingAll
  <2>2. CASE c = "sle"
    BY <1>2, <1>9, <2>2, IdleCalls DEF CallOver
  <2>3. CASE c # "sle" /\ Len(pc[c].todo) = 1
    BY <1>2, <1>9, <2>3, IdleCalls DEF CallOver
  <2>4. CASE c # "sle" /\ Len(pc[c].todo) # 1
    <3> DEFINE p == [pc[c] EXCEPT !.at = "call", !.todo = Tail(pc[c].todo), !.n = 0]
    <3>1. pc' = [pc EXCEPT ![c] = IF Len(pc[c].todo) = 1 THEN Idle ELSE p]
      BY <1>9, <2>4, Zenon DEF CallOver
    <3>2. pc[c] \in Calls
      BY <2>1 DEF Calling
    <3>3. Calling(c, p)
      BY <1>9, <2>1, <2>4, <3>2, WakeGoesOn
    <3> HIDE DEF p
    <3> QED BY <1>2, <2>4, <3>1, <3>3
  <2> QED BY <2>2, <2>3, <2>4
<1>10. CASE \E c \in Callers : Call(c)
  <2>1. PICK c \in Callers : Call(c)
    BY <1>10
  <2>2. pc[c].at = "call"
    BY <2>1 DEF Call
  <2> DEFINE p == [pc[c] EXCEPT !.at = "wait", !.n = pc[c].n + 1]
  <2>3. pc' = [pc EXCEPT ![c] = p] \/ CallOver(c)
    <3>1. pc' = [pc EXCEPT ![c].at = "wait", ![c].n = @ + 1] \/ CallOver(c)
      BY <2>1 DEF Call
    <3> QED BY <1>1, <3>1 DEF CallTypes
  <2>4. Calling(c, p)
    <3>1. Calling(c, pc[c]) /\ pc[c].n \in 0 .. MaxCount /\ pc[c].n < MaxCount
      BY <1>1, <2>2, CallingAll DEF CallTypes, Calls
    <3>2. pc[c].n + 1 \in 0 .. MaxCount
      BY <3>1, BoundAssumption
    <3> QED BY <2>2, <3>1, <3>2 DEF Calling, Calls
  <2> HIDE DEF p
  <2> QED BY <1>2, <1>9, <2>2, <2>3, <2>4
<1>11. CASE \E c \in Callers : CallNext(c)
  <2>1. PICK c \in Callers : CallNext(c)
    BY <1>11
  <2>2. pc[c].at = "wait"
    BY <2>1 DEF CallNext
  <2> DEFINE p == [pc[c] EXCEPT !.at = "call"]
  <2>3. CASE pc[c].n = MaxCount
    BY <1>9, <2>1, <2>2, <2>3 DEF CallNext
  <2>4. CASE pc[c].n # MaxCount
    <3>1. pc' = [pc EXCEPT ![c] = p]
      BY <1>1, <2>1, <2>4 DEF CallNext, CallTypes
    <3>2. Calling(c, pc[c]) /\ pc[c].n \in 0 .. MaxCount /\ pc[c].n # MaxCount
      BY <1>1, <2>4, CallingAll DEF CallTypes, Calls
    <3>3. pc[c].n < MaxCount
      BY <3>2, BoundAssumption
    <3>4. Calling(c, p)
      BY <2>2, <3>2, <3>3 DEF Calling, Calls
    <3> HIDE DEF p
    <3> QED BY <1>2, <3>1, <3>4
  <2> QED BY <2>3, <2>4
<1> QED BY <1>4, <1>5, <1>6, <1>7, <1>8, <1>10, <1>11, CallCases

\* What the steps do to the stack and to the hosts.
LEMMA StackCases ==
  ASSUME Step
  PROVE  \/ UNCHANGED stack
         \/ UNCHANGED <<links, pressed>> /\ \E w : SleCallback(w)
         \/ RcuTask
         \/ standby_to_sleep
         \/ \E h \in Devices, i \in Ids : HostConnects(h, i)
         \/ \E i \in Ids : HostPairs(i) \/ LinkLost(i)
<1>1. CASE \/ AppInit \/ (\E c \in Chords \union {""} : app_keyscan_callback(c))
           \/ key_hold_long_timer_callback \/ pair_timer_callback \/ ir_study_timer_callback
           \/ sleep_to_work
  BY <1>1 DEF AppInit, app_keyscan_callback, key_hold_long_timer_callback, pair_timer_callback,
              ir_study_timer_callback, sleep_to_work
<1>2. CASE NotifyConnected
  BY <1>2 DEF NotifyConnected, SleCallback
<1>3. CASE NotifyDisconnected
  BY <1>3 DEF NotifyDisconnected, SleCallback
<1>4. CASE sle_pair_complete_cbk
  BY <1>4 DEF sle_pair_complete_cbk, SleCallback
<1>5. CASE \E c \in Callers : Call(c) \/ CallNext(c)
  BY <1>5 DEF Call, CallNext
<1> QED BY <1>1, <1>2, <1>3, <1>4, <1>5, CallCases

\* What the task does to them.
LEMMA TaskStack ==
  ASSUME RcuTask
  PROVE  \/ UNCHANGED stack
         \/ UNCHANGED <<links, cbs, obj, dev>> /\ \E c \in Chords : Message(c) /\ ReportKey(c)
         \/ UNCHANGED <<links, cbs, check>> /\ \E d \in Devices \union {obj} : EmptyReport(d)
         \/ UNCHANGED <<links, cbs, obj, dev>> /\ Message("up") /\ dev[obj].type = "SLE" /\ SleSendEnd
         \/ UNCHANGED check /\ \E ds \in SUBSET Devices : Cut(ds)
<1>1. CASE \E c \in Chords \ Combos : one_key_process(c)
  <2>1. PICK c \in Chords \ Combos : one_key_process(c)
    BY <1>1
  <2>2. CASE InfraredKey(c)
    BY <2>2 DEF InfraredKey
  <2>3. CASE ReportKey(c) /\ UNCHANGED <<dev, links, cbs>>
    <3>1. Message(c)
      BY <2>1, KeyCases
    <3> QED BY <2>3, <3>1 DEF ReportKey
  <2>4. CASE VoiceKey /\ UNCHANGED <<links, cbs>>
    BY <2>4 DEF VoiceKey
  <2>5. CASE (\E d \in Devices : key_switch_device(d)) /\ UNCHANGED <<links, cbs>>
    BY <2>5 DEF key_switch_device
  <2> QED BY <2>1, <2>2, <2>3, <2>4, <2>5, KeyCases
<1>2. CASE \E c \in Chords \intersect Combos : key_down_process(c)
  BY <1>2 DEF key_down_process
<1>3. CASE key_up_process
  BY <1>3 DEF key_up_process, control, stack
<1>4. CASE key_hold_process
  <2>1. UNCHANGED check
    BY <1>4, HoldCases
  <2>2. CASE key_hold_switch_device("TV") \/ key_hold_switch_device("OTT") \/ Unpair
    BY <2>1, <2>2 DEF key_hold_switch_device, Repair, Unpair, Devices
  <2>3. CASE IrStudy \/ NoPair
    BY <2>3 DEF IrStudy, NoPair
  <2> QED BY <1>4, <2>2, <2>3, HoldCases
<1> QED BY <1>1, <1>2, <1>3, <1>4 DEF RcuTask

LEMMA ReportedTypes ==
  ASSUME StackTypes, NEW i, NEW down \in SUBSET Kinds, NEW up
  PROVE  Reported(i, down, up) \in [Devices -> SUBSET Kinds]
  BY DEF StackTypes, Reported

LEMMA StackTypesStep ==
  ASSUME Types, Step
  PROVE  StackTypes'
<1>1. StackTypes /\ RowTypes
  BY DEF Types
<1>2. CASE UNCHANGED stack
  BY <1>1, <1>2 DEF stack, StackTypes
<1>3. CASE UNCHANGED <<links, pressed>> /\ \E w : SleCallback(w)
  <2>1. cbs' \in Seq(Events)
    BY <1>1, <1>3, Taken
  <2> QED BY <1>1, <1>3, <2>1 DEF StackTypes
<1>4. CASE RcuTask
  <2>1. CASE UNCHANGED <<links, cbs>> /\ pressed' \in [Devices -> SUBSET Kinds]
    BY <1>1, <2>1 DEF StackTypes
  <2>2. CASE UNCHANGED <<links, cbs>> /\ \E c \in Chords : ReportKey(c)
    <3>1. PICK c \in Chords : ReportKey(c)
      BY <2>2
    <3> DEFINE kind == IF c = "volume" THEN "consumer" ELSE "keyboard"
    <3>2. {kind} \in SUBSET Kinds
      BY DEF Kinds
    <3>3. pressed' = IF dev[obj].type = "SLE"
                       THEN Reported(dev[obj].id, {kind}, check \intersect {"keyboard"}) ELSE pressed
      BY <3>1 DEF ReportKey
    <3> HIDE DEF kind
    <3> QED BY <1>1, <2>1, <2>2, <3>2, <3>3, ReportedTypes DEF StackTypes
  <2>3. CASE UNCHANGED <<links, cbs>> /\ \E d \in Devices \union {obj} : EmptyReport(d)
    <3>1. \A i, up : Reported(i, {}, up) \in [Devices -> SUBSET Kinds]
      BY <1>1, ReportedTypes
    <3>2. pressed \in [Devices -> SUBSET Kinds]
      BY <1>1 DEF StackTypes
    <3> QED BY <2>1, <2>3, <3>1, <3>2 DEF EmptyReport
  <2>4. CASE UNCHANGED <<links, cbs>> /\ SleSendEnd
    BY <1>1, <2>1, <2>4, ReportedTypes DEF SleSendEnd
  <2> QED BY <1>1, <1>2, <1>4, <2>2, <2>3, <2>4, CutTypes, TaskStack
<1>5. CASE standby_to_sleep
  BY <1>1, <1>5, CutTypes DEF standby_to_sleep
<1>6. CASE \E h \in Devices, i \in Ids : HostConnects(h, i)
  <2>1. PICK h \in Devices, i \in Ids : HostConnects(h, i)
    BY <1>6
  <2>2. Cb("connected", i, h) \in Events
    BY DEF Cb, Events
  <2>3. cbs' \in Seq(Events)
    BY <1>1, <2>1, <2>2, Added DEF HostConnects, StackTypes
  <2> QED BY <1>1, <2>1, <2>3 DEF HostConnects, StackTypes, Rows
<1>7. CASE \E i \in Ids : HostPairs(i) \/ LinkLost(i)
  <2>1. PICK i \in Ids : HostPairs(i) \/ LinkLost(i)
    BY <1>7
  <2>2. links[i] \in Devices
    BY <1>1, <2>1 DEF HostPairs, LinkLost, StackTypes, Rows
  <2>3. Cb("paired", i, links[i]) \in Events /\ Cb("disconnected", i, links[i]) \in Events
    BY <2>2 DEF Cb, Events
  <2>4. cbs' \in Seq(Events)
    BY <1>1, <2>1, <2>3, Added DEF HostPairs, LinkLost, StackTypes
  <2>5. links' \in [Ids -> Rows] /\ pressed' \in [Devices -> SUBSET Kinds]
    BY <1>1, <2>1, <2>2 DEF HostPairs, LinkLost, StackTypes, Rows
  <2> QED BY <2>4, <2>5 DEF StackTypes
<1> QED BY <1>2, <1>3, <1>4, <1>5, <1>6, <1>7, StackCases

LEMMA TypesStep ==
  ASSUME Types, Step, Noted
  PROVE  Types'
BY KeyTypesStep, HistoriesStep, RowTypesStep, StateTypesStep, CallTypesStep, StackTypesStep
   DEF Types

-----------------------------------------------------------------------------
(* The keys that are down at the hosts.                                    *)

\* No key goes down at a host, and a host that still sees one keeps its link.
Softer ==
  \A h \in Devices :
    /\ pressed'[h] \subseteq pressed[h]
    /\ pressed'[h] # {} => \A i \in Ids : links[i] = h => links'[i] = h

LEMMA ReportedSofter ==
  ASSUME StackTypes, NEW i, NEW up, pressed' = Reported(i, {}, up), links' = links
  PROVE  Softer
  BY DEF StackTypes, Reported, Softer

LEMMA CutSofter ==
  ASSUME StackTypes, NEW ds, Cut(ds)
  PROVE  Softer
<1> DEFINE hosts == {dev[d].addr : d \in {d \in ds : dev[d].type = "SLE"}}
           gone == {i \in Ids : links[i] \in hosts}
<1>1. /\ links' = [i \in Ids |-> IF i \in gone THEN "NONE" ELSE links[i]]
      /\ pressed' = [h \in Devices |-> IF \E i \in gone : links[i] = h THEN {} ELSE pressed[h]]
  BY DEF Cut
<1> HIDE DEF gone
<1>2. ASSUME NEW h \in Devices
      PROVE  /\ pressed'[h] \subseteq pressed[h]
             /\ pressed'[h] # {} => \A i \in Ids : links[i] = h => links'[i] = h
  BY <1>1
<1> QED BY <1>2 DEF Softer

\* Nobody but the task presses a key at a host, or forgets a kind.
LEMMA ElseSofter ==
  ASSUME Types, Step, ~RcuTask
  PROVE  Softer /\ check \subseteq check'
<1>1. StackTypes
  BY DEF Types
<1> SUFFICES Softer
  <2>1. CASE (\E c \in Chords \union {""} : app_keyscan_callback(c)) \/ key_hold_long_timer_callback
    BY <2>1 DEF app_keyscan_callback, key_hold_long_timer_callback, keys
  <2> QED BY <2>1, Background
<1>2. CASE UNCHANGED <<links, pressed>>
  BY <1>1, <1>2 DEF Softer
<1>3. CASE standby_to_sleep
  BY <1>1, <1>3, CutSofter DEF standby_to_sleep
<1>4. CASE \E h \in Devices, i \in Ids : HostConnects(h, i)
  <2>1. PICK g \in Devices, j \in Ids : HostConnects(g, j)
    BY <1>4
  <2>2. links' = [links EXCEPT ![j] = g] /\ links[j] = "NONE" /\ pressed' = pressed
    BY <2>1 DEF HostConnects
  <2> QED BY <1>1, <2>2 DEF StackTypes, Softer, Devices
<1>5. CASE \E i \in Ids : LinkLost(i)
  <2>1. PICK j \in Ids : LinkLost(j)
    BY <1>5
  <2>2. links' = [links EXCEPT ![j] = "NONE"] /\ pressed' = [pressed EXCEPT ![links[j]] = {}]
    BY <2>1 DEF LinkLost
  <2> QED BY <1>1, <2>2 DEF StackTypes, Softer
<1>6. CASE \E i \in Ids : HostPairs(i)
  BY <1>2, <1>6 DEF HostPairs
<1> QED BY <1>2, <1>3, <1>4, <1>5, <1>6, StackCases DEF stack

\* Only a report of a key is not softer, and only the end of a key forgets a kind.
LEMMA SofterStep ==
  ASSUME Types, Step
  PROVE  \/ Softer /\ check \subseteq check'
         \/ UNCHANGED <<links, obj, dev>> /\ \E c \in Chords : Message(c) /\ ReportKey(c)
         \/ UNCHANGED <<links, obj, dev>> /\ Message("up") /\ dev[obj].type = "SLE" /\ SleSendEnd
<1>1. StackTypes
  BY DEF Types
<1>2. UNCHANGED stack => Softer
  BY <1>1 DEF stack, Softer
<1>3. CASE RcuTask
  <2>1. CASE UNCHANGED stack
    <3>1. check \subseteq check' \/ key_up_process
      <4>1. CASE \E c \in Chords \ Combos : one_key_process(c)
        BY <4>1, KeyCases DEF InfraredKey, ReportKey, VoiceKey, key_switch_device
      <4>2. CASE (\E c \in Chords \intersect Combos : key_down_process(c)) \/ key_hold_process
        BY <4>2, HoldCases DEF key_down_process
      <4> QED BY <1>3, <4>1, <4>2 DEF RcuTask
    <3>2. ASSUME key_up_process
          PROVE  \/ check' = check
                 \/ /\ UNCHANGED <<links, obj, dev>> /\ Message("up")
                    /\ dev[obj].type = "SLE" /\ SleSendEnd
      BY <3>2 DEF key_up_process, control
    <3> QED BY <1>2, <2>1, <3>1, <3>2
  <2>2. CASE UNCHANGED <<links, check>> /\ \E d \in Devices \union {obj} : EmptyReport(d)
    BY <1>1, <2>2, ReportedSofter DEF EmptyReport, Softer
  <2>3. CASE UNCHANGED check /\ \E ds \in SUBSET Devices : Cut(ds)
    BY <1>1, <2>3, CutSofter
  <2> QED BY <1>3, <2>1, <2>2, <2>3, TaskStack
<1> QED BY <1>3, ElseSofter

\* The end of a key releases what is down.
LEMMA EndSilences ==
  ASSUME Types, Directed, ~moved, dev[obj].type = "SLE", SleSendEnd
  PROVE  \A h \in Devices : pressed'[h] = {}
<1>1. Active = dev[obj].id
  BY DEF Active
<1>2. ASSUME NEW h \in Devices PROVE pressed'[h] = {}
  <2>1. pressed'[h] = IF Active \in Ids /\ links[Active] = h THEN pressed[h] \ check ELSE pressed[h]
    BY <1>1 DEF SleSendEnd, Reported
  <2>2. pressed[h] # {} => Active \in Ids /\ links[Active] = h /\ pressed[h] \subseteq check
    BY DEF Directed
  <2> QED BY <2>1, <2>2
<1> QED BY <1>2

\* Without a link for the keys no host sees one.
LEMMA NoLinkNoKey ==
  ASSUME Directed, ~moved, dev[obj].type # "SLE"
  PROVE  \A h \in Devices : pressed[h] = {}
  BY IdCases DEF Directed, Active

LEMMA DirectedStep ==
  ASSUME Types, Directed, Step, Noted
  PROVE  Directed'
<1> SUFFICES ASSUME ~moved', NEW h \in Devices, pressed'[h] # {}
             PROVE  Active' \in Ids /\ links'[Active'] = h /\ pressed'[h] \subseteq check'
  BY DEF Directed
<1>1. ~moved /\ (Active' = Active \/ \A g \in Devices : pressed[g] = {})
  BY DEF Noted
<1>2. pressed[h] # {} => Active \in Ids /\ links[Active] = h /\ pressed[h] \subseteq check
  BY <1>1 DEF Directed
<1>3. CASE Softer /\ check \subseteq check'
  <2>1. pressed[h] # {} /\ pressed'[h] \subseteq pressed[h]
    BY <1>3 DEF Softer
  <2>2. Active' = Active
    BY <1>1, <2>1
  <2>3. links'[Active] = h
    BY <1>2, <1>3, <2>1 DEF Softer
  <2> QED BY <1>2, <1>3, <2>1, <2>2, <2>3
<1>4. CASE UNCHANGED <<links, obj, dev>> /\ \E c \in Chords : ReportKey(c)
  <2>1. PICK c \in Chords : ReportKey(c)
    BY <1>4
  <2> DEFINE kind == IF c = "volume" THEN "consumer" ELSE "keyboard"
  <2>2. Active' = Active
    BY <1>4 DEF Active
  <2>3. CASE dev[obj].type = "SLE"
    <3>1. Active = dev[obj].id
      BY <2>3 DEF Active
    <3>2. check' = check \union {kind}
      BY <2>1, <2>3 DEF ReportKey
    <3>3. pressed' = Reported(Active, {kind}, check \intersect {"keyboard"})
      BY <2>1, <2>3, <3>1 DEF ReportKey
    <3> HIDE DEF kind
    <3>4. pressed'[h] = IF Active \in Ids /\ links[Active] = h
                          THEN (pressed[h] \ (check \intersect {"keyboard"})) \union {kind} ELSE pressed[h]
      BY <3>3 DEF Reported
    <3>5. Active \in Ids /\ links[Active] = h
      BY <1>2, <3>4
    <3>6. pressed'[h] \subseteq check'
      BY <1>2, <3>2, <3>4, <3>5
    <3> QED BY <1>4, <2>2, <3>5, <3>6
  <2>4. CASE dev[obj].type # "SLE"
    <3>1. pressed'[h] = {}
      BY <1>1, <2>1, <2>4, NoLinkNoKey DEF ReportKey
    <3> QED BY <3>1
  <2> QED BY <2>3, <2>4
<1>5. CASE dev[obj].type = "SLE" /\ SleSendEnd
  BY <1>1, <1>5, EndSilences
<1> QED BY <1>3, <1>4, <1>5, SofterStep

-----------------------------------------------------------------------------
(* What the task was told of the keypad.                                   *)

\* What the steps besides the task's do to the voice.
LEMMA VoiceElse ==
  ASSUME Step, ~RcuTask
  PROVE  UNCHANGED <<voice, mic>>
<1>1. CASE (\E c \in Chords \union {""} : app_keyscan_callback(c)) \/ key_hold_long_timer_callback
  BY <1>1 DEF app_keyscan_callback, key_hold_long_timer_callback, keys
<1> QED BY <1>1, Background

LEMMA ListensStep ==
  ASSUME Types, Listens, Step
  PROVE  Listens'
<1>1. voice \in BOOLEAN /\ mic \in BOOLEAN
  BY DEF Types, KeyTypes
<1>2. CASE ~RcuTask
  BY <1>2, VoiceElse DEF Listens
<1>3. CASE \E c \in Chords \ Combos : one_key_process(c)
  BY <1>1, <1>3, KeyCases DEF InfraredKey, ReportKey, VoiceKey, key_switch_device, Listens
<1>4. CASE (\E c \in Chords \intersect Combos : key_down_process(c)) \/ key_up_process
  BY <1>1, <1>4 DEF key_down_process, key_up_process, Listens
<1>5. CASE key_hold_process
  BY <1>1, <1>5, HoldCases DEF key_hold_switch_device, Repair, Unpair, IrStudy, NoPair, Listens
<1> QED BY <1>2, <1>3, <1>4, <1>5 DEF RcuTask

LEMMA QuietKept ==
  ASSUME Quiet, Types, Noted, Softer, voice' => voice, mic' => mic
  PROVE  Quiet'
<1>1. moved => moved'
  BY DEF Noted
<1>2. \A h \in Devices : pressed[h] = {} => pressed'[h] = {}
  BY DEF Softer
<1> QED BY <1>1, <1>2 DEF Quiet

LEMMA SeenStep ==
  ASSUME Types, Listens, Directed, Seen, Step, Noted
  PROVE  Seen'
<1> DEFINE Knows(q, w) == Told(q, w) /\ (held' = "" /\ NoKeys(q) => Quiet')
<1>1. SUFFICES ASSUME ~lost' PROVE Knows(queue', Shown')
  BY DEF Seen
<1>2. queue \in Seq(Words) /\ KeyTypes
  BY DEF Types, KeyTypes
<1>3. CASE \E c \in Chords \union {""} : app_keyscan_callback(c)
  <2>1. PICK c \in Chords \union {""} : app_keyscan_callback(c)
    BY <1>3
  <2> DEFINE m == IF c = "" THEN "up" ELSE c
  <2>2. m \in Words /\ m # "hold" /\ queue' = Posted(queue, m) /\ Shown' = m
    BY <2>1, WordCases DEF app_keyscan_callback, Words, Shown
  <2> HIDE DEF m
  <2>3. Len(queue) # MaxMsg
    BY <1>1, <2>1 DEF app_keyscan_callback
  <2>4. queue' = Append(queue, m)
    BY <1>2, <2>2, <2>3, Posting
  <2>5. Told(Append(queue, m), m) /\ ~NoKeys(Append(queue, m))
    BY <1>2, <2>2, ToldAppend
  <2> QED BY <2>2, <2>4, <2>5
<1>4. ASSUME ~RcuTask, UNCHANGED <<held, lost>>
      PROVE  Told(queue, Shown) /\ Shown' = Shown /\ (held' = "" /\ NoKeys(queue) => Quiet')
  <2>1. ~lost /\ Shown' = Shown /\ held' = held
    BY <1>1, <1>4 DEF Shown
  <2>2. Quiet => Quiet'
    BY <1>4, ElseSofter, VoiceElse, QuietKept
  <2> QED BY <2>1, <2>2 DEF Seen
<1>5. CASE ~RcuTask /\ key_hold_long_timer_callback
  <2>1. UNCHANGED <<held, lost>> /\ queue' = Posted(queue, "hold")
    BY <1>5 DEF key_hold_long_timer_callback, history
  <2>2. "hold" \in Words
    BY DEF Words
  <2>3. queue' = queue \/ queue' = Append(queue, "hold")
    BY <1>2, <2>1, <2>2, Posting
  <2>4. /\ Told(queue, Shown) => Told(Append(queue, "hold"), Shown)
        /\ NoKeys(Append(queue, "hold")) => NoKeys(queue)
    BY <1>2, <2>2, ToldAppend
  <2>5. Told(queue, Shown) /\ Shown' = Shown /\ (held' = "" /\ NoKeys(queue) => Quiet')
    BY <1>4, <1>5, <2>1
  <2> QED BY <2>3, <2>4, <2>5
<1>6. CASE ~RcuTask /\ UNCHANGED <<held, queue, flag, check, voice, mic, lost>>
  <2>1. Told(queue, Shown) /\ Shown' = Shown /\ (held' = "" /\ NoKeys(queue) => Quiet')
    BY <1>4, <1>6
  <2> QED BY <1>6, <2>1
<1>7. CASE RcuTask
  <2>1. PICK m \in Words :
           /\ Message(m)
           /\ \/ m \notin {"up", "hold"} /\ one_key_process(m)
              \/ m \notin {"up", "hold"} /\ m \in Combos /\ key_down_process(m)
              \/ m = "up" /\ key_up_process
              \/ m = "hold" /\ key_hold_process
    BY <1>7, TaskCases
  <2>2. queue # <<>> /\ Head(queue) = m /\ queue' = Tail(queue) /\ UNCHANGED <<held, lost>>
    BY <2>1 DEF Message
  <2>3. ~lost /\ Shown' = Shown /\ held' = held
    BY <1>1, <2>2 DEF Shown
  <2>4. /\ Told(queue', Shown)
        /\ m # "hold" /\ NoKeys(queue') => m = Shown
        /\ m = "hold" /\ NoKeys(queue') => NoKeys(queue)
    BY <1>2, <2>2, <2>3, ToldTail DEF Seen
  <2>5. SUFFICES ASSUME held' = "", NoKeys(queue') PROVE Quiet'
    BY <2>3, <2>4
  <2>6. Shown = "up"
    BY <2>3, <2>5 DEF Shown
  <2>7. CASE key_up_process
    <3>1. ~voice' /\ ~mic'
      BY <1>2, <2>7 DEF key_up_process, Listens, KeyTypes
    <3>2. moved => moved'
      BY DEF Noted
    <3>3. CASE dev[obj].type = "SLE"
      BY <2>7, <3>1, <3>2, <3>3, EndSilences DEF key_up_process, Quiet
    <3>4. CASE dev[obj].type # "SLE"
      BY <2>7, <3>1, <3>2, <3>4, NoLinkNoKey DEF key_up_process, Quiet
    <3> QED BY <3>3, <3>4
  <2>8. CASE m = "hold" /\ key_hold_process
    <3>1. Quiet
      BY <2>3, <2>4, <2>5, <2>8 DEF Seen
    <3>2. voice' = voice /\ (mic' = mic \/ mic' = FALSE)
      BY <2>8, HoldCases DEF key_hold_switch_device, Repair, Unpair, IrStudy, NoPair
    <3>3. Softer
      <4>1. ASSUME NEW c, Message(c) PROVE c = "hold"
        BY <2>2, <2>8, <4>1 DEF Message
      <4>2. "hold" \notin Chords /\ "up" # "hold"
        BY WordCases
      <4> QED BY <4>1, <4>2, SofterStep
    <3>4. voice' => voice
      BY <3>2
    <3>5. mic' => mic
      BY <3>2
    <3> QED BY <3>1, <3>3, <3>4, <3>5, QuietKept
  <2> QED BY <2>1, <2>4, <2>5, <2>6, <2>7, <2>8
<1> HIDE DEF Knows
<1> QED BY <1>3, <1>5, <1>6, <1>7, Background

-----------------------------------------------------------------------------
(* The theorems.                                                           *)

LEMMA InitTypes == Init => Types
<1> SUFFICES ASSUME Init PROVE Types
  OBVIOUS
<1>1. KeyTypes
  <2>1. <<>> \in Seq(Words) /\ Len(<<>>) <= MaxMsg
    BY Empty, BoundAssumption
  <2> QED BY <2>1 DEF Init, KeyTypes
<1>2. Histories
  BY DEF Init, Histories
<1>3. RowTypes
  <2>1. [NoRow EXCEPT !.id = 0] \in Row(Rows) /\ [NoRow EXCEPT !.id = 0].type # "SLE"
    BY DEF NoRow, Row, Rows
  <2> QED BY <2>1 DEF Init, RowTypes
<1>4. StateTypes
  BY DEF Init, StateTypes, Rows, Devices, Statuses
<1>5. CallTypes
  <2>1. Idle \in Calls /\ Idle.at = "idle"
    BY IdleCalls DEF Calling, Idle
  <2> QED BY <2>1 DEF Init, CallTypes, Callers
<1>6. StackTypes
  <2>1. <<>> \in Seq(Events)
    BY Empty
  <2> QED BY <2>1 DEF Init, StackTypes, Rows
<1> QED BY <1>1, <1>2, <1>3, <1>4, <1>5, <1>6 DEF Types

LEMMA Initially == Init => IInv
<1> SUFFICES ASSUME Init PROVE IInv
  OBVIOUS
<1>1. Types
  BY InitTypes
<1>2. Listens /\ Directed
  BY DEF Init, Listens, Directed
<1>3. Told(<<>>, Shown)
  BY Empty DEF Told
<1>4. Quiet
  BY DEF Init, Quiet
<1>5. Seen
  BY <1>3, <1>4 DEF Init, Seen
<1> QED BY <1>1, <1>2, <1>5 DEF IInv

LEMMA Stepwise == IInv /\ [Next]_vars => IInv'
<1> SUFFICES ASSUME IInv, [Next]_vars PROVE IInv'
  OBVIOUS
<1>1. CASE Next
  BY <1>1, TypesStep, ListensStep, DirectedStep, SeenStep DEF Next, IInv
<1>2. CASE UNCHANGED vars
  <2>1. UNCHANGED <<held, queue, timers, flag, check, voice, mic, lowpower, lost, moved, misread>>
    BY <1>2 DEF vars, keys, history
  <2>2. UNCHANGED <<obj, sleObj, mode, dev, status, cb, air, pc, power, links, cbs, pressed>>
    BY <1>2 DEF vars, control, stack
  <2>3. Types'
    <3>1. KeyTypes' /\ Histories'
      BY <2>1, <2>2 DEF IInv, Types, KeyTypes, Histories
    <3>2. RowTypes' /\ StateTypes'
      BY <2>1, <2>2 DEF IInv, Types, RowTypes, StateTypes
    <3>3. CallTypes' /\ StackTypes'
      BY <2>1, <2>2 DEF IInv, Types, CallTypes, StackTypes
    <3> QED BY <3>1, <3>2, <3>3 DEF Types
  <2>4. Listens' /\ Directed'
    BY <2>1, <2>2 DEF IInv, Listens, Directed, Active
  <2>5. Seen'
    BY <2>1, <2>2 DEF IInv, Seen, Shown, Quiet
  <2> QED BY <2>3, <2>4, <2>5 DEF IInv
<1> QED BY <1>1, <1>2

LEMMA Invariance == Spec => []IInv
<1> QED BY Initially, Stepwise, PTL DEF Spec

\* The variables have their types; above all, a row that says it has a link names one of
\* the connections and a host, whatever was written behind the table of two rows, whenever
\* unpairing came, and however many links there may be.
THEOREM TypesCorrect == Spec => []TypeOK
<1>1. IInv => TypeOK
  <2> SUFFICES ASSUME IInv PROVE TypeOK
    OBVIOUS
  <2>1. /\ KeyTypes /\ Histories /\ RowTypes /\ StateTypes /\ CallTypes /\ StackTypes
    BY DEF IInv, Types
  <2>2. \A c \in {"sle", "pm"} : pc[c].n <= MaxCount /\ pc[c].at \in {"idle", "call", "wait"}
    BY <2>1, BoundAssumption DEF CallTypes, Calls, Callers
  <2>3. \A d \in Devices : dev[d].type = "SLE" => dev[d].id \in Ids /\ dev[d].addr \in Devices
    BY <2>1 DEF RowTypes, Rows
  <2>4. {obj, sleObj} \subseteq Rows /\ {voice, mic, lowpower, lost, moved, misread} \subseteq BOOLEAN
    BY <2>1 DEF KeyTypes, Histories, StateTypes
  <2>5. queue \in Seq(Chords \union {"up", "hold"})
    BY <2>1 DEF KeyTypes, Words
  <2> QED BY <2>1, <2>2, <2>3, <2>4, <2>5 DEF TypeOK, KeyTypes, RowTypes, StateTypes, StackTypes
<1> QED BY <1>1, Invariance, PTL

\* Once every key is up and the task has seen it, nobody is listened to and no host is left
\* with a key down, for every keypad, number of connections and length of the queue.
THEOREM KeysAreReleased == Spec => []KeysEnd
<1>1. IInv => KeysEnd
  <2>1. NoKeys(<<>>)
    BY Empty DEF NoKeys
  <2> QED BY <2>1 DEF IInv, Seen, Quiet, KeysEnd
<1> QED BY <1>1, Invariance, PTL
=============================================================================
