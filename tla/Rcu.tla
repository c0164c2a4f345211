-------------------------------- MODULE Rcu ---------------------------------
(***************************************************************************)
(* The remote control (samples/products/rcu/rcu, SLE build with two links  *)
(* and RCU_IS_SLEEP_DISCONNECT): a keypad whose changes are queued for one *)
(* task, two devices the keys are meant for, links that come and go, and   *)
(* infrared.  Four contexts share the globals: the task of the queue, the  *)
(* SLE task of the stack's callbacks, the timers and the power manager.    *)
(*                                                                         *)
(* The table of devices has two rows and is indexed by NONE_DEVICE too:    *)
(* the row after the last one lies in other memory, and writing it writes  *)
(* the types of the two rows (app_status.h:83-88); what else lies there is *)
(* taken to read as no connection.  A link's status is read by an index    *)
(* that is 0xFF before the first link: the value read is then any.         *)
(*                                                                         *)
(* External: the stack, which makes and loses links and queues what it     *)
(* reports, and the hosts, where a key stays pressed until its release     *)
(* report or the end of the link.                                          *)
(* Abstracted: key codes, audio, addresses.  Left out: the BLE build, OTA, *)
(* mass-production tests, the mouse reports no key sends, and the message  *)
(* of the sleep check, which the task throws away.                         *)
(***************************************************************************)
EXTENDS Naturals, Sequences, FiniteSets, SequencesExt

CONSTANTS
  Chords,     \* what the keypad may show: keys and pairs of keys
  Ids,        \* connection ids, 0 .. CONFIG_RCU_MULTICON_NUM - 1
  MaxMsg,     \* APP_MAX_MSG_COUNT
  MaxCount,   \* APP_SLE_DEFAULT_MAX_COUNT
  MaxKeys, MaxLinks, MaxSleeps   \* bounds: changes of the keypad, links made, sleeps

Combos == {"TvConnect", "OttConnect", "IrLearn", "Unpair", "other"}
ASSUME ChordsAssumption ==
  Chords \subseteq ({"letter", "volume", "VOICE", "LIVE", "OTT"} \union Combos)
ASSUME IdsAssumption == 0 \in Ids /\ Ids \subseteq 0 .. 254
ASSUME BoundAssumption ==
  {MaxMsg, MaxCount, MaxKeys, MaxLinks, MaxSleeps} \subseteq Nat /\ MaxCount > 0

VARIABLES
  held,       \* what the keypad shows, "" when no key is down
  queue,      \* messages for the task
  timers,     \* the osal timers that run
  obj, sleObj,   \* g_current_control_obj, g_sle_current_control_obj
  mode,       \* g_rcu_mode
  dev, status,   \* g_device_info, app_sle_conn_status
  flag,       \* g_combine_key_flag
  check,      \* g_check_keyboard_send, g_check_consumer_send: the kinds that are set
  voice, mic, \* g_keystate_down; the microphone is on
  cb,         \* g_sle_callbacks: the device to call, or NONE
  lowpower,   \* g_low_power_state
  air,        \* what is announced: "off", "pair", or the device it is directed to
  pc,         \* sle_control_callbacks as the SLE task and the power manager run it
  power,      \* "boot", "work", "sleep"
  links, cbs, \* the stack: the host of each link; callbacks on their way
  pressed,    \* at each host, the kinds of report that show a key down
  lost,       \* a change of the keypad found the queue full
  moved,      \* the link the keys go to changed while a host saw a key down
  misread,    \* a status read out of bounds was taken for a state of the link
  count       \* what the bounds count

control == <<obj, sleObj, mode, dev, status>>
keys == <<flag, check, voice, mic>>
stack == <<links, cbs, pressed>>
history == <<lost, misread, count>>
vars == <<held, queue, timers, control, keys, cb, lowpower, air, pc, power, stack, history, moved>>

Devices == {"TV", "OTT"}
Rows == Devices \union {"NONE"}
Statuses == {"IDLE", "ADVING", "CONNECTED", "DISCONNECT", "PAIRED"}
Kinds == {"keyboard", "consumer"}
NoId == 255
Idle == [at |-> "idle", todo |-> <<>>, n |-> 0, id |-> NoId, host |-> "NONE"]
Cb(what, i, h) == [what |-> what, id |-> i, host |-> h]
NoRow == [id |-> NoId, type |-> "NONE", addr |-> "NONE"]

\* The value read for the status of link i, any when i is outside the table.
Reads(i, s) == s \in Statuses /\ (i \in Ids => s = status[i])
\* set_app_sle_conn_status
StatusSet(i, s) == IF i \in Ids THEN [status EXCEPT ![i] = s] ELSE status
Misread(i, s) == misread' = (misread \/ (i \notin Ids /\ s \in {"ADVING", "PAIRED"}))

\* get_active_con_id, of the device the keys are for
Active == IF dev[obj].type = "SLE" THEN dev[obj].id ELSE NoId

\* The board is on; it calls the host it is bonded with, if there is one.
Init ==
  /\ held = "" /\ queue = <<>> /\ timers = {}
  /\ obj = "NONE" /\ sleObj = "NONE" /\ mode = "IDLE"
  /\ dev = [r \in Rows |-> [NoRow EXCEPT !.id = 0]]
  /\ \E bonded \in {"off", "TV"} :
       /\ air = bonded
       /\ status = [i \in Ids |-> IF bonded # "off" /\ i = 0 THEN "ADVING" ELSE "IDLE"]
  /\ flag = "" /\ check = {} /\ voice = FALSE /\ mic = FALSE
  /\ cb = [d \in Devices |-> "NONE"] /\ lowpower = FALSE
  /\ pc = [c \in {"sle", "pm"} |-> Idle] /\ power = "boot"
  /\ links = [i \in Ids |-> "NONE"] /\ cbs = <<>> /\ pressed = [h \in Devices |-> {}]
  /\ lost = FALSE /\ moved = FALSE /\ misread = FALSE
  /\ count = [keys |-> 0, links |-> 0, sleeps |-> 0]

-----------------------------------------------------------------------------
\* app_write_msgqueue: with no time to wait, a full queue loses the message.
Posted(q, msg) == IF Len(q) < MaxMsg THEN Append(q, msg) ELSE q

\* The rest of rcu_entry; the SLE task has run since enable_sle.
AppInit ==
  /\ power = "boot"
  /\ power' = "work"
  /\ status' = [i \in Ids |-> "IDLE"]
  /\ dev' = [r \in Rows |-> IF r = "NONE" THEN [dev[r] EXCEPT !.id = 0] ELSE NoRow]
  /\ mode' = "IR_SEND"
  /\ UNCHANGED <<held, queue, timers, obj, sleObj, keys, cb, lowpower, air, pc, stack, history>>

\* A key goes down, up, or the keys that are down change.
app_keyscan_callback(c) ==
  /\ power = "work" /\ c # held /\ count.keys < MaxKeys
  /\ held' = c
  /\ queue' = Posted(queue, IF c = "" THEN "up" ELSE c)
  /\ lost' = (lost \/ Len(queue) = MaxMsg)
  /\ count' = [count EXCEPT !.keys = @ + 1]
  /\ UNCHANGED <<timers, control, keys, cb, lowpower, air, pc, power, stack, misread>>

\* sle_rcu_server_directed_adv_init, for row d, to host h
DirectedAdvInit(d, h) == sleObj' = d /\ air' = h /\ status' = StatusSet(dev[d].id, "ADVING")

\* sle_rcu_server_adv_init, for the row sleObj names
AdvInit(d) == air' = "pair" /\ status' = StatusSet(dev[d].id, "ADVING")

\* sle_rcu_server_adv_deinit: the status of the current device decides.
AdvDeinit(s) ==
  /\ status' = IF s = "ADVING" THEN StatusSet(dev[obj].id, "IDLE") ELSE status
  /\ air' = IF s = "PAIRED" THEN air ELSE "off"

-----------------------------------------------------------------------------
(* The task: one message at a time. *)

Message(m) ==
  /\ queue # <<>> /\ Head(queue) = m /\ power # "boot"
  /\ queue' = Tail(queue)
  /\ UNCHANGED <<held, lost, count, pc, power, cb>>

\* The hosts after reports to link i: those of kinds `down` press, those of `up` release.
Reported(i, down, up) ==
  [h \in Devices |-> IF i \in Ids /\ links[i] = h THEN (pressed[h] \ up) \union down ELSE pressed[h]]

\* Infrared takes the key: as a lesson, or because no device has been linked.
InfraredKey(c) ==
  /\ mode \in {"IR_STUDY", "IR_SEND"}
  /\ UNCHANGED <<timers, control, flag, check, voice, mic, lowpower, air, stack, misread>>

\* rcu_send_report, then rcu_mouse_and_keyboard_send_start: a letter's report, or for
\* another kind of key an empty one when a letter's has not been released.
ReportKey(c) ==
  LET sle == dev[obj].type = "SLE"
      i == dev[obj].id
      kind == IF c = "volume" THEN "consumer" ELSE "keyboard"
  IN /\ check' = IF sle \/ c = "volume" THEN check \union {kind} ELSE check
     /\ pressed' = IF sle THEN Reported(i, {kind}, check \intersect {"keyboard"}) ELSE pressed
     /\ UNCHANGED <<obj, sleObj, status, air, voice, mic>>

\* Every other key ends with rcu_mouse_and_keyboard_send_start too: an empty report.
EmptyReport(d) == pressed' = IF dev[d].type = "SLE" /\ "keyboard" \in check
                               THEN Reported(dev[d].id, {}, {"keyboard"}) ELSE pressed

VoiceKey ==
  /\ mic' = TRUE /\ voice' = TRUE
  /\ EmptyReport(obj)
  /\ UNCHANGED <<obj, sleObj, status, air, check>>

SwitchKey == [d \in Devices |-> IF d = "TV" THEN "LIVE" ELSE "OTT"]

key_switch_device(d) ==
  /\ obj' = d
  /\ mic' = FALSE
  /\ IF dev[d].type = "SLE" /\ Reads(dev[d].id, "DISCONNECT")
       THEN DirectedAdvInit(d, dev[d].addr)
       ELSE UNCHANGED <<sleObj, air, status>>
  /\ EmptyReport(d)
  /\ UNCHANGED <<check, voice>>

one_key_process(c) ==
  /\ Message(c)
  /\ \/ InfraredKey(c)
     \/ /\ mode \notin {"IR_STUDY", "IR_SEND"}
        /\ \/ c \in {"letter", "volume"} /\ ReportKey(c)
           \/ c = "VOICE" /\ VoiceKey
           \/ \E d \in Devices : c = SwitchKey[d] /\ key_switch_device(d)
        /\ UNCHANGED <<timers, mode, dev, flag, lowpower, links, cbs, misread>>

\* Two keys: a pair of the table is remembered, and counts when held for long.
key_down_process(c) ==
  /\ Message(c)
  /\ flag' = IF c # "other" THEN c ELSE flag
  /\ timers' = (timers \ {"hold"}) \union (IF c # "other" THEN {"hold"} ELSE {})
  /\ UNCHANGED <<control, check, voice, mic, lowpower, air, stack, misread>>

\* sle_rcu_send_end: an empty report of every kind that was sent
SleSendEnd == pressed' = Reported(dev[obj].id, {}, check) /\ check' = {}

\* a change of key_up_process: voice ends only on a link
KeyUpSleOnly ==
  /\ Message("up")
  /\ IF dev[obj].type = "SLE" THEN SleSendEnd ELSE UNCHANGED <<pressed, check>>
  /\ mic' = (mic /\ ~voice)
  /\ voice' = (voice /\ dev[obj].type # "SLE")
  /\ timers' = timers \ {"hold"}
  /\ UNCHANGED <<control, flag, lowpower, air, links, cbs, misread>>

\* rcu_send_end: the reports end as the type says, and voice ends
key_up_process ==
  /\ Message("up")
  /\ IF dev[obj].type = "SLE" THEN SleSendEnd ELSE UNCHANGED <<pressed, check>>
  /\ mic' = (mic /\ ~voice)
  /\ voice' = FALSE
  /\ timers' = timers \ {"hold"}
  /\ UNCHANGED <<control, flag, lowpower, air, links, cbs, misread>>

-----------------------------------------------------------------------------
(* A pair of keys that was held for long. *)

\* sle_disconnect_remote_device, of every device of ds whose type is SLE: the comparison
\* with the status is an assignment, so the status does not matter.
Cut(ds) ==
  LET hosts == {dev[d].addr : d \in {d \in ds : dev[d].type = "SLE"}}
      gone == {i \in Ids : links[i] \in hosts}
  IN /\ links' = [i \in Ids |-> IF i \in gone THEN "NONE" ELSE links[i]]
     /\ pressed' = [h \in Devices |-> IF \E i \in gone : links[i] = h THEN {} ELSE pressed[h]]
     /\ cbs' = cbs \o SetToSeq({Cb("disconnected", i, links[i]) : i \in gone})

\* a change of pair_start_fun: the timer is not started
PairStartNoTimer(d) ==
  \E s \in Statuses :
    /\ Reads(dev[d].id, s) /\ Misread(dev[d].id, s)
    /\ IF s = "ADVING"
         THEN /\ status' = StatusSet(dev[d].id, "IDLE")
              /\ air' \in {"off"} \union (IF dev[d].id \in Ids THEN {} ELSE {air})
         ELSE AdvInit(d)
    /\ UNCHANGED timers

\* pair_start_fun: announces, but stops what is announced when the device is being called.
pair_start_fun(d) ==
  \E s \in Statuses :
    /\ Reads(dev[d].id, s) /\ Misread(dev[d].id, s)
    /\ IF s = "ADVING"
         THEN /\ status' = StatusSet(dev[d].id, "IDLE")
              /\ air' \in {"off"} \union (IF dev[d].id \in Ids THEN {} ELSE {air})
         ELSE AdvInit(d)
    /\ timers' = timers \union {"pair"}

\* key_handle_process_repairing_event for the current device d
Repair(d) ==
  /\ mode' = "ADV_SEND"
  /\ mic' = FALSE
  /\ Cut({d})
  /\ lowpower' = FALSE
  /\ pair_start_fun(d)
  /\ UNCHANGED <<dev, voice>>

key_hold_switch_device(d) == obj' = d /\ sleObj' = d /\ Repair(d)

\* a change of Unpair: the ids of the rows are reset, their types are not
UnpairKeepsTypes ==
  /\ lowpower' = TRUE
  /\ air' = "off"
  /\ Cut(Devices)
  /\ dev' = [r \in Rows |-> [dev[r] EXCEPT !.id = IF r = "NONE" THEN 0 ELSE NoId]]
  /\ status' = [i \in Ids |-> "IDLE"]
  /\ obj' = "NONE" /\ mode' = "IR_SEND"
  /\ UNCHANGED <<timers, sleObj, voice, mic, misread>>

\* key_handle_process_unpairing_event
Unpair ==
  /\ lowpower' = TRUE
  /\ air' = "off"
  /\ Cut(Devices)
  /\ dev' = [r \in Rows |-> IF r = "NONE" THEN [dev[r] EXCEPT !.id = 0] ELSE NoRow]
  /\ status' = [i \in Ids |-> "IDLE"]
  /\ obj' = "NONE" /\ mode' = "IR_SEND"
  /\ UNCHANGED <<timers, sleObj, voice, mic, misread>>

\* key_handle_process_ir_study_event
IrStudy ==
  /\ IF mode # "IR_STUDY"
       THEN mode' = "IR_STUDY" /\ timers' = timers \union {"study"}
       ELSE mode' = "IR_SEND" /\ timers' = (timers \ {"study"})
  /\ UNCHANGED <<obj, sleObj, dev, status, voice, mic, lowpower, air, stack, misread>>

NoPair ==
  UNCHANGED <<timers, control, voice, mic, lowpower, air, stack, misread>>

key_hold_process ==
  /\ Message("hold")
  /\ CASE flag = "TvConnect" -> key_hold_switch_device("TV")
       [] flag = "OttConnect" -> key_hold_switch_device("OTT")
       [] flag = "Unpair" -> Unpair
       [] flag = "IrLearn" -> IrStudy
       [] OTHER -> NoPair
  /\ flag' = ""
  /\ UNCHANGED check

RcuTask ==
  \/ \E c \in Chords \ Combos : one_key_process(c)
  \/ \E c \in Chords \intersect Combos : key_down_process(c)
  \/ key_up_process \/ key_hold_process

-----------------------------------------------------------------------------
(* Timers. *)

key_hold_long_timer_callback ==
  /\ "hold" \in timers
  /\ timers' = timers \ {"hold"}
  /\ queue' = Posted(queue, "hold")
  /\ UNCHANGED <<held, control, keys, cb, lowpower, air, pc, power, stack, history>>

\* pair_timer_callback: whoever is current decides whether the announcement ends.
pair_timer_callback ==
  /\ "pair" \in timers
  /\ timers' = timers \ {"pair"}
  /\ \E s \in Statuses :
       Reads(dev[obj].id, s) /\ Misread(dev[obj].id, s) /\ AdvDeinit(s)
  /\ UNCHANGED <<held, queue, obj, sleObj, mode, dev, keys, cb, lowpower, pc, power, stack,
                 lost, count>>

ir_study_timer_callback ==
  /\ "study" \in timers
  /\ timers' = timers \ {"study"}
  /\ mode' = "IDLE"
  /\ UNCHANGED <<held, queue, obj, sleObj, dev, status, keys, cb, lowpower, air, pc, power,
                 stack, history>>

-----------------------------------------------------------------------------
(* The SLE task, and sle_control_callbacks in it and in the power manager. *)

\* set_app_sle_conn_device_info; behind the table it writes the types of the rows.
InfoSet(r, i, h) ==
  [q \in Rows |-> IF q = r THEN [id |-> i, type |-> "SLE", addr |-> h]
                  ELSE IF r = "NONE" THEN [dev[q] EXCEPT !.type = "junk"] ELSE dev[q]]

\* sle_control_con_index
con_index(h) == IF dev["TV"].addr = h THEN "TV" ELSE IF dev["OTT"].addr = h THEN "OTT" ELSE "NONE"

SleCallback(what) ==
  /\ pc["sle"].at = "idle" /\ cbs # <<>> /\ Head(cbs).what = what
  /\ cbs' = Tail(cbs)
  /\ UNCHANGED <<held, queue, timers, obj, sleObj, keys, lowpower, power, links, pressed, history>>

NotifyConnected ==
  /\ SleCallback("connected")
  /\ LET e == Head(cbs)
         r == IF con_index(e.host) = "NONE" THEN obj ELSE con_index(e.host)
     IN /\ status' = StatusSet(e.id, "CONNECTED")
        /\ air' = "off"
        /\ mode' = "ADV_SEND"
        /\ cb' = [d \in Devices |-> IF d = r THEN "NONE" ELSE cb[d]]
        /\ dev' = InfoSet(r, e.id, e.host)
  /\ UNCHANGED pc

\* A lost device is called before its row is written.
NotifyDisconnected ==
  /\ SleCallback("disconnected")
  /\ LET e == Head(cbs)
         r == con_index(e.host)
     IN /\ status' = StatusSet(e.id, "DISCONNECT")
        /\ cb' = [d \in Devices |-> IF d = r THEN e.host ELSE cb[d]]
        /\ IF r # "NONE" /\ ~lowpower
             THEN /\ pc' = [pc EXCEPT !["sle"] = [at |-> "call", todo |-> <<r>>, n |-> 0,
                                             id |-> e.id, host |-> e.host]]
                  /\ UNCHANGED dev
             ELSE dev' = InfoSet(r, e.id, e.host) /\ UNCHANGED pc
  /\ UNCHANGED <<mode, air>>

sle_pair_complete_cbk ==
  /\ SleCallback("paired")
  /\ status' = StatusSet(Head(cbs).id, "PAIRED")
  /\ UNCHANGED <<mode, dev, air, cb, pc>>

\* What the caller c does when its call of the first device is over: the SLE task starts
\* the timer and writes the row, the power manager goes on to the next device.
CallOver(c) ==
  LET d == Head(pc[c].todo)
  IN IF c = "sle"
     THEN /\ timers' = timers \union {"pair"}
          /\ dev' = InfoSet(d, pc[c].id, pc[c].host)
          /\ pc' = [pc EXCEPT ![c] = Idle]
     ELSE /\ pc' = [pc EXCEPT ![c] = IF Len(@.todo) = 1 THEN Idle
                                      ELSE [@ EXCEPT !.at = "call", !.todo = Tail(pc[c].todo), !.n = 0]]
          /\ UNCHANGED <<timers, dev>>

\* One directed announcement, unless the device has come back.
Call(c) ==
  /\ pc[c].at = "call"
  /\ LET d == Head(pc[c].todo)
     IN IF cb[d] # "NONE"
        THEN /\ DirectedAdvInit(d, cb[d])
             /\ pc' = [pc EXCEPT ![c].at = "wait", ![c].n = @ + 1]
             /\ UNCHANGED <<timers, dev>>
        ELSE CallOver(c) /\ UNCHANGED <<sleObj, air, status>>
  /\ UNCHANGED <<held, queue, obj, mode, keys, cb, lowpower, power, stack, history>>

\* a change of CallNext: the announcements are not counted
CallNextUncounted(c) ==
  /\ pc[c].at = "wait"
  /\ IF pc[c].n > MaxCount
       THEN CallOver(c) /\ UNCHANGED air
       ELSE pc' = [pc EXCEPT ![c].at = "call", ![c].n = 0] /\ air' = "off" /\ UNCHANGED <<timers, dev>>
  /\ UNCHANGED <<held, queue, obj, sleObj, mode, status, keys, cb, lowpower, power, stack, history>>

\* osal_msleep is over; the last announcement is not stopped.
CallNext(c) ==
  /\ pc[c].at = "wait"
  /\ IF pc[c].n = MaxCount
       THEN CallOver(c) /\ UNCHANGED air
       ELSE pc' = [pc EXCEPT ![c].at = "call"] /\ air' = "off" /\ UNCHANGED <<timers, dev>>
  /\ UNCHANGED <<held, queue, obj, sleObj, mode, status, keys, cb, lowpower, power, stack, history>>

SleTask == NotifyConnected \/ NotifyDisconnected \/ sle_pair_complete_cbk \/ Call("sle") \/ CallNext("sle")

-----------------------------------------------------------------------------
(* Power and the stack. *)

\* rcu_state_standby_to_sleep: only with no key down does the idle time run.
standby_to_sleep ==
  /\ power = "work" /\ held = "" /\ pc["pm"].at = "idle" /\ count.sleeps < MaxSleeps
  /\ power' = "sleep"
  /\ lowpower' = TRUE
  /\ Cut(Devices)
  /\ count' = [count EXCEPT !.sleeps = @ + 1]
  /\ UNCHANGED <<held, queue, timers, control, keys, cb, air, pc, lost, misread>>

\* rcu_state_sleep_to_work: the devices are called one after the other.
sleep_to_work ==
  /\ power = "sleep"
  /\ power' = "work"
  /\ lowpower' = FALSE
  /\ LET one(d) == IF dev[d].type = "SLE" THEN <<d>> ELSE <<>>
         todo == one("TV") \o one("OTT")
     IN pc' = [pc EXCEPT !["pm"] = IF todo = <<>> THEN Idle ELSE [Idle EXCEPT !.at = "call", !.todo = todo]]
  /\ UNCHANGED <<held, queue, timers, control, keys, cb, air, stack, history>>

PowerTask == standby_to_sleep \/ sleep_to_work \/ Call("pm") \/ CallNext("pm")

\* A host answers the announcement that names it or is directed to it, and pairs.
HostConnects(h, i) ==
  /\ (air = h \/ (air = "pair" /\ sleObj = h))
  /\ links[i] = "NONE" /\ (\A j \in Ids : links[j] # h) /\ count.links < MaxLinks
  /\ links' = [links EXCEPT ![i] = h]
  /\ cbs' = Append(cbs, Cb("connected", i, h))
  /\ count' = [count EXCEPT !.links = @ + 1]
  /\ UNCHANGED <<held, queue, timers, control, keys, cb, lowpower, air, pc, power, pressed, lost, misread>>

HostPairs(i) ==
  /\ links[i] # "NONE" /\ ~(\E k \in DOMAIN cbs : cbs[k] = Cb("paired", i, links[i]))
  /\ status[i] # "PAIRED"
  /\ cbs' = Append(cbs, Cb("paired", i, links[i]))
  /\ UNCHANGED <<held, queue, timers, control, keys, cb, lowpower, air, pc, power, links, pressed, history>>

LinkLost(i) ==
  /\ links[i] # "NONE"
  /\ links' = [links EXCEPT ![i] = "NONE"]
  /\ pressed' = [pressed EXCEPT ![links[i]] = {}]
  /\ cbs' = Append(cbs, Cb("disconnected", i, links[i]))
  /\ UNCHANGED <<held, queue, timers, control, keys, cb, lowpower, air, pc, power, history>>

Step ==
  \/ AppInit \/ (\E c \in Chords \union {""} : app_keyscan_callback(c)) \/ RcuTask
  \/ key_hold_long_timer_callback \/ pair_timer_callback \/ ir_study_timer_callback
  \/ SleTask \/ PowerTask
  \/ (\E h \in Devices, i \in Ids : HostConnects(h, i)) \/ (\E i \in Ids : HostPairs(i) \/ LinkLost(i))

\* moved remembers a change of the link the keys go to.
Noted == moved' = (moved \/ (Active' # Active /\ \E h \in Devices : pressed[h] # {}))

Next == Step /\ Noted

\* A timer that runs fires and a sleep ends; no more is needed.  Nothing makes a host
\* connect, a link hold, a key change or the remote fall asleep.
Fairness ==
  /\ \A c \in {"sle", "pm"} : WF_vars((Call(c) \/ CallNext(c)) /\ Noted)
  /\ WF_vars(pair_timer_callback /\ Noted) /\ WF_vars(ir_study_timer_callback /\ Noted)

Spec == Init /\ [][Next]_vars /\ Fairness

-----------------------------------------------------------------------------
(* Properties. *)

Row(addrs) == [id : Ids \union {0, NoId}, type : {"NONE", "SLE", "junk"}, addr : addrs]

\* The variables have their types; a row that says it has a link names the link and a host,
\* whatever was written behind the table and whenever unpairing came.
TypeOK ==
  /\ held \in Chords \union {""}
  /\ queue \in Seq(Chords \union {"up", "hold"}) /\ Len(queue) <= MaxMsg
  /\ timers \subseteq {"hold", "pair", "study"}
  /\ {obj, sleObj} \subseteq Rows /\ mode \in {"IDLE", "IR_SEND", "IR_STUDY", "ADV_SEND"}
  /\ dev \in [Rows -> Row(Rows)] /\ status \in [Ids -> Statuses]
  /\ \A d \in Devices : dev[d].type = "SLE" => dev[d].id \in Ids /\ dev[d].addr \in Devices
  /\ flag \in Combos \union {""} /\ check \subseteq Kinds
  /\ {voice, mic, lowpower, lost, moved, misread} \subseteq BOOLEAN
  /\ cb \in [Devices -> Rows] /\ air \in Devices \union {"off", "pair"}
  /\ \A c \in {"sle", "pm"} : pc[c].n <= MaxCount /\ pc[c].at \in {"idle", "call", "wait"}
  /\ power \in {"boot", "work", "sleep"}
  /\ links \in [Ids -> Rows] /\ pressed \in [Devices -> SUBSET Kinds]

\* Once every key is up and the task has seen it, nobody is listened to and no host is left
\* with a key down: whatever keys rolled over each other, whichever device became current
\* and whatever became of its link.  Only a release that found the queue full leaves the
\* microphone on; and a host may be left with a key that was directed elsewhere since.
KeysEnd ==
  held = "" /\ queue = <<>> /\ ~lost =>
    /\ ~voice /\ ~mic
    /\ ~moved => \A h \in Devices : pressed[h] = {}

\* The announcement for pairing ends, though calls of lost devices restart its timer, unless
\* at the time the current device is a paired one (it may not be the one that pairs) or has
\* no link whose status could be read.
PairingEnds ==
  (air = "pair") ~> (air # "pair" \/ misread \/ Reads(dev[obj].id, "PAIRED"))

\* Neither pairing nor learning infrared codes outlasts its timer, whether it is left by
\* keys, by the timer, or by a link that is made while it runs.
ModesEnd == PairingEnds /\ ((mode = "IR_STUDY") ~> (mode # "IR_STUDY"))

\* The SLE task and the power manager come back from calling a lost device even when it
\* never answers: the SLE task serves no other callback meanwhile, so it cannot be told.
CallsEnd == \A c \in {"sle", "pm"} : (pc[c].at # "idle") ~> (pc[c].at = "idle")
=============================================================================
