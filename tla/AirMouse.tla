------------------------------- MODULE AirMouse ------------------------------
(***************************************************************************)
(* The air mouse and its USB dongle (samples/products/air_mouse, HR board, *)
(* TV use).  The mouse announces, the dongle seeks and connects; once the  *)
(* link is paired the mouse powers its ranging radio (SLP), and it starts   *)
(* ranging when that radio has reported its version.  Keys go over the     *)
(* link to the dongle and from there to the USB host.                      *)
(*                                                                         *)
(* Contexts: at the mouse the task of the message queue, the SLE task, the *)
(* SLP task, the timers and two interrupts (keypad, motion); at the dongle *)
(* the SLE task and the USB serial task.  A handler is one   *)
(* step, cut where it sleeps (unpair_start_func, imu_wakeup_init) and      *)
(* where what it tests or sets is used by another context between two of   *)
(* its calls: pair_start_func, pair_stop_func, the end of a link and the   *)
(* restart of ranging.  Callbacks of timers run above the tasks.           *)
(*                                                                         *)
(* External: the SLE stack, which queues what it reports and drops the     *)
(* link when the pairings are removed, and the SLP library, which takes a  *)
(* command at once and reports its end later, in order.                    *)
(* Abstracted: key codes, positions, parameters.  Left out: factory tests, *)
(* the OTA and audio options, car use, the counting of equal positions     *)
(* before a sleep, the cursor speeds, the dongle's own radio, and at both  *)
(* ends the timers that print what is measured.                            *)
(***************************************************************************)
EXTENDS Naturals, Sequences

CONSTANTS
  Chords,     \* what the keypad may show
  QueueLen,   \* MAX_QUEUE_LEN
  MaxEvents   \* bound: links made, chords pressed, failed pairings, sleeps and restarts
              \* together

Combos == {"PAIR", "UNPAIR"}
Kinds == {"letter", "volume"}
ASSUME ChordsAssumption == Chords \subseteq (Kinds \union Combos \union {"VOICE", "LEFT", "SWITCH"})
ASSUME BoundAssumption == {QueueLen, MaxEvents} \subseteq Nat

VARIABLES
  held,       \* what the keypad shows, "" when no key is down
  queue,      \* messages for the task of the mouse
  down,       \* g_key_press_flag: "keyboard", "left_key", "slp_pause"
  mic,        \* the microphone is on
  click,      \* the ranging library was told that the left key is down
  led,        \* g_led_status
  hold, pairTimer,   \* timers: the chord that is held, the pairing
  task,       \* where the task is: "unpair" in the sleep of unpair_start_func, or the next
              \* call of pair_start_func
  byKey,      \* g_announce_keyscan_flag
  sle,        \* where the SLE task is: the next call of the handler that is cut
  pairStatus, \* g_mouse_sle_pair_status is 0
  restart, rcuSleep,   \* g_slp_restart_flag, g_rcu_sleep
  slp,        \* the ranging radio of the mouse: its state, reports on their way
  dozing,     \* the SLP task sleeps in imu_wakeup_init
  awake,      \* keypad, clock and votes are as slp_resume leaves them
  air,        \* the mouse announces
  seek,       \* the dongle: "seeking", "stopping", "connecting", "idle"
  linked, pairing, paired, pairedD,   \* link, pairing asked for, pairings stored
  mEv, dEv,   \* callbacks on their way to the SLE tasks of mouse and dongle
  host,       \* kinds of key the USB host sees down
  missed,     \* the last change of the keypad did not reach the queue
  lost,       \* the last release did not reach the dongle
  unpaired,   \* the last chord carried out was UNPAIR
  crossed,    \* ... and it crossed a handler of the SLE task that undoes it: see PairStopped
              \* and Unpair
  late,       \* since the link was last lost a restart set its flag after the stop's report
  switched,   \* since the link was last lost the ranging key was used, or a restart
              \* powered the radio
  count       \* what the bound counts

keys == <<held, queue, down, mic, click, hold, missed, task>>
radio == <<restart, rcuSleep, slp, dozing, awake>>
search == <<air, byKey, led, pairTimer, unpaired, crossed>>
link == <<linked, pairing, paired, pairedD, mEv, dEv, lost>>
dongle == <<seek, host>>
handler == <<sle, pairStatus, switched, late>>
vars == <<keys, radio, search, link, dongle, handler, count>>

Off == [st |-> "off", pend |-> <<>>]

\* Both ends after sle_air_mouse_server_init and sle_air_mouse_client_init.
Init ==
  /\ held = "" /\ queue = <<>> /\ down = {} /\ mic = FALSE /\ click = FALSE
  /\ hold = "" /\ missed = FALSE /\ task = "ready"
  /\ restart = FALSE /\ rcuSleep = FALSE /\ slp = Off /\ dozing = FALSE
  /\ awake = TRUE
  /\ air = TRUE /\ byKey = FALSE /\ led = "PAIRING" /\ pairTimer = FALSE
  /\ unpaired = FALSE /\ crossed = FALSE
  /\ linked = FALSE /\ pairing = FALSE /\ paired = FALSE /\ pairedD = FALSE
  /\ mEv = <<>> /\ dEv = <<>> /\ lost = FALSE
  /\ seek = "seeking" /\ host = {}
  /\ sle = "ready" /\ pairStatus = TRUE /\ switched = FALSE /\ late = FALSE
  /\ count = 0

Counted == count < MaxEvents /\ count' = count + 1

-----------------------------------------------------------------------------
(* The ranging radio. *)

Powered(s) == s.st # "off"
PowerOn(s) == IF Powered(s) THEN s ELSE [st |-> "on", pend |-> Append(s.pend, "on")]
PowerOff(s) == [s EXCEPT !.st = "off"]
CanStart(s) == s.st \in {"on", "asleep"}
slp_start_ranging(s) == IF CanStart(s) THEN [s EXCEPT !.st = "ranging"] ELSE s
CanStop(s) == s.st \in {"ranging", "paused"}
Stopped(s) == [st |-> "on", pend |-> Append(s.pend, "stop")]

\* ssaps_notify_indicate: what is sent without a link, or finds no memory, is lost.
Notify(e) == dEv' \in {dEv, IF linked THEN Append(dEv, e) ELSE dEv}

-----------------------------------------------------------------------------
(* The SLE stack.  An end of the link is reported to both sides. *)

LinkEvents == {"conn", "disc", "pairOk", "pairFail"}
LinkCut(m, d) ==
  /\ linked' = FALSE /\ pairing' = FALSE
  /\ mEv' = IF linked THEN Append(m, "disc") ELSE m
  /\ dEv' = IF linked THEN Append(d, "disc") ELSE d

LinkUp ==
  /\ seek = "connecting" /\ air /\ ~linked /\ Counted
  /\ linked' = TRUE /\ air' = FALSE /\ seek' = "idle"
  /\ mEv' = Append(mEv, "conn") /\ dEv' = Append(dEv, "conn")
  /\ UNCHANGED <<keys, radio, byKey, led, pairTimer, unpaired, crossed, pairing, paired, pairedD, lost,
                 host, handler>>

\* The mouse went off the air before the dongle could connect.
ConnectFails ==
  /\ seek = "connecting" /\ ~air /\ ~linked
  /\ seek' = "idle" /\ dEv' = Append(dEv, "disc")
  /\ UNCHANGED <<keys, radio, search, linked, pairing, paired, pairedD, mEv, lost,
                 host, handler, count>>

PairDone(ok) ==
  /\ pairing /\ linked
  /\ IF ok THEN UNCHANGED count ELSE Counted
  /\ pairing' = FALSE
  /\ paired' = (ok \/ paired) /\ pairedD' = (ok \/ pairedD)
  /\ LET e == IF ok THEN "pairOk" ELSE "pairFail"
     IN mEv' = Append(mEv, e) /\ dEv' = Append(dEv, e)
  /\ UNCHANGED <<keys, radio, search, linked, lost, dongle, handler>>

\* Out of range: the last reports on their way to the dongle, those from n on, may be lost.
LinkLost ==
  /\ linked
  /\ \E n \in 1 .. Len(dEv) + 1 :
       /\ \A i \in n .. Len(dEv) : dEv[i] \notin LinkEvents
       /\ LinkCut(mEv, SubSeq(dEv, 1, n - 1))
       /\ lost' = (lost \/ \E i \in n .. Len(dEv) : dEv[i] = "UP")
  /\ UNCHANGED <<keys, radio, search, paired, pairedD, dongle, handler, count>>

-----------------------------------------------------------------------------
(* The keypad and the timers of the mouse. *)

Post(msg) == queue' = IF Len(queue) < QueueLen THEN Append(queue, msg) ELSE queue

\* While the mouse sleeps the keypad is suspended, and its changes go unseen.
keyscan_callback(c) ==
  /\ c # held
  /\ IF c = "" THEN UNCHANGED count ELSE Counted
  /\ held' = c
  /\ IF awake THEN hold' = "" /\ Post(<<"keys", c>>) ELSE UNCHANGED <<hold, queue>>
  /\ missed' = (~awake \/ Len(queue) = QueueLen)
  /\ UNCHANGED <<down, mic, click, task, radio, search, link, dongle, handler>>

key_hold_timer_callback ==
  /\ hold # "" /\ hold' = "" /\ Post(<<"hold", hold>>)
  /\ UNCHANGED <<held, down, mic, click, task, missed, radio, search, link, dongle,
                 handler, count>>

Stopping == {"stop announce", "stop timer"}

\* What crosses: pair_stop_func begins between the timer and the light of
\* pair_start_func, which begins itself before pair_stop_func has ended.
PairStopped == led' = "IDLE" /\ crossed' = (crossed \/ task = "light")

\* pair_timer_callback calls pair_stop_func.
pair_timer_callback ==
  /\ pairTimer /\ pairTimer' = FALSE /\ air' = FALSE /\ PairStopped
  /\ UNCHANGED <<keys, radio, byKey, unpaired, link, dongle, handler, count>>

-----------------------------------------------------------------------------
(* The task of the message queue. *)

Steady == led \in {"PAIRING", "UNPAIRING"}

\* The report of the release goes out when a key report did.
Release(flag) ==
  IF "keyboard" \in flag THEN Notify("UP") /\ lost' = (dEv' = dEv) ELSE UNCHANGED <<dEv, lost>>

\* Mutant: the flags are handled one at a time.
key_up_processElseIf ==
  /\ led' = IF Steady THEN led ELSE "IDLE"
  /\ Release(down)
  /\ click' = (click /\ ("keyboard" \in down \/ "left_key" \notin down))
  /\ mic' = (mic /\ ("keyboard" \in down \/ "slp_pause" \notin down))
  /\ UNCHANGED slp /\ down' = {}

\* The release is reported, the click ends, voice and ranging come back.
key_up_process ==
  /\ led' = IF Steady THEN led ELSE "IDLE"
  /\ Release(down)
  /\ click' = (click /\ "left_key" \notin down)
  /\ mic' = (mic /\ "slp_pause" \notin down)
  /\ slp' = IF "slp_pause" \in down /\ slp.st = "paused" THEN [slp EXCEPT !.st = "ranging"] ELSE slp
  /\ down' = {}

\* Any key that is a report to the host
KeyboardKey(k) ==
  /\ down' = down \union {"keyboard"} /\ Notify(k)
  /\ UNCHANGED <<mic, click, slp, switched>>

LeftKey ==
  /\ down' = down \union {"left_key"} /\ click' = TRUE
  /\ UNCHANGED <<mic, slp, dEv, switched>>

VoiceKey ==
  /\ down' = down \union {"slp_pause"} /\ mic' = TRUE
  /\ slp' = IF slp.st = "ranging" THEN [slp EXCEPT !.st = "paused"] ELSE slp
  /\ UNCHANGED <<click, dEv, switched>>

\* slp_key_proc: on and off, unless no device is paired
slp_key_proc ==
  /\ IF paired
     THEN /\ slp' = IF Powered(slp) THEN PowerOff(slp) ELSE PowerOn(slp)
          /\ switched' = TRUE
     ELSE UNCHANGED <<slp, switched>>
  /\ UNCHANGED <<down, mic, click, dEv>>

one_key_process(k) ==
  /\ led' = IF Steady THEN led ELSE "KEY"
  /\ CASE k \in Kinds -> KeyboardKey(k)
       [] k = "LEFT" -> LeftKey
       [] k = "VOICE" -> VoiceKey
       [] k = "SWITCH" -> slp_key_proc
  /\ UNCHANGED lost

key_event_process(c) ==
  /\ hold' = IF c \in Combos THEN c ELSE hold
  /\ IF c \in Combos \union {""} THEN key_up_process /\ UNCHANGED switched ELSE one_key_process(c)
  /\ UNCHANGED <<task, linked, pairing, mEv, paired, byKey, pairTimer, unpaired, crossed, air>>

\* Mutant: the pairing timer is not started.
pair_start_funcForever ==
  /\ task' = "light" /\ unpaired' = FALSE /\ crossed' = (sle \in Stopping)
  /\ UNCHANGED <<pairTimer, led, paired, linked, pairing, mEv, dEv, byKey, air>>

\* pair_start_func: the timer
pair_start_func ==
  /\ pairTimer' = TRUE
  /\ task' = "light" /\ unpaired' = FALSE /\ crossed' = (sle \in Stopping)
  /\ UNCHANGED <<led, paired, linked, pairing, mEv, dEv, byKey, air>>

\* unpair_start_func up to its sleep
unpair_start_func ==
  /\ led' = "UNPAIRING" /\ task' = "unpair"
  /\ UNCHANGED <<pairTimer, paired, linked, pairing, mEv, dEv, byKey, air, unpaired, crossed>>

key_hold_process(c) ==
  /\ IF c = "PAIR" THEN pair_start_func ELSE unpair_start_func
  /\ UNCHANGED <<down, mic, click, lost, slp, switched, hold>>

rcu_task ==
  /\ task = "ready" /\ queue # <<>> /\ queue' = Tail(queue)
  /\ LET msg == Head(queue)
     IN IF msg[1] = "keys" THEN key_event_process(msg[2]) ELSE key_hold_process(msg[2])
  /\ UNCHANGED <<held, missed, restart, rcuSleep, dozing, awake, pairedD, dongle,
                 sle, pairStatus, late, count>>

\* What follows a call of pair_start_func
Then == [light |-> "remove", remove |-> "flag", flag |-> "announce", announce |-> "ready"]

\* The rest of pair_start_func, one call after the other
Pair ==
  /\ task \in DOMAIN Then /\ task' = Then[task]
  /\ led' = IF task = "light" THEN "PAIRING" ELSE led
  /\ IF task = "remove" THEN paired' = FALSE /\ LinkCut(mEv, dEv)
                        ELSE UNCHANGED <<paired, linked, pairing, mEv, dEv>>
  /\ byKey' = (byKey \/ task = "flag")
  /\ air' = (air \/ task = "announce")
  /\ UNCHANGED <<held, queue, down, mic, click, hold, missed, radio, pairTimer, unpaired, crossed,
                 pairedD, lost, dongle, handler, count>>

\* Mutant: the flag that keeps the mouse off the air is not set.
UnpairNoFlag ==
  /\ task = "unpair" /\ task' = "ready"
  /\ air' = FALSE
  /\ paired' = FALSE /\ LinkCut(mEv, dEv)
  /\ led' = "IDLE" /\ unpaired' = TRUE /\ crossed' = (sle = "announce")
  /\ UNCHANGED <<held, queue, down, mic, click, hold, missed, radio, byKey, pairTimer, pairedD, lost,
                 dongle, handler, count>>

\* unpair_start_func after its sleep.  It crosses the end of a link that has found the flag
\* not set and is about to announce.
Unpair ==
  /\ task = "unpair" /\ task' = "ready"
  /\ byKey' = TRUE /\ air' = FALSE
  /\ paired' = FALSE /\ LinkCut(mEv, dEv)
  /\ led' = "IDLE" /\ unpaired' = TRUE /\ crossed' = (sle = "announce")
  /\ UNCHANGED <<held, queue, down, mic, click, hold, missed, radio, pairTimer, pairedD, lost, dongle,
                 handler, count>>

-----------------------------------------------------------------------------
(* The SLE task of the mouse. *)

Connected ==
  /\ pairStatus' = FALSE
  /\ UNCHANGED <<sle, awake, air, slp, led, pairTimer, crossed, switched, late, restart>>

LinkEnded == slp' = PowerOff(slp) /\ switched' = FALSE /\ late' = FALSE

\* The end of a link: announce unless the flag is set, then take the radio's power.
Disconnected ==
  /\ pairStatus' = FALSE /\ awake' = TRUE
  /\ IF byKey THEN LinkEnded /\ UNCHANGED sle
              ELSE sle' = "announce" /\ UNCHANGED <<slp, switched, late>>
  /\ UNCHANGED <<air, led, pairTimer, crossed, restart>>

\* pair_stop_func begins, unless the radio is on already, which ends the handler.
PairComplete ==
  /\ pairStatus' = TRUE /\ slp' = PowerOn(slp)
  /\ IF Powered(slp) THEN UNCHANGED <<sle, led, crossed>> ELSE sle' = "stop announce" /\ PairStopped
  /\ UNCHANGED <<awake, air, pairTimer, switched, late, restart>>

PairFailed ==
  /\ pairStatus' = FALSE
  /\ UNCHANGED <<sle, awake, air, slp, led, pairTimer, crossed, switched, late, restart>>

\* proc_dongle_cmd, AM_CMD_RANGING_RESTART, up to its flag
RangingRestart ==
  /\ sle' = IF CanStop(slp) THEN "restart" ELSE "ready"
  /\ slp' = IF ~Powered(slp) THEN PowerOn(slp)
            ELSE IF CanStop(slp) THEN Stopped(slp)
            ELSE IF slp.st = "on" THEN slp_start_ranging(slp) ELSE slp
  /\ switched' = (switched \/ ~Powered(slp))
  /\ UNCHANGED <<pairStatus, awake, air, led, pairTimer, crossed, late, restart>>

MouseCallback(e) ==
  CASE e = "conn" -> Connected
    [] e = "disc" -> Disconnected
    [] e = "pairOk" -> PairComplete
    [] e = "pairFail" -> PairFailed
    [] e = "RESTART" -> RangingRestart

MouseSle ==
  /\ sle = "ready" /\ mEv # <<>> /\ mEv' = Tail(mEv) /\ MouseCallback(Head(mEv))
  /\ UNCHANGED <<keys, rcuSleep, dozing, byKey, unpaired, linked, pairing, paired, pairedD,
                 dEv, lost, dongle, count>>

\* The rest of the handler that is cut, one call after the other
MouseSleRest ==
  /\ \/ /\ sle = "announce" /\ sle' = "ready" /\ air' = TRUE /\ LinkEnded
        /\ UNCHANGED <<pairTimer, restart>>
     \/ /\ sle = "stop announce" /\ sle' = "stop timer" /\ air' = FALSE
        /\ UNCHANGED <<pairTimer, slp, switched, late, restart>>
     \/ /\ sle = "stop timer" /\ sle' = "ready" /\ pairTimer' = FALSE
        /\ UNCHANGED <<air, slp, switched, late, restart>>
     \/ /\ sle = "restart" /\ sle' = "ready" /\ restart' = TRUE
        /\ UNCHANGED <<air, pairTimer, slp, switched, late>>
  /\ UNCHANGED <<keys, rcuSleep, dozing, awake, byKey, led, unpaired, crossed, link, dongle,
                 pairStatus, count>>

-----------------------------------------------------------------------------
(* The SLP task of the mouse. *)

\* slp_power_on_cbk asks for the version, which a radio that is off again refuses.
slp_power_on_cbk(s) ==
  /\ slp' = IF Powered(s) THEN [s EXCEPT !.pend = Append(@, "version")] ELSE s
  /\ UNCHANGED <<restart, rcuSleep, dozing, late>>

rpt_version_cbk(s) ==
  /\ slp' = IF pairStatus THEN slp_start_ranging(s) ELSE s
  /\ UNCHANGED <<restart, rcuSleep, dozing, late>>

\* The flag of a restart may be set only after this, and nothing ranges.
slp_stop_ranging_cbk(s) ==
  /\ restart' = FALSE
  /\ slp' = IF restart THEN slp_start_ranging(s) ELSE s
  /\ late' = (late \/ (sle = "restart" /\ ~restart))
  /\ UNCHANGED <<rcuSleep, dozing>>

\* slp_sleep_cbk up to the sleep of imu_wakeup_init, if the radio does sleep
slp_sleep_cbk(s, ok) ==
  /\ rcuSleep' = FALSE /\ dozing' = (rcuSleep /\ ok) /\ slp' = s
  /\ UNCHANGED <<restart, late>>

MouseReport(e, s) ==
  CASE e = "on" -> slp_power_on_cbk(s)
    [] e = "version" -> rpt_version_cbk(s)
    [] e = "stop" -> slp_stop_ranging_cbk(s)
    [] e = "sleep" -> slp_sleep_cbk(s, TRUE)
    [] e = "sleep failed" -> slp_sleep_cbk(s, FALSE)

MouseSlp ==
  /\ slp.pend # <<>> /\ ~dozing
  /\ MouseReport(Head(slp.pend), [slp EXCEPT !.pend = Tail(@)])
  /\ UNCHANGED <<keys, awake, search, link, dongle, sle, pairStatus, switched, count>>

\* imu_wakeup_init after its sleep
imu_wakeup_init ==
  /\ dozing /\ dozing' = FALSE /\ awake' = FALSE
  /\ UNCHANGED <<keys, restart, rcuSleep, slp, search, link, dongle, handler, count>>

\* The mouse lies still (check_into_sleep), or the AT command SLPRCUSLEEP.  A sleep that
\* fails leaves the radio as it is.
Sleep ==
  /\ ~dozing /\ awake /\ Counted
  /\ rcuSleep' = TRUE
  /\ slp' \in IF slp.st \in {"on", "ranging", "paused"}
              THEN {[st |-> "asleep", pend |-> Append(slp.pend, "sleep")],
                    [slp EXCEPT !.pend = Append(@, "sleep failed")]}
              ELSE {slp}
  /\ UNCHANGED <<keys, restart, dozing, awake, search, link, dongle, handler>>

imu_wakeup_callback ==
  /\ ~awake /\ awake' = TRUE
  /\ slp' = slp_start_ranging(slp)
  /\ UNCHANGED <<keys, restart, rcuSleep, dozing, search, link, dongle, handler, count>>

-----------------------------------------------------------------------------
(* The dongle. *)

seek_result_info_cbk ==
  /\ seek = "seeking" /\ air /\ dEv = <<>>
  /\ seek' = "stopping"
  /\ UNCHANGED <<keys, radio, search, link, host, handler, count>>

seek_disable_cbk ==
  /\ seek = "stopping" /\ dEv = <<>>
  /\ seek' = "connecting"
  /\ UNCHANGED <<keys, radio, search, link, host, handler, count>>

\* A dongle that knows the mouse from an earlier link does not pair again.
DongleConnected(d) ==
  /\ pairing' = (linked /\ ~pairedD)
  /\ dEv' = d /\ UNCHANGED <<linked, mEv, lost, pairedD, seek, host>>

\* Mutant: the dongle keeps the pairing of a link that ended.
DongleDisconnectedKeeps(d) ==
  /\ seek' = "seeking"
  /\ dEv' = d /\ UNCHANGED <<linked, pairing, mEv, lost, pairedD, host>>

\* Without a pairing there is nothing to remove; here the link is gone in both cases.
DongleDisconnected(d) ==
  /\ pairedD' = FALSE /\ seek' = "seeking"
  /\ dEv' = d /\ UNCHANGED <<linked, pairing, mEv, lost, host>>

DonglePaired(d) ==
  /\ dEv' = d /\ UNCHANGED <<linked, pairing, mEv, lost, pairedD, seek, host>>

DonglePairFailed(d) ==
  /\ pairedD' = FALSE /\ LinkCut(mEv, d) /\ seek' = "seeking"
  /\ UNCHANGED <<lost, host>>

\* proc_keyboard_rpt_data, AM_CMD_KEYBOARD_UP: the report of a kind replaces the one before
HostSees(e) == IF e = "UP" THEN {} ELSE host \union {e}

ssapc_notification_cbk(e, d) ==
  /\ host' = IF e \in Kinds \union {"UP"} THEN HostSees(e) ELSE host
  /\ dEv' = d /\ UNCHANGED <<linked, pairing, mEv, lost, pairedD, seek>>

DongleSle ==
  /\ dEv # <<>>
  /\ LET e == Head(dEv) d == Tail(dEv)
     IN CASE e = "conn" -> DongleConnected(d)
          [] e = "disc" -> DongleDisconnected(d)
          [] e = "pairOk" -> DonglePaired(d)
          [] e = "pairFail" -> DonglePairFailed(d)
          [] OTHER -> ssapc_notification_cbk(e, d)
  /\ UNCHANGED <<keys, radio, search, paired, handler, count>>

\* serial_cmd_proc, SERIAL_CMD_RESTART
serial_cmd_proc ==
  /\ Counted
  /\ mEv' = IF linked THEN Append(mEv, "RESTART") ELSE mEv
  /\ UNCHANGED <<keys, radio, search, linked, pairing, paired, pairedD, dEv, lost, dongle,
                 handler>>

-----------------------------------------------------------------------------
Stack == LinkUp \/ ConnectFails \/ LinkLost \/ \E ok \in BOOLEAN : PairDone(ok)
User == serial_cmd_proc \/ Sleep \/ imu_wakeup_callback \/ \E c \in Chords \union {""} : keyscan_callback(c)
Mouse ==
  \/ key_hold_timer_callback \/ pair_timer_callback
  \/ rcu_task \/ Pair \/ Unpair \/ MouseSle \/ MouseSleRest \/ MouseSlp \/ imu_wakeup_init
Dongle == seek_result_info_cbk \/ seek_disable_cbk \/ DongleSle
Next == Stack \/ User \/ Mouse \/ Dongle

\* The tasks serve what waits for them, and a pairing ends.
Fairness ==
  /\ WF_vars(MouseSle \/ MouseSleRest) /\ WF_vars(MouseSlp) /\ WF_vars(imu_wakeup_init)
  /\ WF_vars(DongleSle) /\ WF_vars(\E ok \in BOOLEAN : PairDone(ok))

Spec == Init /\ [][Next]_vars /\ Fairness

-----------------------------------------------------------------------------
Words == Kinds \union LinkEvents \union {"UP"}
Reports == {"on", "version", "stop", "sleep", "sleep failed"}
Places == {"ready", "announce", "restart"} \union Stopping

\* The queue holds at most MAX_QUEUE_LEN messages; radios, light and timers are in known states.
TypeOK ==
  /\ held \in Chords \union {""} /\ hold \in Combos \union {""}
  /\ Len(queue) <= QueueLen
  /\ \A i \in 1 .. Len(queue) : queue[i] \in ({"keys", "hold"} \X (Chords \union {""}))
  /\ down \subseteq {"keyboard", "left_key", "slp_pause"} /\ host \subseteq Kinds
  /\ led \in {"IDLE", "KEY", "PAIRING", "UNPAIRING"}
  /\ task \in {"ready", "unpair"} \union DOMAIN Then /\ sle \in Places
  /\ slp.st \in {"off", "on", "ranging", "paused", "asleep"}
  /\ \A i \in 1 .. Len(slp.pend) : slp.pend[i] \in Reports
  /\ \A i \in 1 .. Len(dEv) : dEv[i] \in Words
  /\ \A i \in 1 .. Len(mEv) : mEv[i] \in LinkEvents \union {"RESTART"}
  /\ seek \in {"idle", "seeking", "stopping", "connecting"}
  /\ {mic, click, pairTimer, byKey, pairStatus, restart, rcuSleep, dozing, awake, air, linked,
      pairing, paired, pairedD, missed, lost, unpaired, crossed, switched, late} \subseteq BOOLEAN

\* Nothing waits at the mouse; nothing waits at either end.
MouseIdle == queue = <<>> /\ task = "ready" /\ mEv = <<>> /\ sle = "ready"
Quiet == MouseIdle /\ dEv = <<>>

\* After the unpairing chord the mouse stays off the air until it is told to pair, although
\* removing the pairings ends the link and the end of a link starts the announcement
\* (unpair_start_func against sle_connect_state_changed_cbk), unless an earlier end of a link
\* was between its test of the flag and the announcement when the chord set the flag.
UnpairedIsSilent == unpaired /\ ~crossed => ~air

\* A light that blinks for pairing is not left on: the mouse announces, is linked, or the
\* pairing timer will turn it off, unless pair_stop_func of the SLE task took the timer of a
\* pair_start_func it crossed, and not its light (adv_init, air_mouse_timer.c).
LightMeansSearching ==
  led = "PAIRING" /\ MouseIdle /\ ~crossed => air \/ linked \/ pairTimer

\* Once no key is down and the task has seen it, the microphone is off and the click over,
\* however keys rolled over the voice key and the left key (key_up_process).
VoiceAndClickEnd == held = "" /\ MouseIdle /\ ~missed => ~mic /\ ~click

\* When no key is down and nothing is on its way, the microphone is off, the click over, and
\* the USB host sees no key down, unless the last release did not get through
\* (proc_key_event.c against proc_cmd_rpt_data).
KeysEnd ==
  /\ VoiceAndClickEnd
  /\ held = "" /\ Quiet /\ ~missed /\ ~lost => host = {}

\* A link ends in ranging: the mouse comes to range (or sleeps), unless the link is lost, the
\* radio was switched by hand, which takes its power from the pairing, or the report of a
\* stop came before the restart had set its flag (sle_pair_complete_cbk, slp_power_on_cbk,
\* rpt_version_cbk, proc_dongle_cmd against slp_stop_ranging_cbk).
PointerComesBack ==
  linked ~> (slp.st \in {"ranging", "paused", "asleep"} \/ ~linked \/ switched \/ late)
=============================================================================
