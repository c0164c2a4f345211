---------------------------- MODULE InventoryTag ----------------------------
(***************************************************************************)
(* The tag of Smart_Inventory: the state machine of main/main.c with the   *)
(* advertising, connection, callback and power modules it drives.          *)
(*                                                                         *)
(* Two tasks run the code: the task of the state machine and the SLE task, *)
(* whose DISCONNECTED callback starts the announcement as well.  They      *)
(* interleave between any two calls of the stack; what main waits for in   *)
(* milliseconds is long against a callback, so a wait of main ends only    *)
(* after the SLE task and the stack have finished.                         *)
(*                                                                         *)
(* Abstracted: a payload is the rounds its battery level and its goods id  *)
(* were generated in, modulo Rounds, and the form it is encoded in.  Left  *)
(* out because no call of this program reaches it: STATE_CONNECTED (nobody *)
(* calls conn_update_state), STATE_MESH_RELAY and the sleep vetoes.        *)
(***************************************************************************)
EXTENDS Naturals, Sequences

CONSTANTS
  Rounds,     \* rounds are counted modulo this number
  MaxFaults   \* bound: calls of the stack that fail

ASSUME RoundsAssumption == Rounds \in Nat \ {0, 1, 2}
ASSUME FaultsAssumption == MaxFaults \in Nat

Main == "main"
Sle == "sle"
Tasks == {Main, Sle}

VARIABLES
  pc,             \* per task: the step it makes next
  state,          \* g_current_state
  adv_state,      \* g_adv_state
  enable_status,  \* g_sle_enable_status
  registered,     \* the SLE callbacks are registered
  servers,        \* stack: servers the program has registered and not given back
  battery, goods, \* g_inventory_info: the round that generated each
  adv_data,       \* g_adv_data
  mode,           \* g_pm_current_mode
  short,          \* the state transition durations are 0
  pm_sys,         \* CONFIG_PM_SYS_SUPPORT
  airdata,        \* stack: the data of the announcement
  onair, link,    \* stack: announcing; a client is connected
  reqs,           \* stack: requests it has not carried out yet
  faults          \* calls of the stack that failed

machine == <<pc, state>>
adv == <<adv_state, adv_data>>
info == <<battery, goods>>
boot == <<enable_status, registered, servers>>
pm == <<mode, short, pm_sys>>
stack == <<airdata, onair, link, reqs>>
vars == <<machine, adv, info, boot, pm, stack, faults>>

Payload(b, g, form) == [battery |-> b, goods |-> g, form |-> form]

\* What RAM and the stack hold after power-up and after a wake-up by reset.
PowerUp ==
  [pc |-> [t \in Tasks |-> IF t = Main THEN "init" ELSE "idle"], state |-> "INIT",
   adv_state |-> "IDLE", adv_data |-> Payload(0, 0, "none"), airdata |-> Payload(0, 0, "none")]

Init ==
  /\ pc = PowerUp.pc /\ state = PowerUp.state
  /\ adv_state = PowerUp.adv_state /\ adv_data = PowerUp.adv_data
  /\ enable_status = FALSE /\ registered = FALSE /\ servers = 0
  /\ battery = 0 /\ goods = 0
  /\ mode = "work" /\ short = FALSE /\ pm_sys \in BOOLEAN
  /\ airdata = PowerUp.airdata /\ onair = FALSE /\ link = FALSE /\ reqs = <<>>
  /\ faults = 0

Goto(t, step) == pc' = [pc EXCEPT ![t] = step]

Fault == faults < MaxFaults /\ faults' = faults + 1

Awake == mode # "sleep" /\ pc[Main] # "asleep"

At(t, step) == Awake /\ pc[t] = step

\* The SLE task has no callback to finish and the stack no request.
Settled == pc[Sle] = "idle" /\ reqs = <<>>

-----------------------------------------------------------------------------
(* STATE_INIT: tag_init_all_modules, again every second until it succeeds.  *)

RegisterAll ==
  /\ At(Main, "init")
  /\ \/ /\ registered' = TRUE
        /\ adv_state' = "CONFIGURED"
        /\ Goto(Main, "register")
        /\ UNCHANGED faults
     \/ Fault /\ registered' \in {registered, TRUE} /\ Goto(Main, "init wait") /\ UNCHANGED adv_state
  /\ UNCHANGED <<state, adv_data, info, enable_status, servers, pm, stack>>

\* ssaps_register_server of conn_service_add.
RegisterServer ==
  /\ At(Main, "register")
  /\ \/ servers' = servers + 1 /\ Goto(Main, "service") /\ UNCHANGED faults
     \/ Fault /\ Goto(Main, "init wait") /\ UNCHANGED servers
  /\ UNCHANGED <<state, adv, info, enable_status, registered, pm, stack>>

\* Mutant: a failed call keeps the server.
FillServerKeeps ==
  /\ At(Main, "service")
  /\ \/ /\ Goto(Main, "adv")
        /\ state' = "ADV"
        /\ UNCHANGED <<servers, faults>>
     \/ Fault /\ Goto(Main, "init wait") /\ UNCHANGED <<servers, state>>
  /\ UNCHANGED <<adv, info, enable_status, registered, pm, stack>>

\* The service, its properties and its start; every failure gives the server
\* back.  The command property is optional.  pm_init does not fail.
FillServer ==
  /\ At(Main, "service")
  /\ \/ /\ Goto(Main, "adv")
        /\ state' = "ADV"
        /\ UNCHANGED <<servers, faults>>
     \/ Fault /\ servers' = servers - 1 /\ Goto(Main, "init wait") /\ UNCHANGED state
  /\ UNCHANGED <<adv, info, enable_status, registered, pm, stack>>

-----------------------------------------------------------------------------
(* adv_start, in either task.                                              *)

\* Where it returns to.
Started(t) == IF t = Main THEN "poll" ELSE "idle"
Failed(t) == IF t = Main THEN "adv wait" ELSE "idle"

TestRunning(t) ==
  /\ At(t, "start")
  /\ Goto(t, IF adv_state = "RUNNING" THEN Started(t)
             ELSE IF ~enable_status THEN Failed(t) ELSE "param")
  /\ UNCHANGED <<state, adv, info, boot, pm, stack, faults>>

\* adv_set_default_param.
SetParam(t) ==
  /\ At(t, "param")
  /\ \/ Goto(t, "pack") /\ UNCHANGED faults
     \/ Fault /\ Goto(t, Failed(t))
  /\ UNCHANGED <<state, adv, info, boot, pm, stack>>

\* Mutant: the buffer is packed once only.
PackFirst(t) ==
  /\ At(t, "pack")
  /\ adv_data' = IF adv_data.form = "none" THEN Payload(battery, goods, "packet") ELSE adv_data
  /\ Goto(t, "data")
  /\ UNCHANGED <<state, adv_state, info, boot, pm, stack, faults>>

\* adv_set_broadcast_data packs the record into the shared buffer ...
Pack(t) ==
  /\ At(t, "pack")
  /\ adv_data' = Payload(battery, goods, "packet")
  /\ Goto(t, "data")
  /\ UNCHANGED <<state, adv_state, info, boot, pm, stack, faults>>

\* ... and hands the buffer to the stack.
SetData(t) ==
  /\ At(t, "data")
  /\ \/ airdata' = adv_data /\ Goto(t, "announce") /\ UNCHANGED faults
     \/ Fault /\ Goto(t, Failed(t)) /\ UNCHANGED airdata
  /\ UNCHANGED <<state, adv, info, boot, pm, onair, link, reqs>>

StartAnnounce(t) ==
  /\ At(t, "announce")
  /\ \/ reqs' = Append(reqs, "start") /\ Goto(t, "running") /\ UNCHANGED faults
     \/ Fault /\ Goto(t, Failed(t)) /\ UNCHANGED reqs
  /\ UNCHANGED <<state, adv, info, boot, pm, airdata, onair, link>>

\* Mutant: RUNNING is left to the main task.
SetRunningMain(t) ==
  /\ At(t, "running")
  /\ adv_state' = IF t = Main THEN "RUNNING" ELSE adv_state
  /\ Goto(t, Started(t))
  /\ UNCHANGED <<state, adv_data, info, boot, pm, stack, faults>>

SetRunning(t) ==
  /\ At(t, "running")
  /\ adv_state' = "RUNNING"
  /\ Goto(t, Started(t))
  /\ UNCHANGED <<state, adv_data, info, boot, pm, stack, faults>>

-----------------------------------------------------------------------------
(* STATE_ADV and STATE_SLEEP of the main task.                             *)

\* data_generate_mock_battery, then data_generate_mock_goods_id.
GenerateBattery ==
  /\ At(Main, "adv")
  /\ battery' = (battery + 1) % Rounds
  /\ Goto(Main, "goods")
  /\ UNCHANGED <<state, adv, goods, boot, pm, stack, faults>>

GenerateGoods ==
  /\ At(Main, "goods")
  /\ goods' = (goods + 1) % Rounds
  /\ Goto(Main, "start")
  /\ UNCHANGED <<state, adv, battery, boot, pm, stack, faults>>

\* tag_report_data_via_adv overwrites the buffer with the bytes of the struct;
\* its failure is only logged.
Report ==
  /\ At(Main, "poll") /\ Settled
  /\ adv_data' = Payload(battery, goods, "struct")
  /\ \/ airdata' = adv_data' /\ UNCHANGED faults
     \/ Fault /\ UNCHANGED airdata
  /\ Goto(Main, "report wait")
  /\ UNCHANGED <<state, adv_state, info, boot, pm, onair, link, reqs>>

\* REPORT_DELAY_MS, then SLEEP; the other waits are those of the retries, a
\* second long, and SLEEP_DELAY_MS.
Wait ==
  /\ Settled
  /\ \/ At(Main, "report wait") /\ state' = "SLEEP" /\ Goto(Main, "stop")
     \/ At(Main, "init wait") /\ Goto(Main, "init") /\ UNCHANGED state
     \/ At(Main, "adv wait") /\ Goto(Main, "adv") /\ UNCHANGED state
     \/ At(Main, "sleep wait") /\ Goto(Main, "sleep") /\ UNCHANGED state
     \/ At(Main, "sleep retry") /\ Goto(Main, "stop") /\ UNCHANGED state
  /\ UNCHANGED <<adv, info, boot, pm, stack, faults>>

\* tag_enter_sleep: adv_stop, whose failure is only logged; conn_disconnect
\* finds no connection, as conn_id is always 0.
Stop ==
  /\ At(Main, "stop")
  /\ \/ /\ adv_state = "RUNNING"
        /\ reqs' = Append(reqs, "stop") /\ Goto(Main, "stopped") /\ UNCHANGED faults
     \/ adv_state = "RUNNING" /\ Fault /\ Goto(Main, "sleep wait") /\ UNCHANGED reqs
     \/ adv_state # "RUNNING" /\ Goto(Main, "sleep wait") /\ UNCHANGED <<reqs, faults>>
  /\ UNCHANGED <<state, adv, info, boot, pm, airdata, onair, link>>

\* Mutant: the state is left as it was.
SetStoppedNot ==
  /\ At(Main, "stopped")
  /\ Goto(Main, "sleep wait")
  /\ UNCHANGED <<state, adv, info, boot, pm, stack, faults>>

SetStopped ==
  /\ At(Main, "stopped")
  /\ adv_state' = "STOPPED"
  /\ Goto(Main, "sleep wait")
  /\ UNCHANGED <<state, adv_data, info, boot, pm, stack, faults>>

\* pm_enter_deep_sleep: an error without CONFIG_PM_SYS_SUPPORT; otherwise the
\* durations become 0 and stay so.
DeepSleep ==
  /\ At(Main, "sleep")
  /\ Goto(Main, IF pm_sys THEN "asleep" ELSE "sleep retry")
  /\ short' = pm_sys
  /\ UNCHANGED <<state, adv, info, boot, mode, pm_sys, stack, faults>>

\* uapi_pm_enter_udsleep returns: tag_handle_wakeup, then ADV again.  The mode
\* was never changed, so pm_wakeup returns at once if it is WORK.
WakeUp ==
  /\ pc[Main] = "asleep" /\ mode # "sleep"
  /\ mode' = "work"
  /\ state' = "ADV"
  /\ Goto(Main, "adv")
  /\ UNCHANGED <<adv, info, boot, short, pm_sys, stack, faults>>

\* ... or the wake-up is a reset.
Reset ==
  /\ pc[Main] = "asleep"
  /\ pc' = PowerUp.pc /\ state' = PowerUp.state
  /\ adv_state' = PowerUp.adv_state /\ adv_data' = PowerUp.adv_data
  /\ enable_status' = FALSE /\ registered' = FALSE /\ servers' = 0
  /\ battery' = 0 /\ goods' = 0
  /\ mode' = "work" /\ short' = FALSE
  /\ airdata' = PowerUp.airdata /\ onair' = FALSE /\ link' = FALSE /\ reqs' = <<>>
  /\ UNCHANGED <<pm_sys, faults>>

-----------------------------------------------------------------------------
(* The power manager, once the durations are 0 and every task waits.       *)

Idle == Settled /\ pc[Main] \in {"poll", "init wait", "report wait", "adv wait", "sleep wait"}

WorkToStandby ==
  /\ short /\ Idle /\ mode = "work"
  /\ mode' = "standby"
  /\ UNCHANGED <<machine, adv, info, boot, short, pm_sys, stack, faults>>

\* adv_stop under the interrupt lock.
StandbyToSleep ==
  /\ Idle /\ mode = "standby"
  /\ mode' = "sleep"
  /\ \/ /\ adv_state = "RUNNING"
        /\ reqs' = Append(reqs, "stop") /\ adv_state' = "STOPPED" /\ UNCHANGED faults
     \/ adv_state = "RUNNING" /\ Fault /\ UNCHANGED <<reqs, adv_state>>
     \/ adv_state # "RUNNING" /\ UNCHANGED <<reqs, adv_state, faults>>
  /\ UNCHANGED <<machine, adv_data, info, boot, short, pm_sys, airdata, onair, link>>

ToWork ==
  /\ mode \in {"standby", "sleep"}
  /\ mode' = "work"
  /\ UNCHANGED <<machine, adv, info, boot, short, pm_sys, stack, faults>>

-----------------------------------------------------------------------------
(* Callbacks and the stack.                                                *)

\* sle_enable_cb with either status; sle_disable_cb ends what is on the air.
EnableCbk ==
  /\ registered /\ Awake /\ pc[Sle] = "idle"
  /\ \/ enable_status' = TRUE /\ UNCHANGED <<onair, link, reqs>>
     \/ enable_status' = FALSE /\ onair' = FALSE /\ link' = FALSE /\ reqs' = <<>>
  /\ UNCHANGED <<machine, adv, info, registered, servers, pm, airdata, faults>>

\* The announce callbacks only log how a request ended.
StackStart ==
  /\ reqs # <<>> /\ Head(reqs) = "start"
  /\ reqs' = Tail(reqs)
  /\ \/ onair' = TRUE /\ UNCHANGED faults
     \/ UNCHANGED onair /\ IF onair THEN UNCHANGED faults ELSE Fault
  /\ UNCHANGED <<machine, adv, info, boot, pm, airdata, link>>

StackStop ==
  /\ reqs # <<>> /\ Head(reqs) = "stop"
  /\ reqs' = Tail(reqs)
  /\ \/ onair' = FALSE /\ UNCHANGED faults
     \/ onair /\ UNCHANGED onair /\ Fault
  /\ UNCHANGED <<machine, adv, info, boot, pm, airdata, link>>

\* A client connects, which ends the announcement.  The CONNECTED callback
\* notifies a connection the program does not know: nothing is sent.
Connect ==
  /\ onair /\ ~link
  /\ onair' = FALSE /\ link' = TRUE
  /\ UNCHANGED <<machine, adv, info, boot, pm, airdata, reqs, faults>>

\* The client leaves; the DISCONNECTED callback calls adv_start(0).
Disconnect ==
  /\ link /\ Awake /\ pc[Sle] = "idle"
  /\ link' = FALSE
  /\ Goto(Sle, "start")
  /\ UNCHANGED <<state, adv, info, boot, pm, airdata, onair, reqs, faults>>

AdvStart(t) ==
  TestRunning(t) \/ SetParam(t) \/ Pack(t) \/ SetData(t) \/ StartAnnounce(t) \/ SetRunning(t)

Machine ==
  \/ RegisterAll \/ RegisterServer \/ FillServer
  \/ GenerateBattery \/ GenerateGoods \/ AdvStart(Main)
  \/ Report \/ Wait \/ Stop \/ SetStopped \/ DeepSleep

Next ==
  \/ Machine \/ AdvStart(Sle) \/ WakeUp \/ Reset
  \/ WorkToStandby \/ StandbyToSleep \/ ToWork
  \/ EnableCbk \/ StackStart \/ StackStop \/ Connect \/ Disconnect

\* The tasks run, the stack serves its requests.  Nothing wakes the tag up,
\* and no client comes or leaves, by fairness.
Fairness ==
  /\ SF_vars(Machine) /\ SF_vars(AdvStart(Sle))
  /\ WF_vars(StackStart) /\ WF_vars(StackStop)

Spec == Init /\ [][Next]_vars /\ Fairness

-----------------------------------------------------------------------------
(* Properties.                                                             *)

AdvStartLabels == {"start", "param", "pack", "data", "announce", "running"}
MainLabels ==
  {"init", "register", "service", "init wait", "adv", "goods", "adv wait", "poll", "report wait",
   "stop", "stopped", "sleep wait", "sleep", "sleep retry", "asleep"}

Forms == {"none", "packet", "struct"}
Payloads == [battery : 0 .. Rounds - 1, goods : 0 .. Rounds - 1, form : Forms]

\* Every variable has its type: the tasks are at one of their steps, and only
\* the main task leaves adv_start.
TypeOK ==
  /\ pc \in [Tasks -> AdvStartLabels \cup MainLabels \cup {"idle"}]
  /\ pc[Main] # "idle" /\ pc[Sle] \in AdvStartLabels \cup {"idle"}
  /\ state \in {"INIT", "ADV", "SLEEP"}
  /\ adv_state \in {"IDLE", "CONFIGURED", "RUNNING", "STOPPED"}
  /\ enable_status \in BOOLEAN /\ registered \in BOOLEAN /\ servers \in Nat
  /\ battery \in 0 .. Rounds - 1 /\ goods \in 0 .. Rounds - 1
  /\ adv_data \in Payloads /\ airdata \in Payloads
  /\ mode \in {"work", "standby", "sleep"} /\ short \in BOOLEAN /\ pm_sys \in BOOLEAN
  /\ onair \in BOOLEAN /\ link \in BOOLEAN
  /\ reqs \in Seq({"start", "stop"})
  /\ faults \in 0 .. MaxFaults

\* However often initialization fails and is tried again, at most one server
\* stays registered; and a client that finds the tag finds its service.
ServerBehindAir == servers <= 1 /\ (onair \/ link => servers = 1)

\* As long as no call has failed: when no handler runs, a tag that is not
\* RUNNING is not on the air, whichever task started or stopped it last, so
\* that the next adv_start is not refused as a repetition.
StoppedIsOffAir == Settled /\ faults = 0 /\ adv_state # "RUNNING" /\ pc[Main] \notin AdvStartLabels \cup {"stopped"}
  => ~onair

Recent(n, now) == n \in {now, (now + Rounds - 1) % Rounds}

\* As long as no call has failed: while a round broadcasts, the payload is a
\* packet of this round or, if a client left during the sleep, of the last one;
\* the bytes of the struct that Report leaves in the buffer never survive.
AirIsRecent ==
  Settled /\ faults = 0 /\ onair /\ pc[Main] = "poll" =>
    /\ airdata.form = "packet"
    /\ Recent(airdata.battery, battery) /\ Recent(airdata.goods, goods)

\* A client that ends the announcement leaves adv_state at RUNNING, and so does
\* a call that fails: neither silences the tag for ever.  While SLE stays on and
\* the tag goes on having rounds, it goes on being on the air.
AnnouncesAgain == <>[]enable_status /\ []<>(pc[Main] = "adv") => []<>onair

=============================================================================
