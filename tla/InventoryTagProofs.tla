------------------------- MODULE InventoryTagProofs -------------------------
(***************************************************************************)
(* Proofs about InventoryTag, for every number of rounds and of failures.  *)
(***************************************************************************)
EXTENDS InventoryTag, SequenceTheorems, TLAPS

Requests == {"start", "stop"}
AllLabels == AdvStartLabels \cup MainLabels \cup {"idle"}
Unserved == {"init", "register", "init wait"}
Booting == Unserved \cup {"service"}

\* The types of TypeOK, but for the counters.
Kinds ==
  /\ pc \in [Tasks -> AllLabels]
  /\ pc[Main] # "idle" /\ pc[Sle] \in AdvStartLabels \cup {"idle"}
  /\ state \in {"INIT", "ADV", "SLEEP"}
  /\ adv_state \in {"IDLE", "CONFIGURED", "RUNNING", "STOPPED"}
  /\ enable_status \in BOOLEAN /\ registered \in BOOLEAN
  /\ mode \in {"work", "standby", "sleep"} /\ short \in BOOLEAN /\ pm_sys \in BOOLEAN
  /\ onair \in BOOLEAN /\ link \in BOOLEAN
  /\ reqs \in Seq(Requests)

Counts == faults \in Nat /\ faults <= MaxFaults

\* The data, with its rounds.
Data ==
  /\ battery \in 0 .. Rounds - 1 /\ goods \in 0 .. Rounds - 1
  /\ adv_data \in Payloads /\ airdata \in Payloads

\* A server is registered from "service" on, and until initialization is over
\* nothing is asked of the stack and nobody hears of the tag.
Boot ==
  /\ pc[Main] \in Unserved => servers = 0
  /\ pc[Main] \notin Unserved => servers = 1
  /\ pc[Main] \in Booting =>
       adv_state # "RUNNING" /\ pc[Sle] = "idle" /\ reqs = <<>> /\ ~onair /\ ~link

\* While the main task stops the announcement, the SLE task does not start one.
Apart ==
  /\ pc[Main] = "stopped" => adv_state = "RUNNING"
  /\ pc[Main] \in {"stop", "stopped"} /\ adv_state = "RUNNING" => pc[Sle] \in {"idle", "start"}

\* The last request, or the radio if there is none, is off.
EndsOff == IF reqs = <<>> THEN ~onair ELSE reqs[Len(reqs)] = "stop"

\* A stop that was asked for is noted, and a start before it is: unless a task
\* is between the two, a tag that is not RUNNING ends up off the air.
Silent ==
  faults = 0 =>
    /\ adv_state # "RUNNING" /\ (\A t \in Tasks : pc[t] # "running") => EndsOff
    /\ pc[Main] = "stopped" => EndsOff

\* The SLE task that is in adv_start keeps SLE enabled.
Enabled == pc[Sle] \notin {"idle", "start"} => enable_status

\* A payload p is, with the main task at m, a packet of this round or the last; of this
\* round until the next one generates its battery level b, then its goods id g.
BeforeBattery ==
  {"report wait", "stop", "stopped", "sleep wait", "sleep", "sleep retry", "asleep", "adv wait", "adv"}
Fresh(p, m, b, g) ==
  /\ p.form = "packet" /\ Recent(p.battery, b) /\ Recent(p.goods, g)
  /\ m \in BeforeBattery => p.battery = b
  /\ m \in BeforeBattery \cup {"goods"} => p.goods = g
IsFresh(p) == Fresh(p, pc[Main], battery, goods)

\* A task that has packed the buffer has packed this, and one that has handed it over has
\* handed over this; it is still this when the main task finds itself RUNNING.
Handed == {"announce", "running"}
RoundLabels ==
  {"sleep wait", "sleep", "sleep retry", "asleep", "adv wait", "adv", "goods"} \cup AdvStartLabels
Carried ==
  faults = 0 =>
    /\ \A t \in Tasks : pc[t] = "data" => IsFresh(adv_data)
    /\ \A t \in Tasks : pc[t] \in Handed => IsFresh(airdata)
    /\ pc[Main] = "poll" => IsFresh(airdata)
    /\ adv_state = "RUNNING" /\ pc[Main] \in RoundLabels => IsFresh(airdata)

IInv == Kinds /\ Counts /\ Data /\ Boot /\ Apart /\ Silent /\ Enabled /\ Carried

\* The names of the tasks differ.
LEMMA TwoTasks == Main \in Tasks /\ Sle \in Tasks /\ Main # Sle /\ Tasks = {Main, Sle}
BY DEF Tasks, Main, Sle

-----------------------------------------------------------------------------
(* Types.                                                                  *)

\* A request keeps the queue a sequence.
LEMMA QueueTypes ==
  ASSUME reqs \in Seq(Requests)
  PROVE  /\ \A r \in Requests : Append(reqs, r) \in Seq(Requests)
         /\ reqs # <<>> => Tail(reqs) \in Seq(Requests)
BY AppendProperties, HeadTailProperties, EmptySeq

\* A step to another label keeps pc a function, and the tasks apart.
LEMMA GotoTypes ==
  ASSUME pc \in [Tasks -> AllLabels], NEW t \in Tasks, NEW l \in AllLabels, Goto(t, l)
  PROVE  /\ pc' \in [Tasks -> AllLabels]
         /\ pc'[t] = l /\ \A u \in Tasks \ {t} : pc'[u] = pc[u]
BY DEF Goto

\* Every action keeps the kinds.
LEMMA KindsStep == ASSUME Kinds, [Next]_vars PROVE Kinds'
<1> USE TwoTasks DEF Kinds
<1>t. reqs \in Seq(Requests) /\ <<>> \in Seq(Requests)
  OBVIOUS
<1>1. CASE RegisterAll \/ RegisterServer
  <2>1. \E l \in {"register", "init wait", "service"} : Goto(Main, l)
    BY <1>1 DEF RegisterAll, RegisterServer
  <2>2. pc' \in [Tasks -> AllLabels] /\ pc'[Main] # "idle" /\ pc'[Sle] = pc[Sle]
    BY <2>1, GotoTypes DEF AllLabels, MainLabels
  <2>3. adv_state' \in {adv_state, "CONFIGURED"}
    BY <1>1 DEF RegisterAll, RegisterServer, adv
  <2>5. registered' \in BOOLEAN
    BY <1>1 DEF RegisterAll, RegisterServer
  <2>4. UNCHANGED <<state, enable_status, mode, short, pm_sys, onair, link, reqs>>
    BY <1>1 DEF RegisterAll, RegisterServer, pm, stack
  <2> QED BY <2>2, <2>3, <2>4, <2>5
<1>2. CASE FillServer
  <2>1. \E l \in {"adv", "init wait"} : Goto(Main, l)
    BY <1>2 DEF FillServer
  <2>2. pc' \in [Tasks -> AllLabels] /\ pc'[Main] # "idle" /\ pc'[Sle] = pc[Sle]
    BY <2>1, GotoTypes DEF AllLabels, MainLabels
  <2>3. UNCHANGED <<adv_state, enable_status, registered, mode, short, pm_sys, onair, link, reqs>>
    BY <1>2 DEF FillServer, adv, pm, stack
  <2>4. state' = state \/ state' = "ADV"
    BY <1>2 DEF FillServer
  <2> QED BY <2>2, <2>3, <2>4
<1>3. CASE GenerateBattery \/ GenerateGoods \/ DeepSleep
  <2>1. \E l \in {"goods", "start", "asleep", "sleep retry"} : Goto(Main, l)
    BY <1>3 DEF GenerateBattery, GenerateGoods, DeepSleep
  <2>2. pc' \in [Tasks -> AllLabels] /\ pc'[Main] # "idle" /\ pc'[Sle] = pc[Sle]
    BY <2>1, GotoTypes DEF AllLabels, MainLabels, AdvStartLabels
  <2>3. UNCHANGED <<state, adv_state, enable_status, registered, mode, pm_sys, onair, link, reqs>>
    BY <1>3 DEF GenerateBattery, GenerateGoods, DeepSleep, adv, boot, pm, stack
  <2>4. short' \in {short, pm_sys}
    BY <1>3 DEF GenerateBattery, GenerateGoods, DeepSleep, pm
  <2> QED BY <2>2, <2>3, <2>4
<1>4. ASSUME NEW t \in Tasks, AdvStart(t) PROVE Kinds'
  <2>1. \E l \in AdvStartLabels \cup {Started(t), Failed(t)} : Goto(t, l)
    BY <1>4 DEF AdvStart, TestRunning, SetParam, Pack, SetData, StartAnnounce, SetRunning, AdvStartLabels
  <2>2. /\ pc' \in [Tasks -> AllLabels] /\ pc'[Main] # "idle"
        /\ pc'[Sle] \in AdvStartLabels \cup {"idle"}
    <3>1. CASE t = Main
      <4>1. PICK l \in AdvStartLabels \cup {"poll", "adv wait"} : Goto(Main, l)
        BY <3>1, <2>1 DEF Started, Failed
      <4>2. l \in AllLabels /\ l # "idle"
        BY DEF AllLabels, MainLabels, AdvStartLabels
      <4> QED BY <4>1, <4>2, GotoTypes
    <3>2. CASE t = Sle
      <4>1. PICK l \in AdvStartLabels \cup {"idle"} : Goto(Sle, l)
        BY <3>2, <2>1 DEF Started, Failed
      <4>2. l \in AllLabels
        BY DEF AllLabels
      <4> QED BY <4>1, <4>2, GotoTypes
    <3> QED BY <3>1, <3>2
  <2>3. reqs' \in Seq(Requests)
    BY <1>4, QueueTypes DEF AdvStart, TestRunning, SetParam, Pack, SetData, StartAnnounce,
         SetRunning, Requests, stack
  <2>4. adv_state' \in {adv_state, "RUNNING"}
    BY <1>4 DEF AdvStart, TestRunning, SetParam, Pack, SetData, StartAnnounce, SetRunning, adv
  <2>5. UNCHANGED <<state, enable_status, registered, mode, short, pm_sys, onair, link>>
    BY <1>4 DEF AdvStart, TestRunning, SetParam, Pack, SetData, StartAnnounce, SetRunning, boot, pm, stack
  <2> QED BY <2>2, <2>3, <2>4, <2>5
<1>5. CASE Report \/ Wait \/ Stop \/ SetStopped
  <2>1. \E l \in MainLabels \cup {"stop"} : Goto(Main, l)
    BY <1>5 DEF Report, Wait, Stop, SetStopped, MainLabels
  <2>2. pc' \in [Tasks -> AllLabels] /\ pc'[Main] # "idle" /\ pc'[Sle] = pc[Sle]
    BY <2>1, GotoTypes DEF AllLabels, MainLabels
  <2>3. reqs' \in Seq(Requests)
    BY <1>5, QueueTypes DEF Report, Wait, Stop, SetStopped, Requests, stack
  <2>4. adv_state' \in {adv_state, "STOPPED"} /\ state' \in {state, "SLEEP"}
    BY <1>5 DEF Report, Wait, Stop, SetStopped, adv
  <2>5. UNCHANGED <<enable_status, registered, mode, short, pm_sys, onair, link>>
    BY <1>5 DEF Report, Wait, Stop, SetStopped, boot, pm, stack
  <2> QED BY <2>2, <2>3, <2>4, <2>5
<1>6. CASE WakeUp
  <2>1. pc' \in [Tasks -> AllLabels] /\ pc'[Main] # "idle" /\ pc'[Sle] = pc[Sle]
    <3>1. Goto(Main, "adv") /\ "adv" \in AllLabels
      BY <1>6 DEF WakeUp, AllLabels, MainLabels
    <3> QED BY <3>1, GotoTypes
  <2> QED BY <1>6, <2>1 DEF WakeUp, adv, info, boot, stack
<1>7. CASE Reset
  <2>1. pc' = [t \in Tasks |-> IF t = Main THEN "init" ELSE "idle"]
        /\ state' = "INIT" /\ adv_state' = "IDLE" /\ reqs' = <<>>
    BY <1>7 DEF Reset, PowerUp
  <2>2. "init" \in AllLabels /\ "idle" \in AllLabels
    BY DEF AllLabels, MainLabels
  <2>3. pc' \in [Tasks -> AllLabels] /\ pc'[Main] # "idle" /\ pc'[Sle] = "idle"
    BY <2>1, <2>2
  <2>4. /\ enable_status' \in BOOLEAN /\ registered' \in BOOLEAN /\ short' \in BOOLEAN
        /\ onair' \in BOOLEAN /\ link' \in BOOLEAN
        /\ mode' = "work" /\ pm_sys' = pm_sys
    BY <1>7 DEF Reset
  <2> QED BY <2>1, <2>3, <2>4
<1>8. CASE WorkToStandby \/ ToWork
  BY <1>8 DEF WorkToStandby, ToWork, machine, adv, info, boot, stack
<1>9. CASE StandbyToSleep
  <2>1. reqs' \in Seq(Requests)
    BY <1>9, QueueTypes DEF StandbyToSleep, Requests
  <2> QED BY <1>9, <2>1 DEF StandbyToSleep, machine, info, boot
<1>10. CASE EnableCbk
  <2>1. enable_status' \in BOOLEAN /\ onair' \in BOOLEAN /\ link' \in BOOLEAN
    BY <1>10 DEF EnableCbk
  <2>3. reqs' = reqs \/ reqs' = <<>>
    BY <1>10 DEF EnableCbk
  <2>4. reqs' \in Seq(Requests)
    BY <2>3, <1>t
  <2>2. UNCHANGED <<pc, state, adv_state, registered, mode, short, pm_sys>>
    BY <1>10 DEF EnableCbk, machine, adv, pm
  <2> QED BY <2>1, <2>2, <2>4
<1>11. CASE StackStart \/ StackStop
  <2>1. reqs' \in Seq(Requests)
    BY <1>11, QueueTypes DEF StackStart, StackStop
  <2>2. onair' \in BOOLEAN
    BY <1>11 DEF StackStart, StackStop
  <2>3. UNCHANGED <<pc, state, adv_state, enable_status, registered, mode, short, pm_sys, link>>
    BY <1>11 DEF StackStart, StackStop, machine, adv, boot, pm
  <2> QED BY <2>1, <2>2, <2>3
<1>12. CASE Connect
  BY <1>12 DEF Connect, machine, adv, info, boot, pm
<1>13. CASE Disconnect
  <2>1. pc' \in [Tasks -> AllLabels] /\ pc'[Main] = pc[Main] /\ pc'[Sle] = "start"
    BY <1>13, GotoTypes DEF Disconnect, AllLabels, AdvStartLabels
  <2> QED BY <1>13, <2>1 DEF Disconnect, AdvStartLabels, adv, info, boot, pm
<1>14. CASE UNCHANGED vars
  BY <1>14 DEF vars, machine, adv, info, boot, pm, stack
<1> QED
  BY <1>1, <1>2, <1>3, <1>4, <1>5, <1>6, <1>7, <1>8, <1>9, <1>10, <1>11, <1>12, <1>13, <1>14
  DEF Next, Machine

\* A round is counted modulo Rounds.
LEMMA NextRound == ASSUME NEW n \in 0 .. Rounds - 1 PROVE (n + 1) % Rounds \in 0 .. Rounds - 1
BY RoundsAssumption DEF RoundsAssumption

\* Every action counts its failure at most once, and only up to the bound.
LEMMA CountsStep == ASSUME Counts, [Next]_vars PROVE Counts' /\ (faults' = 0 => faults = 0)
<1>1. UNCHANGED faults \/ Fault
  BY DEF Next, Machine, AdvStart, RegisterAll, RegisterServer, FillServer, GenerateBattery,
     GenerateGoods, TestRunning, SetParam, Pack, SetData, StartAnnounce, SetRunning, Report, Wait,
     Stop, SetStopped, DeepSleep, WakeUp, Reset, WorkToStandby, StandbyToSleep, ToWork, EnableCbk,
     StackStart, StackStop, Connect, Disconnect, vars
<1> QED BY <1>1, FaultsAssumption DEF Counts, Fault, FaultsAssumption

\* Every action keeps the data's types.
LEMMA DataStep == ASSUME Data, [Next]_vars PROVE Data'
<1> USE RoundsAssumption DEF Data, RoundsAssumption
<1>1. ASSUME NEW t \in Tasks, Pack(t) PROVE Data'
  BY <1>1 DEF Pack, Payload, Payloads, Forms, info, stack
<1>2. ASSUME NEW t \in Tasks, SetData(t) PROVE Data'
  BY <1>2 DEF SetData, adv, info
<1>3. CASE Report
  <2>1. Payload(battery, goods, "struct") \in Payloads
    BY DEF Payload, Payloads, Forms
  <2>2. UNCHANGED <<battery, goods>> /\ adv_data' = Payload(battery, goods, "struct")
        /\ airdata' \in {airdata, adv_data'}
    BY <1>3 DEF Report, info
  <2> QED BY <2>1, <2>2
<1>4. CASE GenerateBattery
  BY <1>4, NextRound DEF GenerateBattery, adv, stack
<1>5. CASE GenerateGoods
  BY <1>5, NextRound DEF GenerateGoods, adv, stack
<1>6. CASE Reset
  BY <1>6 DEF Reset, PowerUp, Payload, Payloads, Forms
<1>7. CASE UNCHANGED <<battery, goods, adv_data, airdata>>
  BY <1>7
<1>8. ASSUME NEW t \in Tasks, TestRunning(t) \/ SetParam(t) \/ StartAnnounce(t) \/ SetRunning(t)
      PROVE  UNCHANGED <<battery, goods, adv_data, airdata>>
  BY <1>8 DEF TestRunning, SetParam, StartAnnounce, SetRunning, adv, info, stack
<1>9. RegisterAll \/ RegisterServer \/ FillServer \/ Wait \/ Stop \/ SetStopped \/ DeepSleep
      => UNCHANGED <<battery, goods, adv_data, airdata>>
  BY DEF RegisterAll, RegisterServer, FillServer, Wait, Stop, SetStopped, DeepSleep, adv, info, stack
<1>10. WakeUp \/ WorkToStandby \/ StandbyToSleep \/ ToWork
       => UNCHANGED <<battery, goods, adv_data, airdata>>
  BY DEF WakeUp, WorkToStandby, StandbyToSleep, ToWork, adv, info, stack
<1>11. EnableCbk \/ StackStart \/ StackStop \/ Connect \/ Disconnect \/ UNCHANGED vars
       => UNCHANGED <<battery, goods, adv_data, airdata>>
  BY DEF EnableCbk, StackStart, StackStop, Connect, Disconnect, vars, adv, info, stack
<1> QED
  BY <1>1, <1>2, <1>3, <1>4, <1>5, <1>6, <1>7, <1>8, <1>9, <1>10, <1>11, TwoTasks
  DEF Next, Machine, AdvStart


-----------------------------------------------------------------------------
(* Initialization.                                                         *)

\* One server more than none, and one less than one.
LEMMA OneServer == 0 + 1 = 1 /\ 1 - 1 = 0
OBVIOUS

\* Every action keeps the server and the silence until it is registered.
LEMMA BootStep == ASSUME Kinds, Boot, [Next]_vars PROVE Boot'
<1> USE TwoTasks DEF Boot, Booting, Unserved, Goto, At
<1>t. pc \in [Tasks -> AllLabels]
  BY DEF Kinds
<1>1. CASE RegisterAll
  BY <1>1, <1>t DEF RegisterAll, stack
<1>2. CASE RegisterServer
  <2>1. UNCHANGED <<adv_state, onair, link, reqs>>
    BY <1>2 DEF RegisterServer, adv, stack
  <2>2. /\ pc[Main] = "register"
        /\ \/ servers' = servers + 1 /\ pc' = [pc EXCEPT ![Main] = "service"]
           \/ servers' = servers /\ pc' = [pc EXCEPT ![Main] = "init wait"]
    BY <1>2 DEF RegisterServer
  <2>3. pc'[Main] \in {"service", "init wait"} /\ pc'[Sle] = pc[Sle]
    BY <2>2, <1>t
  <2>6. servers = 0
    BY <2>2
  <2>7. (pc'[Main] = "service" /\ servers' = 1) \/ (pc'[Main] = "init wait" /\ servers' = 0)
    BY <2>2, <2>6, <1>t, OneServer
  <2>4. /\ pc'[Main] \in Unserved => servers' = 0
        /\ pc'[Main] \notin Unserved => servers' = 1
    BY <2>7
  <2>5. pc[Main] \in Booting
    BY <2>2
  <2> QED BY <2>1, <2>3, <2>4, <2>5
<1>3. CASE FillServer
  <2>1. UNCHANGED <<adv_state, onair, link, reqs>>
    BY <1>3 DEF FillServer, adv, stack
  <2>2. /\ pc[Main] = "service"
        /\ \/ servers' = servers /\ pc' = [pc EXCEPT ![Main] = "adv"]
           \/ servers' = servers - 1 /\ pc' = [pc EXCEPT ![Main] = "init wait"]
    BY <1>3 DEF FillServer
  <2>3. pc'[Main] \in {"adv", "init wait"} /\ pc'[Sle] = pc[Sle]
    BY <2>2, <1>t
  <2>6. servers = 1
    BY <2>2
  <2>7. (pc'[Main] = "adv" /\ servers' = 1) \/ (pc'[Main] = "init wait" /\ servers' = 0)
    BY <2>2, <2>6, <1>t, OneServer
  <2>4. /\ pc'[Main] \in Unserved => servers' = 0
        /\ pc'[Main] \notin Unserved => servers' = 1
    BY <2>7
  <2>5. pc[Main] \in Booting
    BY <2>2
  <2> QED BY <2>1, <2>3, <2>4, <2>5
<1>4. CASE GenerateBattery \/ GenerateGoods \/ DeepSleep \/ SetStopped \/ Report
  <2>1. pc[Main] \in {"adv", "goods", "sleep", "stopped", "poll"} /\ servers' = servers
    BY <1>4 DEF GenerateBattery, GenerateGoods, DeepSleep, SetStopped, Report, boot
  <2>2. \E l \in {"goods", "start", "asleep", "sleep retry", "sleep wait", "report wait"} :
          pc' = [pc EXCEPT ![Main] = l]
    BY <1>4 DEF GenerateBattery, GenerateGoods, DeepSleep, SetStopped, Report
  <2> QED BY <2>1, <2>2, <1>t
<1>5. ASSUME NEW t \in Tasks, AdvStart(t) PROVE Boot'
  <2>1. pc[t] \in AdvStartLabels /\ servers' = servers
    BY <1>5 DEF AdvStart, TestRunning, SetParam, Pack, SetData, StartAnnounce, SetRunning,
         AdvStartLabels, boot
  <2>2. pc[Main] \notin Booting
    BY <2>1 DEF AdvStartLabels
  <2>3. \E l \in AdvStartLabels \cup {Started(t), Failed(t)} : pc' = [pc EXCEPT ![t] = l]
    BY <1>5 DEF AdvStart, TestRunning, SetParam, Pack, SetData, StartAnnounce, SetRunning, AdvStartLabels
  <2>4. pc'[Main] \notin Booting
    BY <2>2, <2>3, <1>t DEF AdvStartLabels, Started, Failed
  <2> QED BY <2>1, <2>2, <2>4
<1>6. CASE Wait
  BY <1>6, <1>t DEF Wait, adv, boot, stack
<1>7. CASE Stop
  BY <1>7, <1>t DEF Stop, boot
<1>8. CASE WakeUp
  BY <1>8, <1>t DEF WakeUp, boot
<1>9. CASE Reset
  BY <1>9 DEF Reset, PowerUp
<1>10. CASE WorkToStandby \/ ToWork
  <2>1. UNCHANGED <<pc, adv_state, servers, onair, link, reqs>>
    BY <1>10 DEF WorkToStandby, ToWork, machine, adv, boot, stack
  <2> QED BY <2>1
<1>11. CASE StandbyToSleep
  BY <1>11 DEF StandbyToSleep, machine, boot
<1>12. CASE EnableCbk
  <2>1. \/ UNCHANGED <<onair, link, reqs>>
        \/ ~onair' /\ ~link' /\ reqs' = <<>>
    BY <1>12 DEF EnableCbk
  <2>2. UNCHANGED <<pc, adv_state, servers>>
    BY <1>12 DEF EnableCbk, machine, adv
  <2>3. CASE UNCHANGED <<onair, link, reqs>>
    BY <2>2, <2>3
  <2>4. CASE ~onair' /\ ~link' /\ reqs' = <<>>
    BY <2>2, <2>4
  <2> QED BY <2>1, <2>3, <2>4
<1>13. CASE StackStart \/ StackStop
  <2>1. reqs # <<>> /\ UNCHANGED <<pc, servers>>
    BY <1>13 DEF StackStart, StackStop, machine, boot
  <2> QED BY <2>1
<1>14. CASE Connect
  BY <1>14 DEF Connect, machine, boot
<1>15. CASE Disconnect
  BY <1>15, <1>t DEF Disconnect, boot
<1>16. CASE UNCHANGED vars
  BY <1>16 DEF vars, machine, adv, boot, stack
<1> QED
  BY <1>1, <1>2, <1>3, <1>4, <1>5, <1>6, <1>7, <1>8, <1>9, <1>10, <1>11, <1>12, <1>13, <1>14,
     <1>15, <1>16 DEF Next, Machine

-----------------------------------------------------------------------------
(* Two tasks and one announcement.                                         *)

\* Every action keeps the SLE task out of a stop.
LEMMA ApartStep == ASSUME Kinds, Boot, Apart, [Next]_vars PROVE Apart'
<1> USE TwoTasks DEF Apart, Goto, At
<1>t. pc \in [Tasks -> AllLabels] /\ pc[Sle] \in AdvStartLabels \cup {"idle"}
  BY DEF Kinds
<1>1. CASE RegisterAll
  BY <1>1, <1>t DEF RegisterAll
<1>2. CASE RegisterServer \/ FillServer \/ GenerateBattery \/ GenerateGoods \/ DeepSleep \/ Report
  <2>1. \E l \in {"service", "init wait", "adv", "goods", "start", "asleep", "sleep retry", "report wait"} :
          pc' = [pc EXCEPT ![Main] = l]
    BY <1>2 DEF RegisterServer, FillServer, GenerateBattery, GenerateGoods, DeepSleep, Report
  <2> QED BY <2>1, <1>t
<1>3. CASE AdvStart(Main)
  <2>1. \E l \in AdvStartLabels \cup {"poll", "adv wait"} : pc' = [pc EXCEPT ![Main] = l]
    BY <1>3 DEF AdvStart, TestRunning, SetParam, Pack, SetData, StartAnnounce, SetRunning,
         AdvStartLabels, Started, Failed
  <2> QED BY <2>1, <1>t DEF AdvStartLabels
<1>4. CASE TestRunning(Sle)
  BY <1>4, <1>t DEF TestRunning, Started, Failed, adv
<1>5. CASE SetParam(Sle) \/ Pack(Sle) \/ SetData(Sle) \/ StartAnnounce(Sle)
  <2>1. pc[Sle] \notin {"idle", "start"} /\ adv_state' = adv_state
    BY <1>5 DEF SetParam, Pack, SetData, StartAnnounce, adv
  <2>2. pc'[Main] = pc[Main]
    BY <1>5, <1>t DEF SetParam, Pack, SetData, StartAnnounce
  <2> QED BY <2>1, <2>2
<1>6. CASE SetRunning(Sle)
  BY <1>6, <1>t DEF SetRunning, Started
<1>7. CASE Wait
  BY <1>7, <1>t DEF Wait, Settled, adv
<1>8. CASE Stop
  BY <1>8, <1>t DEF Stop, adv
<1>9. CASE SetStopped
  BY <1>9, <1>t DEF SetStopped
<1>10. CASE WakeUp
  BY <1>10, <1>t DEF WakeUp
<1>11. CASE Reset
  BY <1>11 DEF Reset, PowerUp
<1>12. CASE StandbyToSleep
  BY <1>12, <1>t DEF StandbyToSleep, Idle, machine
<1>13. CASE Disconnect
  BY <1>13, <1>t DEF Disconnect, adv
<1>14. CASE UNCHANGED <<pc, adv_state>>
  BY <1>14
<1>15. WorkToStandby \/ ToWork \/ EnableCbk \/ StackStart \/ StackStop \/ Connect \/ UNCHANGED vars
       => UNCHANGED <<pc, adv_state>>
  BY DEF WorkToStandby, ToWork, EnableCbk, StackStart, StackStop, Connect, vars, machine, adv
<1> QED
  BY <1>1, <1>2, <1>3, <1>4, <1>5, <1>6, <1>7, <1>8, <1>9, <1>10, <1>11, <1>12, <1>13, <1>14,
     <1>15 DEF Next, Machine, AdvStart

\* A request that is appended is the last one.
LEMMA LastRequest ==
  ASSUME reqs \in Seq(Requests), NEW r \in Requests, reqs' = Append(reqs, r)
  PROVE  reqs' # <<>> /\ reqs'[Len(reqs')] = r
BY AppendProperties

\* Serving the first request leaves the last one last.
LEMMA RestOfRequests ==
  ASSUME reqs \in Seq(Requests), reqs # <<>>, reqs' = Tail(reqs), reqs' # <<>>
  PROVE  reqs'[Len(reqs')] = reqs[Len(reqs)]
<1>1. Len(reqs) \in Nat /\ Len(reqs') = Len(reqs) - 1 /\ reqs' \in Seq(Requests)
  BY HeadTailProperties
<1>2. Len(reqs') \in 1 .. Len(reqs')
  BY <1>1, EmptySeq
<1> QED BY <1>1, <1>2, HeadTailProperties

\* The only request is the first and the last one.
LEMMA OnlyRequest ==
  ASSUME reqs \in Seq(Requests), reqs # <<>>, Tail(reqs) = <<>>
  PROVE  reqs[Len(reqs)] = Head(reqs)
<1>1. Head(reqs) = reqs[1] /\ Len(Tail(reqs)) = Len(reqs) - 1 /\ Len(reqs) \in Nat
  BY HeadTailProperties
<1>2. Len(Tail(reqs)) = 0
  BY EmptySeq
<1>3. Len(reqs) = 1
  BY <1>1, <1>2
<1> QED BY <1>1, <1>3

\* Every action keeps the announcement ending as the program noted.
LEMMA SilentStep == ASSUME Kinds, Counts, Boot, Apart, Silent, [Next]_vars PROVE Silent'
<1> USE TwoTasks DEF Goto, At
<1>t. /\ pc \in [Tasks -> AllLabels] /\ pc[Sle] \in AdvStartLabels \cup {"idle"}
      /\ reqs \in Seq(Requests)
  BY DEF Kinds
<1> SUFFICES ASSUME faults' = 0
             PROVE  /\ adv_state' # "RUNNING" /\ (\A t \in Tasks : pc'[t] # "running") => EndsOff'
                    /\ pc'[Main] = "stopped" => EndsOff'
  BY DEF Silent
<1>0. /\ faults = 0
      /\ adv_state # "RUNNING" /\ (\A t \in Tasks : pc[t] # "running") => EndsOff
      /\ pc[Main] = "stopped" => EndsOff
  BY CountsStep DEF Silent
<1>k. UNCHANGED <<onair, reqs>> => EndsOff' = EndsOff
  BY DEF EndsOff
<1>1. CASE RegisterAll
  <2>1. EndsOff
    BY <1>1 DEF RegisterAll, Boot, Booting, Unserved, EndsOff
  <2>2. UNCHANGED <<onair, reqs>>
    BY <1>1 DEF RegisterAll, stack
  <2> QED BY <2>1, <2>2, <1>k
<1>2. CASE RegisterServer \/ FillServer \/ GenerateBattery \/ GenerateGoods \/ DeepSleep \/ Report
        \/ Wait \/ WakeUp
  <2>1. /\ pc[Main] # "running"
        /\ \E l \in AllLabels \ {"running", "stopped"} : pc' = [pc EXCEPT ![Main] = l]
    BY <1>2 DEF RegisterServer, FillServer, GenerateBattery, GenerateGoods, DeepSleep, Report, Wait,
         WakeUp, AllLabels, MainLabels, AdvStartLabels
  <2>2. UNCHANGED <<onair, reqs, adv_state>>
    BY <1>2 DEF RegisterServer, FillServer, GenerateBattery, GenerateGoods, DeepSleep, Report, Wait,
         WakeUp, adv, stack
  <2> QED BY <2>1, <2>2, <1>k, <1>0, <1>t
<1>3. ASSUME NEW t \in Tasks, TestRunning(t) \/ SetParam(t) \/ Pack(t) \/ SetData(t)
      PROVE  /\ adv_state' # "RUNNING" /\ (\A u \in Tasks : pc'[u] # "running") => EndsOff'
             /\ pc'[Main] = "stopped" => EndsOff'
  <2>1. /\ pc[t] # "running"
        /\ \E l \in AllLabels \ {"running", "stopped"} : pc' = [pc EXCEPT ![t] = l]
    BY <1>3 DEF TestRunning, SetParam, Pack, SetData, AllLabels, MainLabels, AdvStartLabels,
         Started, Failed
  <2>2. UNCHANGED <<onair, reqs, adv_state>>
    BY <1>3 DEF TestRunning, SetParam, Pack, SetData, adv, stack
  <2> QED BY <2>1, <2>2, <1>k, <1>0, <1>t
<1>4. ASSUME NEW t \in Tasks, StartAnnounce(t)
      PROVE  /\ adv_state' # "RUNNING" /\ (\A u \in Tasks : pc'[u] # "running") => EndsOff'
             /\ pc'[Main] = "stopped" => EndsOff'
  <2>1. pc'[t] = "running"
    BY <1>4, <1>0, <1>t DEF StartAnnounce, Fault, Counts
  <2>2. pc[t] = "announce" /\ pc'[Main] \in {pc[Main], "running"}
    BY <1>4, <2>1, <1>0, <1>t DEF StartAnnounce
  <2>3. pc'[Main] # "stopped"
    BY <2>2, <1>t DEF Apart
  <2> QED BY <2>1, <2>3
<1>5. ASSUME NEW t \in Tasks, SetRunning(t)
      PROVE  /\ adv_state' # "RUNNING" /\ (\A u \in Tasks : pc'[u] # "running") => EndsOff'
             /\ pc'[Main] = "stopped" => EndsOff'
  <2>1. adv_state' = "RUNNING" /\ UNCHANGED <<onair, reqs>>
    BY <1>5 DEF SetRunning, stack
  <2>2. pc'[Main] = "stopped" => pc[Main] = "stopped"
    BY <1>5, <1>t DEF SetRunning, Started
  <2> QED BY <2>1, <2>2, <1>k, <1>0
<1>6. CASE Stop
  <2>1. CASE adv_state = "RUNNING"
    <3>1. reqs' = Append(reqs, "stop") /\ adv_state' = "RUNNING"
      BY <1>6, <2>1, <1>0 DEF Stop, Fault, Counts, adv
    <3>2. EndsOff'
      BY <3>1, <1>t, LastRequest DEF EndsOff, Requests
    <3> QED BY <3>2
  <2>2. CASE adv_state # "RUNNING"
    <3>1. pc' = [pc EXCEPT ![Main] = "sleep wait"] /\ UNCHANGED <<onair, reqs, adv_state>>
      BY <1>6, <2>2 DEF Stop, adv
    <3>2. pc[Main] = "stop"
      BY <1>6 DEF Stop
    <3> QED BY <3>1, <3>2, <1>k, <1>0, <1>t
  <2> QED BY <2>1, <2>2
<1>7. CASE SetStopped
  <2>1. EndsOff /\ UNCHANGED <<onair, reqs>>
    BY <1>7, <1>0 DEF SetStopped, stack
  <2> QED BY <2>1, <1>k
<1>8. CASE Reset
  BY <1>8 DEF Reset, PowerUp, EndsOff
<1>9. CASE StandbyToSleep
  <2>1. pc' = pc /\ pc[Main] # "stopped" /\ pc[Sle] = "idle" /\ pc[Main] # "running"
    BY <1>9 DEF StandbyToSleep, Idle, Settled, machine
  <2>2. CASE adv_state = "RUNNING"
    <3>1. reqs' = Append(reqs, "stop")
      BY <1>9, <2>2, <1>0 DEF StandbyToSleep, Fault, Counts
    <3> QED BY <3>1, <1>t, LastRequest DEF EndsOff, Requests
  <2>3. CASE adv_state # "RUNNING"
    <3>1. UNCHANGED <<onair, reqs, adv_state>>
      BY <1>9, <2>3 DEF StandbyToSleep
    <3> QED BY <3>1, <2>1, <1>k, <1>0
  <2> QED BY <2>2, <2>3
<1>10. CASE WorkToStandby \/ ToWork \/ UNCHANGED vars
  <2>1. UNCHANGED <<onair, reqs, adv_state, pc>>
    BY <1>10 DEF WorkToStandby, ToWork, vars, machine, adv, stack
  <2> QED BY <2>1, <1>k, <1>0
<1>11. CASE EnableCbk
  <2>1. UNCHANGED <<pc, adv_state>>
    BY <1>11 DEF EnableCbk, machine, adv
  <2>2. UNCHANGED <<onair, reqs>> \/ (~onair' /\ reqs' = <<>>)
    BY <1>11 DEF EnableCbk
  <2>3. CASE ~onair' /\ reqs' = <<>>
    BY <2>3 DEF EndsOff
  <2> QED BY <2>1, <2>2, <2>3, <1>k, <1>0
<1>12. CASE StackStart \/ StackStop
  <2>1. UNCHANGED <<pc, adv_state>> /\ reqs # <<>> /\ reqs' = Tail(reqs)
    BY <1>12 DEF StackStart, StackStop, machine, adv
  <2>2. ASSUME EndsOff PROVE EndsOff'
    <3>1. CASE reqs' = <<>>
      <4>1. Head(reqs) = "stop"
        BY <2>1, <2>2, <3>1, <1>t, OnlyRequest DEF EndsOff
      <4>2. ~onair'
        BY <4>1, <1>12, <1>0 DEF StackStart, StackStop, Fault, Counts
      <4> QED BY <4>2, <3>1 DEF EndsOff
    <3>2. CASE reqs' # <<>>
      BY <2>1, <2>2, <3>2, <1>t, RestOfRequests DEF EndsOff
    <3> QED BY <3>1, <3>2
  <2> QED BY <2>1, <2>2, <1>0
<1>13. CASE Connect
  <2>1. UNCHANGED <<pc, adv_state, reqs>> /\ ~onair'
    BY <1>13 DEF Connect, machine, adv
  <2>2. EndsOff => EndsOff'
    BY <2>1 DEF EndsOff
  <2> QED BY <2>1, <2>2, <1>0
<1>14. CASE Disconnect
  <2>1. pc[Sle] = "idle" /\ pc' = [pc EXCEPT ![Sle] = "start"]
    BY <1>14 DEF Disconnect
  <2>2. UNCHANGED <<onair, reqs, adv_state>>
    BY <1>14 DEF Disconnect, adv
  <2> QED BY <2>1, <2>2, <1>k, <1>0, <1>t
<1> QED
  BY <1>1, <1>2, <1>3, <1>4, <1>5, <1>6, <1>7, <1>8, <1>9, <1>10, <1>11, <1>12, <1>13, <1>14
  DEF Next, Machine, AdvStart

-----------------------------------------------------------------------------
(* What the announcement carries.                                          *)

\* Every action keeps SLE enabled while the SLE task is in adv_start.
LEMMA EnabledStep == ASSUME Kinds, Enabled, [Next]_vars PROVE Enabled'
<1> USE TwoTasks DEF Enabled, Goto, At
<1>t. pc \in [Tasks -> AllLabels]
  BY DEF Kinds
<1>1. CASE Machine
  <2>1. UNCHANGED enable_status /\ \E l \in AllLabels : pc' = [pc EXCEPT ![Main] = l]
    <3>1. CASE RegisterAll \/ RegisterServer \/ FillServer \/ GenerateBattery \/ GenerateGoods
      BY <3>1 DEF RegisterAll, RegisterServer, FillServer, GenerateBattery, GenerateGoods,
                  AllLabels, MainLabels, AdvStartLabels, boot
    <3>2. CASE AdvStart(Main)
      BY <3>2 DEF AdvStart, TestRunning, SetParam, Pack, SetData, StartAnnounce, SetRunning,
                  Started, Failed, AllLabels, MainLabels, AdvStartLabels, boot
    <3>3. CASE Report \/ Wait \/ Stop \/ SetStopped \/ DeepSleep
      BY <3>3 DEF Report, Wait, Stop, SetStopped, DeepSleep, AllLabels, MainLabels, boot
    <3> QED BY <1>1, <3>1, <3>2, <3>3 DEF Machine
  <2> QED BY <2>1, <1>t
<1>2. CASE TestRunning(Sle)
  BY <1>2, <1>t DEF TestRunning, Started, Failed, boot
<1>3. CASE SetParam(Sle) \/ Pack(Sle) \/ SetData(Sle) \/ StartAnnounce(Sle) \/ SetRunning(Sle)
  <2>1. pc[Sle] \notin {"idle", "start"} /\ UNCHANGED enable_status
    BY <1>3 DEF SetParam, Pack, SetData, StartAnnounce, SetRunning, boot
  <2> QED BY <2>1
<1>4. CASE WakeUp
  BY <1>4, <1>t DEF WakeUp, boot
<1>5. CASE Reset
  BY <1>5 DEF Reset, PowerUp
<1>6. CASE EnableCbk
  BY <1>6 DEF EnableCbk, machine
<1>7. CASE Disconnect
  BY <1>7, <1>t DEF Disconnect, boot
<1>8. WorkToStandby \/ StandbyToSleep \/ ToWork \/ StackStart \/ StackStop \/ Connect \/ UNCHANGED vars
      => UNCHANGED <<pc, enable_status>>
  BY DEF WorkToStandby, StandbyToSleep, ToWork, StackStart, StackStop, Connect, vars, machine, boot
<1> QED
  BY <1>1, <1>2, <1>3, <1>4, <1>5, <1>6, <1>7, <1>8 DEF Next, AdvStart

\* The round before the next one is this one.
LEMMA LastRound ==
  ASSUME NEW n \in 0 .. Rounds - 1
  PROVE  Recent(n, n) /\ Recent(n, (n + 1) % Rounds)
<1>1. Rounds \in Nat \ {0}
  BY RoundsAssumption DEF RoundsAssumption
<1>2. CASE n + 1 < Rounds
  <2>1. (n + 1) % Rounds = n + 1
    BY <1>1, <1>2
  <2>2. (n + 1 + Rounds - 1) % Rounds = n
    BY <1>1
  <2> QED BY <2>1, <2>2 DEF Recent
<1>3. CASE n + 1 = Rounds
  <2>1. (n + 1) % Rounds = 0
    BY <1>1, <1>3
  <2>2. (0 + Rounds - 1) % Rounds = Rounds - 1 /\ n = Rounds - 1
    BY <1>1, <1>3
  <2> QED BY <2>1, <2>2 DEF Recent
<1> QED BY <1>1, <1>2, <1>3

\* A payload stays fresh when no round is generated and the main task does not go back.
LEMMA FreshKept ==
  ASSUME UNCHANGED <<battery, goods>>,
         pc'[Main] \in BeforeBattery => pc[Main] \in BeforeBattery,
         pc'[Main] = "goods" => pc[Main] \in BeforeBattery \cup {"goods"}
  PROVE  \A p : IsFresh(p) => Fresh(p, pc'[Main], battery', goods')
BY DEF IsFresh, Fresh

\* What is packed now is fresh, wherever the main task is.
LEMMA FreshNow ==
  ASSUME Data
  PROVE  \A m : Fresh(Payload(battery, goods, "packet"), m, battery, goods)
BY LastRound DEF Data, Fresh, Payload

\* Every action keeps what the announcement carries fresh.
LEMMA CarriedStep ==
  ASSUME Kinds, Counts, Data, Boot, Apart, Enabled, Carried, [Next]_vars
  PROVE  Carried'
<1> DEFINE Now(p) == Fresh(p, pc'[Main], battery', goods')
           Goal == /\ \A t \in Tasks : pc'[t] = "data" => Now(adv_data')
                   /\ \A t \in Tasks : pc'[t] \in Handed => Now(airdata')
                   /\ pc'[Main] = "poll" => Now(airdata')
                   /\ adv_state' = "RUNNING" /\ pc'[Main] \in RoundLabels => Now(airdata')
<1> SUFFICES ASSUME faults' = 0 PROVE Goal
  BY DEF Carried, IsFresh
<1>c. /\ \A t \in Tasks : pc[t] = "data" => IsFresh(adv_data)
      /\ \A t \in Tasks : pc[t] \in Handed => IsFresh(airdata)
      /\ pc[Main] = "poll" => IsFresh(airdata)
      /\ adv_state = "RUNNING" /\ pc[Main] \in RoundLabels => IsFresh(airdata)
  BY CountsStep DEF Carried
<1>f. faults = 0 /\ ~Fault
  BY CountsStep DEF Fault
<1>t. /\ pc \in [Tasks -> AllLabels] /\ pc[Sle] \in AdvStartLabels \cup {"idle"}
  BY DEF Kinds
<1> USE TwoTasks
<1> HIDE DEF Goal, Now
\* No task has something on its way, and the main task none to take over.
<1>q. ASSUME pc'[Sle] \notin {"data"} \cup Handed, pc'[Main] \notin {"data", "poll"} \cup Handed,
             adv_state' # "RUNNING" \/ pc'[Main] \notin RoundLabels
      PROVE  Goal
  BY <1>q DEF Goal
\* Nothing is generated, packed or handed over, and no task gets where it claims more.
<1>k. ASSUME \A p : IsFresh(p) => Now(p), UNCHANGED <<adv_data, airdata>>,
             \A t \in Tasks : pc'[t] = "data" => pc[t] = "data",
             \A t \in Tasks : pc'[t] \in Handed => pc[t] \in Handed,
             pc'[Main] = "poll" => IsFresh(airdata),
             adv_state' = "RUNNING" /\ pc'[Main] \in RoundLabels => IsFresh(airdata)
      PROVE  Goal
  BY <1>k, <1>c DEF Goal
<1>1. CASE RegisterAll \/ RegisterServer
  <2>1. pc[Main] \in {"init", "register"}
        /\ \E l \in {"register", "service", "init wait"} : pc' = [pc EXCEPT ![Main] = l]
    BY <1>1 DEF RegisterAll, RegisterServer, At, Goto
  <2>2. pc'[Main] \in {"register", "service", "init wait"} /\ pc'[Sle] = "idle"
    BY <2>1, <1>t DEF Boot, Booting, Unserved
  <2> QED BY <2>2, <1>q DEF RoundLabels, AdvStartLabels, Handed
<1>2. CASE FillServer
  <2>1. pc[Main] = "service" /\ adv_state' = adv_state
        /\ \E l \in {"adv", "init wait"} : pc' = [pc EXCEPT ![Main] = l]
    BY <1>2 DEF FillServer, At, Goto, adv
  <2>2. pc'[Main] \in {"adv", "init wait"} /\ pc'[Sle] = "idle" /\ adv_state' # "RUNNING"
    BY <2>1, <1>t DEF Boot, Booting
  <2> QED BY <2>2, <1>q DEF Handed
<1>3. CASE GenerateBattery
  <2>1. /\ pc[Main] = "adv" /\ pc' = [pc EXCEPT ![Main] = "goods"]
        /\ battery' = (battery + 1) % Rounds
        /\ UNCHANGED <<goods, adv_state, adv_data, airdata>>
    BY <1>3 DEF GenerateBattery, At, Goto, adv, stack
  <2>2. pc'[Main] = "goods" /\ pc'[Sle] = pc[Sle]
    BY <2>1, <1>t
  <2>3. Recent(battery, battery')
    BY <2>1, LastRound DEF Data
  <2>4. \A p : IsFresh(p) => Now(p)
    BY <2>1, <2>2, <2>3 DEF IsFresh, Now, Fresh, BeforeBattery
  <2> QED BY <2>1, <2>2, <2>4, <1>k, <1>c DEF RoundLabels, Handed
<1>4. CASE GenerateGoods
  <2>1. /\ pc[Main] = "goods" /\ pc' = [pc EXCEPT ![Main] = "start"]
        /\ goods' = (goods + 1) % Rounds
        /\ UNCHANGED <<battery, adv_state, adv_data, airdata>>
    BY <1>4 DEF GenerateGoods, At, Goto, adv, stack
  <2>2. pc'[Main] = "start" /\ pc'[Sle] = pc[Sle]
    BY <2>1, <1>t
  <2>3. Recent(goods, goods')
    BY <2>1, LastRound DEF Data
  <2>4. \A p : IsFresh(p) => Now(p)
    BY <2>1, <2>2, <2>3 DEF IsFresh, Now, Fresh, BeforeBattery
  <2> QED BY <2>1, <2>2, <2>4, <1>k, <1>c DEF RoundLabels, Handed
<1>5. CASE TestRunning(Main)
  <2>1. /\ pc[Main] = "start"
        /\ pc' = [pc EXCEPT ![Main] = IF adv_state = "RUNNING" THEN "poll"
                                      ELSE IF ~enable_status THEN "adv wait" ELSE "param"]
        /\ UNCHANGED <<battery, goods, adv_state, adv_data, airdata>>
    BY <1>5 DEF TestRunning, Started, Failed, At, Goto, adv, info, stack
  <2>2. pc'[Sle] = pc[Sle]
        /\ pc'[Main] = IF adv_state = "RUNNING" THEN "poll"
                       ELSE IF ~enable_status THEN "adv wait" ELSE "param"
    BY <2>1, <1>t
  <2>3. CASE adv_state # "RUNNING" /\ ~enable_status
    <3>1. pc[Sle] \in {"idle", "start"}
      BY <2>3 DEF Enabled
    <3>2. pc'[Main] = "adv wait"
      BY <2>2, <2>3
    <3>3. pc'[Sle] \in {"idle", "start"} /\ adv_state' # "RUNNING"
      BY <2>1, <2>2, <2>3, <3>1
    <3> QED BY <3>2, <3>3, <1>q DEF Handed
  <2>4. CASE adv_state = "RUNNING" \/ enable_status
    <3>1. pc'[Main] \in {"poll", "param"} /\ (pc'[Main] = "poll" => adv_state = "RUNNING")
      BY <2>2, <2>4
    <3>2. pc[Main] \in RoundLabels
      BY <2>1 DEF RoundLabels, AdvStartLabels
    <3>3. /\ pc'[Main] \in {"poll", "param"} /\ (pc'[Main] = "poll" => adv_state = "RUNNING")
          /\ (adv_state = "RUNNING" => IsFresh(airdata))
      BY <3>1, <3>2, <1>c
    <3>4. \A p : IsFresh(p) => Now(p)
      BY <2>1, <3>3, FreshKept DEF Now, BeforeBattery
    <3> QED BY <2>1, <2>2, <3>3, <3>4, <1>k DEF Handed
  <2> QED BY <2>3, <2>4
<1>6. CASE TestRunning(Sle)
  <2>1. /\ pc[Sle] = "start" /\ \E l \in {"idle", "param"} : pc' = [pc EXCEPT ![Sle] = l]
        /\ UNCHANGED <<battery, goods, adv_state, adv_data, airdata>>
    BY <1>6 DEF TestRunning, Started, Failed, At, Goto, adv, info, stack
  <2>2. pc'[Main] = pc[Main] /\ pc'[Sle] \in {"idle", "param"}
    BY <2>1, <1>t
  <2>3. \A p : IsFresh(p) => Now(p)
    BY <2>1, <2>2, FreshKept DEF Now
  <2> QED BY <2>1, <2>2, <2>3, <1>c, <1>k DEF Handed
<1>7. ASSUME NEW t \in Tasks, SetParam(t) PROVE Goal
  <2>1. /\ pc[t] = "param" /\ pc' = [pc EXCEPT ![t] = "pack"]
        /\ UNCHANGED <<battery, goods, adv_state, adv_data, airdata>>
    BY <1>7, <1>f DEF SetParam, At, Goto, adv, info, stack
  <2>2. pc'[t] = "pack" /\ \A u \in Tasks \ {t} : pc'[u] = pc[u]
    BY <2>1, <1>t
  <2>3. \A p : IsFresh(p) => Now(p)
    BY <2>1, <2>2, FreshKept DEF Now, BeforeBattery
  <2>4. pc'[Main] # "poll" \/ pc[Main] = "poll"
    BY <2>2
  <2>5. pc'[Main] \in RoundLabels => pc[Main] \in RoundLabels
    BY <2>1, <2>2 DEF RoundLabels, AdvStartLabels
  <2> QED BY <2>1, <2>2, <2>3, <2>4, <2>5, <1>c, <1>k DEF Handed
<1>8. ASSUME NEW t \in Tasks, Pack(t) PROVE Goal
  <2>1. /\ pc[t] = "pack" /\ pc' = [pc EXCEPT ![t] = "data"]
        /\ adv_data' = Payload(battery, goods, "packet")
        /\ UNCHANGED <<battery, goods, adv_state, airdata>>
    BY <1>8 DEF Pack, At, Goto, info, stack
  <2>2. pc'[t] = "data" /\ \A u \in Tasks \ {t} : pc'[u] = pc[u]
    BY <2>1, <1>t
  <2>3. \A p : IsFresh(p) => Now(p)
    BY <2>1, <2>2, FreshKept DEF Now, BeforeBattery
  <2>4. Now(adv_data')
    BY <2>1, FreshNow DEF Now
  <2>5. pc'[Main] \in RoundLabels => pc[Main] \in RoundLabels
    BY <2>1, <2>2 DEF RoundLabels, AdvStartLabels
  <2> QED BY <2>1, <2>2, <2>3, <2>4, <2>5, <1>c DEF Handed, Goal
<1>9. ASSUME NEW t \in Tasks, SetData(t) PROVE Goal
  <2>1. /\ pc[t] = "data" /\ pc' = [pc EXCEPT ![t] = "announce"] /\ airdata' = adv_data
        /\ UNCHANGED <<battery, goods, adv_state, adv_data>>
    BY <1>9, <1>f DEF SetData, At, Goto, adv, info
  <2>2. pc'[t] = "announce" /\ \A u \in Tasks \ {t} : pc'[u] = pc[u]
    BY <2>1, <1>t
  <2>3. \A p : IsFresh(p) => Now(p)
    BY <2>1, <2>2, FreshKept DEF Now, BeforeBattery
  <2>4. Now(airdata') /\ Now(adv_data')
    BY <2>1, <2>3, <1>c
  <2> QED BY <2>4 DEF Goal
<1>10. ASSUME NEW t \in Tasks, StartAnnounce(t) PROVE Goal
  <2>1. /\ pc[t] = "announce" /\ pc' = [pc EXCEPT ![t] = "running"]
        /\ UNCHANGED <<battery, goods, adv_state, adv_data, airdata>>
    BY <1>10, <1>f DEF StartAnnounce, At, Goto, adv, info
  <2>2. pc'[t] = "running" /\ \A u \in Tasks \ {t} : pc'[u] = pc[u]
    BY <2>1, <1>t
  <2>3. \A p : IsFresh(p) => Now(p)
    BY <2>1, <2>2, FreshKept DEF Now, BeforeBattery
  <2>4. pc'[Main] # "poll" \/ pc[Main] = "poll"
    BY <2>2
  <2>5. pc'[Main] \in RoundLabels => pc[Main] \in RoundLabels
    BY <2>1, <2>2 DEF RoundLabels, AdvStartLabels
  <2> QED BY <2>1, <2>2, <2>3, <2>4, <2>5, <1>c, <1>k DEF Handed
<1>11. ASSUME NEW t \in Tasks, SetRunning(t) PROVE Goal
  <2>1. /\ pc[t] = "running" /\ pc' = [pc EXCEPT ![t] = Started(t)]
        /\ UNCHANGED <<battery, goods, adv_data, airdata>>
    BY <1>11 DEF SetRunning, At, Goto, info, stack
  <2>2. pc'[t] = Started(t) /\ \A u \in Tasks \ {t} : pc'[u] = pc[u]
    BY <2>1, <1>t
  <2>3. Started(t) \in {"poll", "idle"} /\ (t = Main => Started(t) = "poll")
    BY DEF Started
  <2>4. \A p : IsFresh(p) => Now(p)
    BY <2>1, <2>2, <2>3, FreshKept DEF Now, BeforeBattery
  <2>5. Now(airdata')
    BY <2>1, <2>4, <1>c DEF Handed
  <2> QED BY <2>1, <2>2, <2>3, <2>4, <2>5, <1>c DEF Goal
<1>12. CASE Report
  <2>1. pc[Main] = "poll" /\ pc' = [pc EXCEPT ![Main] = "report wait"] /\ pc[Sle] = "idle"
    BY <1>12 DEF Report, At, Goto, Settled
  <2>2. pc'[Main] = "report wait" /\ pc'[Sle] = "idle"
    BY <2>1, <1>t
  <2> QED BY <2>2, <1>q DEF RoundLabels, AdvStartLabels, Handed
<1>13. CASE Wait
  <2>1. /\ pc[Sle] = "idle" /\ UNCHANGED <<battery, goods, adv_state, adv_data, airdata>>
        /\ \/ pc[Main] = "report wait" /\ pc' = [pc EXCEPT ![Main] = "stop"]
           \/ pc[Main] = "init wait" /\ pc' = [pc EXCEPT ![Main] = "init"]
           \/ pc[Main] = "adv wait" /\ pc' = [pc EXCEPT ![Main] = "adv"]
           \/ pc[Main] = "sleep wait" /\ pc' = [pc EXCEPT ![Main] = "sleep"]
           \/ pc[Main] = "sleep retry" /\ pc' = [pc EXCEPT ![Main] = "stop"]
    BY <1>13 DEF Wait, At, Goto, Settled, adv, info, stack
  <2>2. /\ pc'[Sle] = "idle"
        /\ \/ pc[Main] = "report wait" /\ pc'[Main] = "stop"
           \/ pc[Main] = "init wait" /\ pc'[Main] = "init"
           \/ pc[Main] = "adv wait" /\ pc'[Main] = "adv"
           \/ pc[Main] = "sleep wait" /\ pc'[Main] = "sleep"
           \/ pc[Main] = "sleep retry" /\ pc'[Main] = "stop"
    BY <2>1, <1>t
  <2>3. CASE pc'[Main] \in {"stop", "init"}
    BY <2>2, <2>3, <1>q DEF RoundLabels, AdvStartLabels, Handed
  <2>4. CASE pc[Main] \in {"adv wait", "sleep wait"} /\ pc'[Main] \in {"adv", "sleep"}
    <3>1. \A p : IsFresh(p) => Now(p)
      BY <2>1, <2>4, FreshKept DEF Now, BeforeBattery
    <3> QED BY <2>1, <2>2, <2>4, <3>1, <1>c, <1>k DEF RoundLabels, Handed
  <2> QED BY <2>2, <2>3, <2>4
<1>14. CASE Stop
  <2>1. /\ pc[Main] = "stop" /\ UNCHANGED <<battery, goods, adv_state, adv_data, airdata>>
        /\ \/ pc' = [pc EXCEPT ![Main] = "stopped"]
           \/ pc' = [pc EXCEPT ![Main] = "sleep wait"] /\ adv_state # "RUNNING"
    BY <1>14, <1>f DEF Stop, At, Goto, adv, info
  <2>2. /\ pc'[Sle] = pc[Sle]
        /\ pc'[Main] = "stopped" \/ (pc'[Main] = "sleep wait" /\ adv_state # "RUNNING")
    BY <2>1, <1>t
  <2>3. \A p : IsFresh(p) => Now(p)
    BY <2>1, <2>2, FreshKept DEF Now, BeforeBattery
  <2> QED BY <2>1, <2>2, <2>3, <1>k DEF RoundLabels, AdvStartLabels, Handed
<1>15. CASE SetStopped
  <2>1. /\ pc[Main] = "stopped" /\ pc' = [pc EXCEPT ![Main] = "sleep wait"]
        /\ adv_state' = "STOPPED" /\ UNCHANGED <<battery, goods, adv_data, airdata>>
    BY <1>15 DEF SetStopped, At, Goto, info, stack
  <2>2. pc'[Sle] = pc[Sle] /\ pc'[Main] = "sleep wait"
    BY <2>1, <1>t
  <2>3. \A p : IsFresh(p) => Now(p)
    BY <2>1, <2>2, FreshKept DEF Now, BeforeBattery
  <2> QED BY <2>1, <2>2, <2>3, <1>k DEF Handed
<1>16. CASE DeepSleep \/ WakeUp
  <2>1. /\ \/ pc[Main] = "sleep" /\ \E l \in {"asleep", "sleep retry"} : pc' = [pc EXCEPT ![Main] = l]
           \/ pc[Main] = "asleep" /\ pc' = [pc EXCEPT ![Main] = "adv"]
        /\ UNCHANGED <<battery, goods, adv_state, adv_data, airdata>>
    BY <1>16 DEF DeepSleep, WakeUp, At, Goto, adv, info, stack
  <2>2. /\ pc'[Sle] = pc[Sle] /\ pc[Main] \in {"sleep", "asleep"}
        /\ pc'[Main] \in {"asleep", "sleep retry", "adv"}
    BY <2>1, <1>t
  <2>3. \A p : IsFresh(p) => Now(p)
    BY <2>1, <2>2, FreshKept DEF Now, BeforeBattery
  <2> QED BY <2>1, <2>2, <2>3, <1>c, <1>k DEF RoundLabels, Handed
<1>17. CASE Reset
  <2>1. pc'[Main] = "init" /\ pc'[Sle] = "idle"
    BY <1>17 DEF Reset, PowerUp
  <2> QED BY <2>1, <1>q DEF RoundLabels, AdvStartLabels, Handed
<1>18. CASE Disconnect
  <2>1. /\ pc[Sle] = "idle" /\ pc' = [pc EXCEPT ![Sle] = "start"]
        /\ UNCHANGED <<battery, goods, adv_state, adv_data, airdata>>
    BY <1>18 DEF Disconnect, Goto, adv, info
  <2>2. pc'[Sle] = "start" /\ pc'[Main] = pc[Main]
    BY <2>1, <1>t
  <2>3. \A p : IsFresh(p) => Now(p)
    BY <2>1, <2>2, FreshKept DEF Now
  <2> QED BY <2>1, <2>2, <2>3, <1>c, <1>k DEF Handed
<1>19. CASE /\ UNCHANGED <<pc, battery, goods, adv_data, airdata>>
            /\ adv_state' = adv_state \/ adv_state' = "STOPPED"
  <2>1. \A p : IsFresh(p) => Now(p)
    BY <1>19, FreshKept DEF Now
  <2> QED BY <1>19, <2>1, <1>c, <1>k
<1>20. WorkToStandby \/ ToWork \/ EnableCbk \/ StackStart \/ StackStop \/ Connect \/ UNCHANGED vars
       => UNCHANGED <<pc, battery, goods, adv_state, adv_data, airdata>>
  BY DEF WorkToStandby, ToWork, EnableCbk, StackStart, StackStop, Connect, vars, machine, adv,
         info, stack
<1>21. StandbyToSleep => /\ UNCHANGED <<pc, battery, goods, adv_data, airdata>>
                         /\ adv_state' = adv_state \/ adv_state' = "STOPPED"
  BY DEF StandbyToSleep, machine, info
<1> QED
  BY <1>1, <1>2, <1>3, <1>4, <1>5, <1>6, <1>7, <1>8, <1>9, <1>10, <1>11, <1>12, <1>13, <1>14,
     <1>15, <1>16, <1>17, <1>18, <1>19, <1>20, <1>21
  DEF Next, Machine, AdvStart

-----------------------------------------------------------------------------
(* Theorems.                                                               *)

\* IInv holds at power-up.
LEMMA InitIInv == ASSUME Init PROVE IInv
<1> USE TwoTasks DEF Init, PowerUp
<1>1. Kinds
  <2>1. "init" \in AllLabels /\ "idle" \in AllLabels
    BY DEF AllLabels, MainLabels
  <2>2. reqs \in Seq(Requests)
    OBVIOUS
  <2> QED BY <2>1, <2>2 DEF Kinds
<1>2. Counts /\ Boot /\ Apart
  BY FaultsAssumption DEF Counts, Boot, Unserved, Apart, FaultsAssumption
<1>3. Data
  BY RoundsAssumption DEF RoundsAssumption, Data, Payload, Payloads, Forms
<1>4. Silent
  BY DEF Silent, EndsOff
<1>5. Enabled /\ Carried
  BY DEF Enabled, Carried, Handed, RoundLabels, AdvStartLabels
<1> QED BY <1>1, <1>2, <1>3, <1>4, <1>5 DEF IInv

\* Every action keeps IInv.
LEMMA NextIInv == ASSUME IInv, [Next]_vars PROVE IInv'
BY KindsStep, CountsStep, DataStep, BootStep, ApartStep, SilentStep, EnabledStep, CarriedStep DEF IInv

\* IInv holds in every run of the tag.
THEOREM Invariance == Spec => []IInv
BY InitIInv, NextIInv, PTL DEF Spec

\* Every variable keeps its type: no failure and no retry takes a task out of
\* its steps or makes the program give back a server it has not.
THEOREM TypeCorrect == Spec => []TypeOK
<1>1. ASSUME IInv PROVE TypeOK
  <2>1. servers \in Nat
    BY <1>1 DEF IInv, Boot
  <2>2. faults \in 0 .. MaxFaults
    BY <1>1, FaultsAssumption DEF IInv, Counts, FaultsAssumption
  <2> QED BY <1>1, <2>1, <2>2 DEF IInv, Kinds, Data, AllLabels, Requests, TypeOK
<1> QED BY <1>1, Invariance, PTL

\* However often initialization fails and is tried again, at most one server is
\* registered, and whoever finds or has connected the tag finds its service.
THEOREM ServerCorrect == Spec => []ServerBehindAir
<1>1. ASSUME IInv PROVE ServerBehindAir
  <2>1. servers = 1 \/ (servers = 0 /\ pc[Main] \in Booting)
    BY <1>1 DEF IInv, Boot, Booting
  <2> QED BY <1>1, <2>1 DEF IInv, Boot, ServerBehindAir
<1> QED BY <1>1, Invariance, PTL

\* As long as no call fails, a tag whose adv_state is not RUNNING is off the
\* air when things settle, whichever of the two tasks acted last.
THEOREM StoppedCorrect == Spec => []StoppedIsOffAir
<1>1. ASSUME IInv PROVE StoppedIsOffAir
  BY <1>1, TwoTasks DEF IInv, Silent, EndsOff, StoppedIsOffAir, Settled, AdvStartLabels
<1> QED BY <1>1, Invariance, PTL

\* As long as no call fails, what a round broadcasts is a packet of this round or
\* of the last one, although both tasks write the buffer and the main task then
\* overwrites it with the bytes of the struct.
THEOREM AirCorrect == Spec => []AirIsRecent
<1>1. ASSUME IInv PROVE AirIsRecent
  BY <1>1 DEF IInv, Carried, IsFresh, Fresh, AirIsRecent
<1> QED BY <1>1, Invariance, PTL

=============================================================================
