------------------------- MODULE SleAnnounceProofs --------------------------
(***************************************************************************)
(* Proofs about SleAnnounce, for every set of tasks and every bound.       *)
(***************************************************************************)
EXTENDS SleAnnounce, SequenceTheorems, TLAPS

Requests == {"start", "stop"}
Reports == {"enabled", "enable failed", "disabled", "disable failed", "terminal"}
EnableLabels == {"enable copy", "enable set", "enable ready", "enable start"}

\* A payload that is copied, set or cached is one that was published.
Numbers ==
  /\ refreshes \in Nat /\ refreshes <= MaxRefreshes
  /\ payload \in Nat /\ payload <= refreshes
  /\ airdata \in Nat /\ airdata <= payload
  /\ buf \in [Contexts -> Nat] /\ \A c \in Contexts : buf[c] <= payload
  /\ connects \in Nat /\ connects <= MaxConnects

\* The other types of TypeOK, with the two queues as sequences.
Kinds ==
  /\ ready \in BOOLEAN /\ started \in BOOLEAN /\ configured \in BOOLEAN
  /\ pc \in [Contexts -> Labels]
  /\ restart \in [Contexts -> BOOLEAN]
  /\ onair \in BOOLEAN /\ connected \in BOOLEAN
  /\ reqs \in Seq(Requests) /\ cbs \in Seq(Reports)
  /\ enabled \in BOOLEAN /\ faulted \in BOOLEAN

\* Before the stack is ready nothing is asked of it and nothing comes from it.
ReadyFirst ==
  /\ ready \/ (reqs = <<>> /\ cbs = <<>> /\ ~started /\ ~onair)
  /\ \A c \in Contexts : restart[c] => ready

\* The callbacks that change g_adv_started.
Neutral == "disable failed"
AllNeutral(i) == \A j \in i .. Len(cbs) : cbs[j] = Neutral

\* What the program will believe when it has served all callbacks is true: the
\* last callback that matters, if there is one, agrees with the radio.
Belief ==
  /\ AllNeutral(1) /\ started => onair
  /\ \A i \in 1 .. Len(cbs) : cbs[i] = "enabled" /\ AllNeutral(i + 1) => onair

\* Which context can be where.
Places ==
  \A c \in Contexts :
    /\ c # SleTask => pc[c] \notin EnableLabels
    /\ c \in PmTasks => pc[c] \in {"idle", "start"}
    /\ pc[c] \in {"stop", "copy", "set"} => ready
    /\ pc[c] \in {"enable copy", "enable set", "enable ready"} => ~ready
    /\ pc[c] \in EnableLabels \/ ready => enabled

\* The publishes that a program that is ready will still set.
Setting(c) == pc[c] \in {"ready?", "stop", "copy", "set"}

\* A payload that may end up on the radio is one that was published, and the
\* last one is among them.
Marks == current \subseteq 0 .. payload /\ payload \in current

\* As long as no call has failed: what is about to be set may end up on the
\* radio, and so may what the radio has, unless a publish is still to set its own.
Carried ==
  ~faulted =>
    /\ \A c \in Contexts :
         /\ pc[c] \in {"set", "enable set"} => buf[c] \in current
         /\ pc[c] = "enable ready" => airdata \in current /\ airdata = buf[c]
    /\ ready => airdata \in current \/ \E c \in Contexts : Setting(c)

IInv == Kinds /\ Numbers /\ ReadyFirst /\ Belief /\ Places /\ Marks /\ Carried

USE TaskAssumption, BoundAssumption DEF TaskAssumption, BoundAssumption

-----------------------------------------------------------------------------
(* The two queues.                                                         *)

\* What is appended comes last.
LEMMA Appended ==
  ASSUME NEW S, NEW s \in Seq(S), NEW e \in S
  PROVE  /\ Append(s, e) \in Seq(S) /\ Len(Append(s, e)) = Len(s) + 1
         /\ Append(s, e)[Len(s) + 1] = e
         /\ \A i \in 1 .. Len(s) : Append(s, e)[i] = s[i]
BY AppendProperties

\* What is served was first; the others move up.
LEMMA Served ==
  ASSUME NEW S, NEW s \in Seq(S), s # <<>>
  PROVE  /\ Head(s) = s[1] /\ Head(s) \in S /\ Len(s) \in Nat \ {0}
         /\ Tail(s) \in Seq(S) /\ Len(Tail(s)) = Len(s) - 1
         /\ \A i \in 1 .. Len(Tail(s)) : Tail(s)[i] = s[i + 1]
BY HeadTailProperties, EmptySeq, LenProperties

-----------------------------------------------------------------------------
(* Types.                                                                  *)

\* A request or a callback keeps its queue a sequence.
LEMMA QueueTypes ==
  ASSUME Kinds
  PROVE  /\ \A r \in Requests : Append(reqs, r) \in Seq(Requests)
         /\ \A e \in Reports : Append(cbs, e) \in Seq(Reports)
         /\ reqs # <<>> => Tail(reqs) \in Seq(Requests)
         /\ cbs # <<>> => Tail(cbs) \in Seq(Reports)
<1>1. reqs \in Seq(Requests) /\ cbs \in Seq(Reports)
  BY DEF Kinds
<1> QED BY <1>1, Appended, Served

\* The contexts are tasks, and the SLE task is one of them.
LEMMA SleIsContext == SleTask \in Contexts /\ Publishers \subseteq Contexts /\ PmTasks \subseteq Contexts
BY DEF Contexts

\* Every action keeps the kinds.
LEMMA KindsStep == ASSUME Kinds, [Next]_vars PROVE Kinds'
<1> USE DEF Kinds, Labels, Goto, Fault
<1>1. ASSUME NEW c \in Contexts, TestReady(c) PROVE Kinds'
  BY <1>1 DEF TestReady, app, stack, count
<1>2. ASSUME NEW c \in Contexts, StopForUpdate(c) PROVE Kinds'
  <2>1. reqs' \in Seq(Requests)
    BY <1>2, QueueTypes DEF StopForUpdate, Request, Requests
  <2> QED BY <1>2, <2>1 DEF StopForUpdate, app, count
<1>3. ASSUME NEW c \in Contexts, Copy(c) PROVE Kinds'
  BY <1>3 DEF Copy, app, stack, count
<1>4. ASSUME NEW c \in Contexts, SetData(c) PROVE Kinds'
  BY <1>4 DEF SetData, count
<1>5. ASSUME NEW c \in Contexts, StartIfNeeded(c) PROVE Kinds'
  <2>1. reqs' \in Seq(Requests)
    BY <1>5, QueueTypes DEF StartIfNeeded, Request, Requests
  <2> QED BY <1>5, <2>1 DEF StartIfNeeded, app, count
<1>6. ASSUME NEW c \in Publishers, Encode(c) PROVE Kinds'
  BY <1>6, SleIsContext DEF Encode, stack
<1>7. ASSUME NEW c \in PmTasks, PmSleep(c) PROVE Kinds'
  <2>1. reqs' \in Seq(Requests)
    BY <1>7, QueueTypes DEF PmSleep, Request, Requests
  <2> QED BY <1>7, <2>1 DEF PmSleep, app, local, count
<1>8. ASSUME NEW c \in PmTasks, PmWake(c) PROVE Kinds'
  BY <1>8, SleIsContext DEF PmWake, app, stack, count
<1>9. CASE EnableCbk
  BY <1>9, SleIsContext DEF EnableCbk, app, stack
<1>10. CASE BecomeReady
  BY <1>10, SleIsContext DEF BecomeReady, stack, count
<1>11. CASE AnnounceCbk
  <2>1. cbs' \in Seq(Reports)
    BY <1>11, QueueTypes DEF AnnounceCbk
  <2> QED BY <1>11, <2>1 DEF AnnounceCbk, local, count
<1>12. CASE StackStart
  <2>1. reqs' \in Seq(Requests) /\ cbs' \in Seq(Reports)
    BY <1>12, QueueTypes DEF StackStart, Report, Reports
  <2> QED BY <1>12, <2>1 DEF StackStart, app, local, count
<1>13. CASE StackStop
  <2>1. reqs' \in Seq(Requests) /\ cbs' \in Seq(Reports)
    BY <1>13, QueueTypes DEF StackStop, Report, Reports
  <2> QED BY <1>13, <2>1 DEF StackStop, app, local, count
<1>14. CASE Connect
  <2>1. cbs' \in Seq(Reports)
    BY <1>14, QueueTypes DEF Connect, Report, Reports
  <2> QED BY <1>14, <2>1 DEF Connect, app, local
<1>15. CASE Disconnect
  BY <1>15 DEF Disconnect, app, local, count
<1>16. CASE UNCHANGED vars
  BY <1>16 DEF vars, app, local, stack, count
<1> QED
  BY <1>1, <1>2, <1>3, <1>4, <1>5, <1>6, <1>7, <1>8, <1>9, <1>10, <1>11, <1>12, <1>13,
     <1>14, <1>15, <1>16 DEF Next, Step

\* Every action keeps the numbers in order.
LEMMA NumbersStep == ASSUME Numbers, [Next]_vars PROVE Numbers'
<1> USE DEF Numbers
<1>1. ASSUME NEW c \in Contexts, Copy(c) PROVE Numbers'
  <2>1. UNCHANGED <<payload, airdata, refreshes, connects>>
    BY <1>1 DEF Copy, app, stack, count
  <2>2. buf' = [buf EXCEPT ![c] = payload] \/ buf' = buf
    BY <1>1 DEF Copy
  <2>3. buf' \in [Contexts -> Nat]
    BY <2>2
  <2>4. \A d \in Contexts : buf'[d] <= payload
    BY <2>2
  <2> QED BY <2>1, <2>3, <2>4
<1>2. ASSUME NEW c \in Contexts, SetData(c) PROVE Numbers'
  BY <1>2 DEF SetData, count
<1>3. ASSUME NEW c \in Publishers, Encode(c) PROVE Numbers'
  BY <1>3 DEF Encode, stack
<1>4. CASE Connect
  BY <1>4 DEF Connect, app, local
<1>5. ASSUME NEW c \in Contexts, TestReady(c) \/ StopForUpdate(c) \/ StartIfNeeded(c)
      PROVE  Numbers'
  BY <1>5 DEF TestReady, StopForUpdate, StartIfNeeded, app, stack, count
<1>6. ASSUME NEW c \in PmTasks, PmSleep(c) \/ PmWake(c) PROVE Numbers'
  BY <1>6 DEF PmSleep, PmWake, app, local, stack, count
<1>7. CASE EnableCbk \/ BecomeReady \/ AnnounceCbk
  BY <1>7 DEF EnableCbk, BecomeReady, AnnounceCbk, app, local, stack, count
<1>8. CASE StackStart \/ StackStop \/ Disconnect
  BY <1>8 DEF StackStart, StackStop, Disconnect, app, local, count
<1>9. CASE UNCHANGED vars
  BY <1>9 DEF vars, app, local, stack, count
<1> QED
  BY <1>1, <1>2, <1>3, <1>4, <1>5, <1>6, <1>7, <1>8, <1>9 DEF Next, Step

-----------------------------------------------------------------------------
(* The stack is asked for nothing before it is ready.                      *)

\* Every action keeps it so.
LEMMA ReadyFirstStep == ASSUME Kinds, ReadyFirst, [Next]_vars PROVE ReadyFirst'
<1> USE DEF Kinds, ReadyFirst
<1>1. ASSUME NEW c \in Contexts, TestReady(c) PROVE ReadyFirst'
  BY <1>1 DEF TestReady, app, stack
<1>2. ASSUME NEW c \in Contexts, StopForUpdate(c) PROVE ReadyFirst'
  BY <1>2 DEF StopForUpdate, app
<1>3. ASSUME NEW c \in Contexts, Copy(c) \/ SetData(c) PROVE ReadyFirst'
  <2>1. UNCHANGED <<ready, started, restart, onair, reqs, cbs>>
    BY <1>3 DEF Copy, SetData, app, stack
  <2> QED BY <2>1
<1>4. ASSUME NEW c \in Contexts, StartIfNeeded(c) PROVE ReadyFirst'
  BY <1>4 DEF StartIfNeeded, app
<1>5. ASSUME NEW c \in Publishers, Encode(c) PROVE ReadyFirst'
  BY <1>5 DEF Encode, stack
<1>6. ASSUME NEW c \in PmTasks, PmSleep(c) \/ PmWake(c) PROVE ReadyFirst'
  BY <1>6 DEF PmSleep, PmWake, app, local, stack
<1>7. CASE EnableCbk \/ BecomeReady
  <2>1. UNCHANGED <<started, restart, onair, reqs, cbs>> /\ (ready => ready')
    BY <1>7 DEF EnableCbk, BecomeReady, app, stack
  <2>2. ready' \/ ready' = ready
    BY <1>7 DEF EnableCbk, BecomeReady, app
  <2> QED BY <2>1, <2>2
<1>8. CASE AnnounceCbk \/ StackStart \/ StackStop \/ Connect
  BY <1>8 DEF AnnounceCbk, StackStart, StackStop, Connect, app, local
<1>9. CASE Disconnect
  BY <1>9 DEF Disconnect, app, local
<1>10. CASE UNCHANGED vars
  BY <1>10 DEF vars, app, local, stack
<1> QED
  BY <1>1, <1>2, <1>3, <1>4, <1>5, <1>6, <1>7, <1>8, <1>9, <1>10 DEF Next, Step

-----------------------------------------------------------------------------
(* What the program believes when all callbacks are served.                *)

\* A callback that reports what the radio did keeps the belief true.
LEMMA Reported ==
  ASSUME Kinds, Belief, NEW e \in Reports, Report(e), UNCHANGED started,
         e = "enabled" => onair', e = Neutral => UNCHANGED onair
  PROVE  Belief'
<1>0. cbs \in Seq(Reports) /\ cbs' = Append(cbs, e)
  BY DEF Kinds, Report
<1>1. /\ Len(cbs) \in Nat /\ Len(cbs') = Len(cbs) + 1 /\ cbs'[Len(cbs) + 1] = e
      /\ \A i \in 1 .. Len(cbs) : cbs'[i] = cbs[i]
  BY <1>0, Appended, LenProperties
<1>2. ASSUME NEW i \in 1 .. Len(cbs) + 1, AllNeutral(i)'
      PROVE  e = Neutral /\ AllNeutral(i) /\ UNCHANGED onair
  BY <1>1, <1>2 DEF AllNeutral
<1>3. AllNeutral(1)' /\ started' => onair'
  BY <1>1, <1>2 DEF Belief
<1>4. ASSUME NEW i \in 1 .. Len(cbs'), cbs'[i] = "enabled", AllNeutral(i + 1)'
      PROVE  onair'
  <2>1. CASE i = Len(cbs) + 1
    BY <2>1, <1>1, <1>4
  <2>2. CASE i # Len(cbs) + 1
    <3>1. i \in 1 .. Len(cbs) /\ i + 1 \in 1 .. Len(cbs) + 1
      BY <2>2, <1>1
    <3>2. AllNeutral(i + 1) /\ UNCHANGED onair /\ cbs[i] = "enabled"
      BY <3>1, <1>1, <1>2, <1>4
    <3> QED BY <3>1, <3>2 DEF Belief
  <2> QED BY <2>1, <2>2
<1> QED BY <1>3, <1>4 DEF Belief

\* Serving a callback keeps the belief true.
LEMMA BeliefServed == ASSUME Kinds, Belief, AnnounceCbk PROVE Belief'
<1>1. cbs \in Seq(Reports) /\ cbs # <<>> /\ cbs' = Tail(cbs) /\ onair' = onair
  BY DEF AnnounceCbk, Kinds
<1>s. started' => \/ Head(cbs) = "enabled"
                  \/ Head(cbs) \notin {"enable failed", "disabled", "terminal"} /\ started
  BY Zenon DEF AnnounceCbk
<1>2. /\ Head(cbs) = cbs[1] /\ cbs[1] \in Reports /\ Len(cbs) \in Nat \ {0}
      /\ Len(cbs') = Len(cbs) - 1
      /\ \A i \in 1 .. Len(cbs') : cbs'[i] = cbs[i + 1]
  BY <1>1, Served
<1>3. ASSUME NEW i \in 1 .. Len(cbs), AllNeutral(i)' PROVE AllNeutral(i + 1)
  <2> SUFFICES ASSUME NEW j \in i + 1 .. Len(cbs) PROVE cbs[j] = Neutral
    BY DEF AllNeutral
  <2>1. j - 1 \in i .. Len(cbs') /\ j - 1 \in 1 .. Len(cbs') /\ (j - 1) + 1 = j
    BY <1>2
  <2>2. cbs'[j - 1] = Neutral
    BY <2>1, <1>3 DEF AllNeutral
  <2> QED BY <2>1, <2>2, <1>2
<1>4. ASSUME AllNeutral(1)', started' PROVE onair'
  <2>1. AllNeutral(2)
    BY <1>2, <1>3, <1>4
  <2>2. CASE cbs[1] = "enabled"
    <3>1. 1 \in 1 .. Len(cbs) /\ AllNeutral(1 + 1)
      BY <2>1, <1>2
    <3>2. onair
      BY <3>1, <2>2 DEF Belief
    <3> QED BY <3>2, <1>1
  <2>3. CASE cbs[1] = Neutral
    <3>1. AllNeutral(1)
      BY <2>1, <2>3, <1>2 DEF AllNeutral
    <3>2. started
      BY <2>3, <1>s, <1>2, <1>4 DEF Neutral
    <3> QED BY <3>1, <3>2, <1>1 DEF Belief
  <2> QED BY <2>2, <2>3, <1>s, <1>2, <1>4 DEF Reports, Neutral
<1>5. ASSUME NEW i \in 1 .. Len(cbs'), cbs'[i] = "enabled", AllNeutral(i + 1)'
      PROVE  onair'
  <2>1. i + 1 \in 1 .. Len(cbs) /\ cbs[i + 1] = "enabled"
    BY <1>2, <1>5
  <2>2. AllNeutral((i + 1) + 1)
    BY <2>1, <1>3, <1>5
  <2> QED BY <2>1, <2>2, <1>1 DEF Belief
<1> QED BY <1>4, <1>5 DEF Belief

\* Every action keeps the belief true.
LEMMA BeliefStep == ASSUME Kinds, Belief, [Next]_vars PROVE Belief'
<1>1. CASE UNCHANGED <<started, cbs, onair>>
  BY <1>1 DEF Belief, AllNeutral
<1>2. ASSUME NEW c \in Contexts, Step(c) PROVE UNCHANGED <<started, cbs, onair>>
  BY <1>2 DEF Step, TestReady, StopForUpdate, Copy, SetData, StartIfNeeded, app, stack
<1>3. ASSUME NEW c \in Publishers, Encode(c) PROVE UNCHANGED <<started, cbs, onair>>
  BY <1>3 DEF Encode, stack
<1>4. ASSUME NEW c \in PmTasks, PmSleep(c) \/ PmWake(c)
      PROVE  UNCHANGED <<started, cbs, onair>>
  BY <1>4 DEF PmSleep, PmWake, app, stack
<1>5. EnableCbk \/ BecomeReady \/ Disconnect \/ UNCHANGED vars
      => UNCHANGED <<started, cbs, onair>>
  BY DEF EnableCbk, BecomeReady, Disconnect, vars, app, stack
<1>6. CASE StackStart
  BY <1>6, Reported DEF StackStart, Reports, Neutral, app
<1>7. CASE StackStop
  BY <1>7, Reported DEF StackStop, Reports, Neutral, app
<1>8. CASE Connect
  BY <1>8, Reported DEF Connect, Reports, Neutral, app
<1> QED
  BY <1>1, <1>2, <1>3, <1>4, <1>5, <1>6, <1>7, <1>8, BeliefServed DEF Next

-----------------------------------------------------------------------------
(* Who runs where, and where the last payload is.                          *)

\* Every action keeps every context where it may be.
LEMMA PlacesStep == ASSUME Kinds, Places, [Next]_vars PROVE Places'
<1> USE SleIsContext DEF Kinds, Places, EnableLabels, Goto
<1>1. ASSUME NEW c \in Contexts, TestReady(c) PROVE Places'
  BY <1>1 DEF TestReady, app, count
<1>2. ASSUME NEW c \in Contexts, StopForUpdate(c) PROVE Places'
  BY <1>2 DEF StopForUpdate, app, count
<1>3. ASSUME NEW c \in Contexts, Copy(c) PROVE Places'
  BY <1>3 DEF Copy, app, count
<1>4. ASSUME NEW c \in Contexts, SetData(c) PROVE Places'
  BY <1>4 DEF SetData, count
<1>5. ASSUME NEW c \in Contexts, StartIfNeeded(c) PROVE Places'
  BY <1>5 DEF StartIfNeeded, app, count
<1>6. ASSUME NEW c \in Publishers, Encode(c) PROVE Places'
  BY <1>6 DEF Encode
<1>7. ASSUME NEW c \in PmTasks, PmSleep(c) \/ PmWake(c) PROVE Places'
  BY <1>7 DEF PmSleep, PmWake, app, local, count
<1>8. CASE EnableCbk
  BY <1>8 DEF EnableCbk, Free, app
<1>9. CASE BecomeReady
  <2>1. UNCHANGED enabled /\ pc[SleTask] = "enable ready" /\ enabled
        /\ pc' = [pc EXCEPT ![SleTask] = "enable start"]
    BY <1>9 DEF BecomeReady, count
  <2> QED BY <2>1, <1>9 DEF BecomeReady
<1>10. CASE UNCHANGED <<pc, ready, enabled>>
  BY <1>10
<1>11. AnnounceCbk \/ StackStart \/ StackStop \/ Connect \/ Disconnect \/ UNCHANGED vars
       => UNCHANGED <<pc, ready, enabled>>
  BY DEF AnnounceCbk, StackStart, StackStop, Connect, Disconnect, vars, app, local, count
<1> QED
  BY <1>1, <1>2, <1>3, <1>4, <1>5, <1>6, <1>7, <1>8, <1>9, <1>10, <1>11 DEF Next, Step

\* Every action keeps the payloads that may end up on the radio published ones.
LEMMA MarksStep == ASSUME Numbers, Marks, [Next]_vars PROVE Marks'
<1>1. ASSUME NEW c \in Publishers, Encode(c) PROVE Marks'
  <2>1. \A d \in Contexts : buf[d] \in 0 .. payload
    BY DEF Numbers
  <2>2. UnderWay \subseteq 0 .. payload
    BY <2>1 DEF UnderWay
  <2>3. payload \in Nat /\ payload' \in Nat /\ payload <= payload'
    BY <1>1 DEF Encode, Numbers
  <2>4. current' = {payload'} \cup UnderWay
    BY <1>1 DEF Encode
  <2> QED BY <2>2, <2>3, <2>4 DEF Marks
<1>2. UNCHANGED <<payload, current>> => Marks'
  BY DEF Marks
<1>3. ASSUME NEW c \in Contexts, Step(c) PROVE UNCHANGED <<payload, current>>
  BY <1>3 DEF Step, TestReady, StopForUpdate, Copy, SetData, StartIfNeeded, app, count
<1>4. ASSUME NEW c \in PmTasks, PmSleep(c) \/ PmWake(c) PROVE UNCHANGED <<payload, current>>
  BY <1>4 DEF PmSleep, PmWake, app, count
<1>5. \/ EnableCbk \/ BecomeReady \/ AnnounceCbk \/ StackStart \/ StackStop
      \/ Connect \/ Disconnect \/ UNCHANGED vars
      => UNCHANGED <<payload, current>>
  BY DEF EnableCbk, BecomeReady, AnnounceCbk, StackStart, StackStop, Connect, Disconnect,
     vars, app, count
<1> QED BY <1>1, <1>2, <1>3, <1>4, <1>5 DEF Next

\* A failed call is not forgotten.
LEMMA FaultStays == ASSUME Kinds, [Next]_vars PROVE faulted => faulted'
<1>1. ASSUME NEW c \in Contexts, Step(c) PROVE faulted => faulted'
  BY <1>1 DEF Kinds, Step, TestReady, StopForUpdate, Copy, SetData, StartIfNeeded, Fault, count
<1>2. ASSUME NEW c \in Publishers, Encode(c) PROVE faulted => faulted'
  BY <1>2 DEF Encode
<1>3. ASSUME NEW c \in PmTasks, PmSleep(c) \/ PmWake(c) PROVE faulted => faulted'
  BY <1>3 DEF PmSleep, PmWake, Fault, count
<1>4. EnableCbk \/ BecomeReady \/ AnnounceCbk \/ Connect \/ Disconnect \/ UNCHANGED vars
      => UNCHANGED faulted
  BY DEF EnableCbk, BecomeReady, AnnounceCbk, Connect, Disconnect, vars, count
<1>5. StackStart \/ StackStop => (faulted => faulted')
  BY DEF StackStart, StackStop
<1> QED BY <1>1, <1>2, <1>3, <1>4, <1>5 DEF Next

\* Every action keeps the last payload on its way to the radio.
LEMMA CarriedStep ==
  ASSUME Kinds, Numbers, Places, Marks, Carried, [Next]_vars
  PROVE  Carried'
<1> SUFFICES ASSUME ~faulted' PROVE Carried'
  BY DEF Carried
<1>0. ~faulted
  BY FaultStays
<1> DEFINE Sets ==
  \A c \in Contexts :
    /\ pc[c] \in {"set", "enable set"} => buf[c] \in current
    /\ pc[c] = "enable ready" => airdata \in current /\ airdata = buf[c]
<1> DEFINE Radio == ready => airdata \in current \/ \E c \in Contexts : Setting(c)
<1>a. Sets /\ Radio
  BY <1>0 DEF Carried
<1>b. SUFFICES Sets' /\ Radio'
  BY DEF Carried
<1>c. pc \in [Contexts -> Labels] /\ buf \in [Contexts -> Nat] /\ SleTask \in Contexts
  BY SleIsContext DEF Kinds, Numbers
<1>d. payload \in current
  BY DEF Marks
<1>w. ASSUME NEW c \in Contexts, Setting(c)' PROVE Radio'
  BY <1>w
<1> USE <1>0, <1>a, <1>c, <1>d DEF Goto, Fault
<1>1. ASSUME NEW c \in Contexts, TestReady(c) PROVE Sets' /\ Radio'
  <2>1. UNCHANGED <<ready, buf, airdata, current>>
    BY <1>1 DEF TestReady, app, stack, count
  <2>2. pc' = [pc EXCEPT ![c] = IF ready THEN "stop" ELSE "idle"]
    BY <1>1 DEF TestReady
  <2>3. ready => Setting(c)'
    BY <2>2 DEF Setting
  <2> QED BY <2>1, <2>2, <2>3, <1>w
<1>2. ASSUME NEW c \in Contexts, StopForUpdate(c) PROVE Sets' /\ Radio'
  <2>1. UNCHANGED <<ready, buf, airdata, current>>
    BY <1>2 DEF StopForUpdate, app, count
  <2>2. pc' = [pc EXCEPT ![c] = "copy"]
    BY <1>2 DEF StopForUpdate
  <2>3. Setting(c)'
    BY <2>2 DEF Setting
  <2> QED BY <2>1, <2>2, <2>3, <1>w
<1>3. ASSUME NEW c \in Contexts, Copy(c) PROVE Sets' /\ Radio'
  <2>1. UNCHANGED <<ready, airdata, current>>
    BY <1>3 DEF Copy, app, stack, count
  <2>2. /\ pc' = [pc EXCEPT ![c] = IF pc[c] = "copy" THEN "set" ELSE "enable set"]
        /\ buf' = [buf EXCEPT ![c] = payload]
        /\ pc[c] \in {"copy", "enable copy"}
    BY <1>3 DEF Copy
  <2>3. Sets'
    BY <2>1, <2>2
  <2>4. CASE pc[c] = "copy"
    <3>1. Setting(c)'
      BY <2>2, <2>4 DEF Setting
    <3> QED BY <3>1, <2>3, <1>w
  <2>5. CASE pc[c] = "enable copy"
    <3>1. ~ready'
      BY <2>1, <2>5 DEF Places
    <3> QED BY <3>1, <2>3
  <2> QED BY <2>2, <2>4, <2>5
<1>4. ASSUME NEW c \in Contexts, SetData(c) PROVE Sets' /\ Radio'
  <2>1. UNCHANGED <<ready, buf, current>> /\ airdata' = buf[c]
    BY <1>4 DEF SetData, count
  <2>2. pc' = [pc EXCEPT ![c] = IF pc[c] = "enable set" THEN "enable ready"
                               ELSE IF restart[c] THEN "start" ELSE "idle"]
    BY <1>4 DEF SetData
  <2>3. pc[c] \in {"set", "enable set"} /\ airdata' \in current'
    BY <1>4, <2>1 DEF SetData
  <2>4. ASSUME NEW d \in Contexts, pc'[d] = "enable ready" PROVE airdata' = buf'[d]
    <3>1. CASE d = c
      BY <3>1, <2>1
    <3>2. CASE d # c
      <4>1. pc[d] = "enable ready"
        BY <3>2, <2>2, <2>4
      <4>2. c = SleTask /\ d = SleTask
        BY <4>1, <2>3 DEF Places, EnableLabels
      <4> QED BY <4>2, <3>2
    <3> QED BY <3>1, <3>2
  <2>5. Sets'
    BY <2>1, <2>2, <2>3, <2>4
  <2> QED BY <2>3, <2>5
<1>5. ASSUME NEW c \in Contexts, StartIfNeeded(c) PROVE Sets' /\ Radio'
  <2>1. UNCHANGED <<ready, buf, airdata, current>>
    BY <1>5 DEF StartIfNeeded, app, count
  <2>2. pc' = [pc EXCEPT ![c] = "idle"] /\ pc[c] \in {"start", "enable start"}
    BY <1>5 DEF StartIfNeeded
  <2>3. \A d \in Contexts : Setting(d) => Setting(d)'
    BY <2>2 DEF Setting
  <2> QED BY <2>1, <2>2, <2>3
<1>6. ASSUME NEW c \in Publishers, Encode(c) PROVE Sets' /\ Radio'
  <2>1. UNCHANGED <<ready, buf, airdata>> /\ pc' = [pc EXCEPT ![c] = "ready?"]
    BY <1>6 DEF Encode, stack
  <2>2. \A d \in Contexts :
          pc[d] \in {"set", "enable set", "enable ready"} => buf[d] \in current'
    BY <1>6 DEF Encode, UnderWay
  <2>3. Setting(c)' /\ c \in Contexts
    BY <2>1, SleIsContext DEF Setting
  <2> QED BY <2>1, <2>2, <2>3, <1>w
<1>7. ASSUME NEW c \in PmTasks, PmSleep(c) \/ PmWake(c) PROVE Sets' /\ Radio'
  <2>1. pc' = pc \/ (pc' = [pc EXCEPT ![c] = "start"] /\ pc[c] = "idle")
    BY <1>7 DEF PmSleep, PmWake, local
  <2>2. UNCHANGED <<ready, buf, airdata, current>>
    BY <1>7 DEF PmSleep, PmWake, app, local, stack, count
  <2>3. \A d \in Contexts : Setting(d) => Setting(d)'
    BY <2>1 DEF Setting
  <2> QED BY <2>1, <2>2, <2>3
<1>8. CASE EnableCbk
  <2>1. UNCHANGED <<ready, buf, airdata, current>>
        /\ pc' = [pc EXCEPT ![SleTask] = "enable copy"] /\ pc[SleTask] = "idle"
    BY <1>8 DEF EnableCbk, Free, app, stack
  <2>2. \A d \in Contexts : Setting(d) => Setting(d)'
    BY <2>1 DEF Setting
  <2> QED BY <2>1, <2>2
<1>9. CASE BecomeReady
  <2>1. UNCHANGED <<buf, airdata, current>>
        /\ pc' = [pc EXCEPT ![SleTask] = "enable start"] /\ pc[SleTask] = "enable ready"
    BY <1>9 DEF BecomeReady, stack, count
  <2>2. airdata' \in current'
    BY <2>1
  <2> QED BY <2>1, <2>2
<1>10. CASE UNCHANGED <<ready, pc, buf, airdata, current>>
  BY <1>10 DEF Setting
<1>11. AnnounceCbk \/ StackStart \/ StackStop \/ Connect \/ Disconnect \/ UNCHANGED vars
       => UNCHANGED <<ready, pc, buf, airdata, current>>
  BY DEF AnnounceCbk, StackStart, StackStop, Connect, Disconnect, vars, app, local, stack, count
<1> QED
  BY <1>1, <1>2, <1>3, <1>4, <1>5, <1>6, <1>7, <1>8, <1>9, <1>10, <1>11 DEF Next, Step

-----------------------------------------------------------------------------
(* Theorems.                                                               *)

\* IInv holds at power-up.
LEMMA InitIInv == ASSUME Init PROVE IInv
<1> USE DEF Init
<1>1. Kinds
  <2>1. reqs \in Seq(Requests) /\ cbs \in Seq(Reports)
    OBVIOUS
  <2>2. pc \in [Contexts -> Labels] /\ restart \in [Contexts -> BOOLEAN]
    BY DEF Labels
  <2> QED BY <2>1, <2>2 DEF Kinds
<1>2. Numbers
  BY DEF Numbers
<1>3. ReadyFirst /\ Places
  BY DEF ReadyFirst, Places, EnableLabels
<1>4. Belief
  BY DEF Belief, AllNeutral
<1>5. Carried /\ Marks
  BY DEF Carried, Marks
<1> QED BY <1>1, <1>2, <1>3, <1>4, <1>5 DEF IInv

\* Every action keeps IInv.
LEMMA NextIInv == ASSUME IInv, [Next]_vars PROVE IInv'
BY KindsStep, NumbersStep, ReadyFirstStep, BeliefStep, PlacesStep, MarksStep, CarriedStep DEF IInv

\* IInv holds in every run of the program.
THEOREM Invariance == Spec => []IInv
BY InitIInv, NextIInv, PTL DEF Spec

\* Every variable keeps its type, and the stack is asked for nothing before it
\* is ready.
THEOREM TypeCorrect == Spec => []TypeOK
<1>1. ASSUME IInv PROVE TypeOK
  <2> USE <1>1 DEF IInv
  <2>1. payload \in 0 .. refreshes /\ airdata \in 0 .. payload
    BY DEF Numbers
  <2>2. buf \in [Contexts -> 0 .. payload]
    BY DEF Numbers
  <2>3. refreshes \in 0 .. MaxRefreshes /\ connects \in 0 .. MaxConnects
    BY DEF Numbers
  <2>4. /\ \A i \in DOMAIN reqs : reqs[i] \in Requests
        /\ \A i \in DOMAIN cbs : cbs[i] \in Reports
    BY DEF Kinds
  <2> QED BY <2>1, <2>2, <2>3, <2>4 DEF TypeOK, Kinds, Marks, ReadyFirst, Requests, Reports
<1> QED BY <1>1, Invariance, PTL

\* The program never goes on believing in an announcement that has ended: what
\* the callbacks on their way will make of g_adv_started is true of the radio.
THEOREM StartedCorrect == Spec => []StartedIsOnAir
<1>1. ASSUME IInv PROVE StartedIsOnAir
  BY <1>1, EmptySeq DEF IInv, Belief, AllNeutral, StartedIsOnAir, Settled
<1> QED BY <1>1, Invariance, PTL

\* As long as no call fails, the radio ends up with the last payload, for every
\* set of publishing tasks and every interleaving; or with an older one that
\* another task had copied, and not yet set, when the last one was encoded.
THEOREM AirCorrect == Spec => []AirHasPayload
<1>1. ASSUME IInv PROVE AirHasPayload
  BY <1>1 DEF IInv, Carried, Setting, AirHasPayload, Settled
<1> QED BY <1>1, Invariance, PTL

=============================================================================
