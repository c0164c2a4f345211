---------------------------- MODULE SleAnnounce ----------------------------
(***************************************************************************)
(* Advertising of My_project_2x (components/sle_slave): the payload the    *)
(* program caches, the data the SLE stack holds, and g_adv_started, what   *)
(* the program believes about the radio.                                   *)
(*                                                                         *)
(* sle_start_announce and sle_stop_announce only queue a request; the      *)
(* stack carries it out later and reports it by a callback.  Callbacks and *)
(* the commands of an SLE client run in the SLE task, one at a time; the   *)
(* main loop and the timer task publish on their own and interleave with   *)
(* it at every access to what they share.                                  *)
(*                                                                         *)
(* Abstracted: a payload is the number of the publish that encoded it.     *)
(* Encoding it and copying it are one step each; a preemption in the       *)
(* middle of their few bytes is not modelled.                              *)
(* The stack is external: a connection ends the announcement, a repeated   *)
(* start or stop may be reported as a success or as a failure.             *)
(***************************************************************************)
EXTENDS Naturals, Sequences

CONSTANTS
  SleTask,       \* the task of callbacks and client commands
  Publishers,    \* tasks that publish; SleTask is one of them
  PmTasks,       \* the task of the power manager, if it is configured
  MaxRefreshes,  \* bound: publishes after the initial payload
  MaxConnects    \* bound: connections

ASSUME TaskAssumption == SleTask \in Publishers /\ PmTasks \cap Publishers = {}
ASSUME BoundAssumption == MaxRefreshes \in Nat /\ MaxConnects \in Nat

Contexts == Publishers \cup PmTasks

VARIABLES
  ready, started, configured,  \* g_sle_stack_ready, g_adv_started, g_adv_configured
  payload,                     \* g_adv_payload
  pc,                          \* per context: the step it makes next
  restart,                     \* per context: restart_after_update
  buf,                         \* per context: announce_data, the copy being set
  airdata,                     \* stack: the data of the announcement
  onair, connected,            \* stack: announcing, connected
  reqs, cbs,                   \* requests to the stack, callbacks from it
  enabled,                     \* the stack called sle_enable_cb
  refreshes, connects,         \* publishes and connections so far
  current,                     \* history: payloads the radio may end up with, see Encode
  faulted                      \* a call of the stack has failed

app == <<ready, started, configured, payload>>
local == <<pc, restart, buf>>
stack == <<airdata, onair, connected, reqs, cbs>>
count == <<enabled, refreshes, connects, current>>
vars == <<app, local, stack, count, faulted>>

\* The program asks the stack for r; a call that fails asks for nothing.
Request(r) == reqs' = Append(reqs, r)
Report(cb) == cbs' = Append(cbs, cb)

\* A call of the stack fails.
Fault == faulted' = TRUE

Goto(c, step) == pc' = [pc EXCEPT ![c] = step]

\* Only callbacks wait for the SLE task to be free.
Free == pc[SleTask] = "idle"

Init ==
  /\ ready = FALSE /\ started = FALSE /\ configured = FALSE
  /\ payload = 0
  /\ pc = [c \in Contexts |-> "idle"]
  /\ restart = [c \in Contexts |-> FALSE]
  /\ buf = [c \in Contexts |-> 0]
  /\ airdata = 0
  /\ onair = FALSE /\ connected = FALSE
  /\ reqs = <<>> /\ cbs = <<>>
  /\ enabled = FALSE
  /\ refreshes = 0 /\ connects = 0
  /\ current = {0}
  /\ faulted = FALSE

-----------------------------------------------------------------------------
(* sle_slave_refresh_adv_payload, step by step.                            *)

\* The copies of older payloads that the stack is still to be given, or that
\* it was given by an enable callback that has yet to make the program ready.
UnderWay == {buf[d] : d \in {e \in Contexts : pc[e] \in {"set", "enable set", "enable ready"}}}

\* The program does not serialize the tasks: such a copy may be set last.
Encode(c) ==
  /\ pc[c] = "idle" /\ refreshes < MaxRefreshes
  /\ refreshes' = refreshes + 1
  /\ payload' = refreshes'
  /\ current' = {payload'} \cup UnderWay
  /\ Goto(c, "ready?")
  /\ UNCHANGED <<ready, started, configured, restart, buf, stack, enabled, connects, faulted>>

\* Before the stack is ready the payload is cached only.
TestReady(c) ==
  /\ pc[c] = "ready?"
  /\ Goto(c, IF ready THEN "stop" ELSE "idle")
  /\ restart' = [restart EXCEPT ![c] = ready /\ started]
  /\ UNCHANGED <<app, buf, stack, count, faulted>>

\* sle_slave_stop_announce_if_needed tests g_adv_started again.
StopForUpdate(c) ==
  /\ pc[c] = "stop"
  /\ \/ /\ IF restart[c] /\ started THEN Request("stop") ELSE UNCHANGED reqs
        /\ Goto(c, "copy")
        /\ UNCHANGED faulted
     \/ restart[c] /\ started /\ Fault /\ Goto(c, "idle") /\ UNCHANGED reqs
  /\ UNCHANGED <<app, restart, buf, airdata, onair, connected, cbs, count>>

\* Mutant: the data is set as it was.
CopyOld(c) ==
  /\ pc[c] \in {"copy", "enable copy"}
  /\ buf' = [buf EXCEPT ![c] = airdata]
  /\ Goto(c, IF pc[c] = "copy" THEN "set" ELSE "enable set")
  /\ UNCHANGED <<app, restart, stack, count, faulted>>

\* sle_slave_update_announce_data copies the payload; setup_announce, which
\* runs when nothing is configured yet, sets the parameters first.
Copy(c) ==
  /\ pc[c] \in {"copy", "enable copy"}
  /\ \/ /\ buf' = [buf EXCEPT ![c] = payload]
        /\ Goto(c, IF pc[c] = "copy" THEN "set" ELSE "enable set")
        /\ UNCHANGED faulted
     \/ /\ Fault /\ (pc[c] = "copy" => ~configured)
        /\ Goto(c, IF pc[c] = "copy" THEN "idle" ELSE "enable ready")
        /\ UNCHANGED buf
  /\ UNCHANGED <<app, restart, stack, count>>

\* sle_set_announce_data takes the copy.
SetData(c) ==
  /\ pc[c] \in {"set", "enable set"}
  /\ \/ /\ airdata' = buf[c]
        /\ configured' = TRUE
        /\ Goto(c, IF pc[c] = "enable set" THEN "enable ready"
                   ELSE IF restart[c] THEN "start" ELSE "idle")
        /\ UNCHANGED faulted
     \/ /\ Fault
        /\ Goto(c, IF pc[c] = "set" THEN "idle" ELSE "enable ready")
        /\ UNCHANGED <<airdata, configured>>
  /\ UNCHANGED <<ready, started, payload, restart, buf, onair, connected, reqs, cbs, count>>

\* sle_slave_start_announce_if_needed, at the end of a refresh, of the enable
\* callback and of the power manager's wake-up.
StartIfNeeded(c) ==
  /\ pc[c] \in {"start", "enable start"}
  /\ \/ (IF ready /\ ~started THEN Request("start") ELSE UNCHANGED reqs) /\ UNCHANGED faulted
     \/ Fault /\ ready /\ ~started /\ UNCHANGED reqs
  /\ Goto(c, "idle")
  /\ UNCHANGED <<app, restart, buf, airdata, onair, connected, cbs, count>>

-----------------------------------------------------------------------------
(* Callbacks and the power manager.                                        *)

\* sle_slave_enable_cbk: set up, become ready, start.  A failed set-up does
\* not stop it.
EnableCbk ==
  /\ Free /\ ~enabled
  /\ enabled' = TRUE
  /\ Goto(SleTask, "enable copy")
  /\ UNCHANGED <<app, restart, buf, stack, refreshes, connects, current, faulted>>

\* Mutant: the first start is left to the first publish.
BecomeReadyNoStart ==
  /\ pc[SleTask] = "enable ready"
  /\ ready' = TRUE
  /\ Goto(SleTask, "idle")
  /\ UNCHANGED <<started, configured, payload, restart, buf, stack, count, faulted>>

BecomeReady ==
  /\ pc[SleTask] = "enable ready"
  /\ ready' = TRUE
  /\ Goto(SleTask, "enable start")
  /\ UNCHANGED <<started, configured, payload, restart, buf, stack, count, faulted>>

\* Mutant: the end of an announcement by a connection goes unnoticed.
AnnounceCbkNoTerminal ==
  /\ Free /\ cbs # <<>>
  /\ started' = CASE Head(cbs) = "enabled" -> TRUE
                  [] Head(cbs) \in {"enable failed", "disabled"} -> FALSE
                  [] OTHER -> started
  /\ cbs' = Tail(cbs)
  /\ UNCHANGED <<ready, configured, payload, local, airdata, onair, connected, reqs, count, faulted>>

\* The announce callbacks: enable, disable and terminal.
AnnounceCbk ==
  /\ Free /\ cbs # <<>>
  /\ started' = CASE Head(cbs) = "enabled" -> TRUE
                  [] Head(cbs) \in {"enable failed", "disabled", "terminal"} -> FALSE
                  [] OTHER -> started
  /\ cbs' = Tail(cbs)
  /\ UNCHANGED <<ready, configured, payload, local, airdata, onair, connected, reqs, count, faulted>>

\* Falling asleep calls sle_slave_stop, waking up sle_slave_start; both come
\* seconds after the last request, when its callback has long been served.
PmSleep(c) ==
  /\ pc[c] = "idle" /\ reqs = <<>> /\ cbs = <<>>
  /\ \/ (IF ready /\ started THEN Request("stop") ELSE UNCHANGED reqs) /\ UNCHANGED faulted
     \/ Fault /\ ready /\ started /\ UNCHANGED reqs
  /\ UNCHANGED <<app, local, airdata, onair, connected, cbs, count>>

PmWake(c) ==
  /\ pc[c] = "idle" /\ reqs = <<>> /\ cbs = <<>>
  /\ Goto(c, "start")
  /\ UNCHANGED <<app, restart, buf, stack, count, faulted>>

-----------------------------------------------------------------------------
(* The stack.                                                              *)

StackStart ==
  /\ reqs # <<>> /\ Head(reqs) = "start"
  /\ reqs' = Tail(reqs)
  /\ \/ onair' = TRUE /\ Report("enabled") /\ UNCHANGED faulted
     \/ UNCHANGED onair /\ Report("enable failed") /\ faulted' = (faulted \/ ~onair)
  /\ UNCHANGED <<app, local, airdata, connected, count>>

StackStop ==
  /\ reqs # <<>> /\ Head(reqs) = "stop"
  /\ reqs' = Tail(reqs)
  /\ \/ onair' = FALSE /\ Report("disabled") /\ UNCHANGED faulted
     \/ UNCHANGED onair /\ Report("disable failed") /\ faulted' = (faulted \/ onair)
  /\ UNCHANGED <<app, local, airdata, connected, count>>

\* A client connects; the announcement ends.
Connect ==
  /\ onair /\ connects < MaxConnects
  /\ connects' = connects + 1
  /\ onair' = FALSE /\ connected' = TRUE
  /\ Report("terminal")
  /\ UNCHANGED <<app, local, airdata, reqs, enabled, refreshes, current, faulted>>

\* The client leaves; connect_state_changed_cbk does not touch the announcement.
Disconnect ==
  /\ connected
  /\ connected' = FALSE
  /\ UNCHANGED <<app, local, airdata, onair, reqs, cbs, count, faulted>>

Step(c) ==
  TestReady(c) \/ StopForUpdate(c) \/ Copy(c) \/ SetData(c) \/ StartIfNeeded(c)

Next ==
  \/ \E c \in Contexts : Step(c)
  \/ \E c \in Publishers : Encode(c)
  \/ \E c \in PmTasks : PmSleep(c) \/ PmWake(c)
  \/ EnableCbk \/ BecomeReady \/ AnnounceCbk
  \/ StackStart \/ StackStop \/ Connect \/ Disconnect

\* Tasks that can run do run, the stack serves requests, clients leave again.
Fairness ==
  /\ \A c \in Contexts : WF_vars(Step(c))
  /\ WF_vars(EnableCbk) /\ WF_vars(BecomeReady) /\ WF_vars(AnnounceCbk)
  /\ WF_vars(StackStart) /\ WF_vars(StackStop) /\ WF_vars(Disconnect)

Spec == Init /\ [][Next]_vars /\ Fairness

-----------------------------------------------------------------------------
(* Properties.                                                             *)

Labels ==
  {"idle", "ready?", "stop", "copy", "set", "start",
   "enable copy", "enable set", "enable ready", "enable start"}

\* Every variable has its type; a payload is one that was published, and the
\* data of the announcement is one the program has encoded; and no start or
\* stop is asked of a stack that is not ready.
TypeOK ==
  /\ ready \/ (reqs = <<>> /\ ~started /\ ~onair)
  /\ ready \in BOOLEAN /\ started \in BOOLEAN /\ configured \in BOOLEAN
  /\ payload \in 0 .. refreshes /\ airdata \in 0 .. payload
  /\ pc \in [Contexts -> Labels]
  /\ restart \in [Contexts -> BOOLEAN]
  /\ buf \in [Contexts -> 0 .. payload]
  /\ onair \in BOOLEAN /\ connected \in BOOLEAN
  /\ \A i \in DOMAIN reqs : reqs[i] \in {"start", "stop"}
  /\ \A i \in DOMAIN cbs :
       cbs[i] \in {"enabled", "enable failed", "disabled", "disable failed", "terminal"}
  /\ enabled \in BOOLEAN /\ payload \in current /\ current \subseteq 0 .. payload /\ faulted \in BOOLEAN
  /\ refreshes \in 0 .. MaxRefreshes /\ connects \in 0 .. MaxConnects

\* No handler runs, no request and no callback is on its way.
Settled == (\A c \in Contexts : pc[c] = "idle") /\ reqs = <<>> /\ cbs = <<>>

\* The program never goes on believing in an announcement that has ended; it
\* would skip every later start as a duplicate.
StartedIsOnAir == Settled /\ started => onair

\* Once things settle and no call has failed, the radio carries the last
\* payload (docs/ws63_cooperation_spec.md:209), whichever tasks publish and
\* when the stack becomes ready; an older one only if another task had copied
\* it, and not yet handed it over, when the last payload was encoded.
AirHasPayload == Settled /\ ready /\ ~faulted => airdata \in current

\* An announcement starts after power-up, whatever is published meanwhile.
FirstAnnouncement == <>(onair \/ faulted)

\* docs/bs21e_review_reply.md:129: a refresh stops the announcement, updates
\* the data and starts it again; so a device without a client is always on
\* air again.
AlwaysOnAirAgain == []<>(onair \/ connected \/ faulted)

=============================================================================
