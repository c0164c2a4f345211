------------------------------- MODULE FindMe -------------------------------
(***************************************************************************)
(* The status FINDING of a tag of My_project_2x: the record (TagRecord)    *)
(* and the restore timer that ends the status (app/main.c), driven from    *)
(* three contexts that preempt each other: the SLE task and the main loop  *)
(* (UART test console) run commands, the timer task runs the handler of    *)
(* the restore timer.                                                      *)
(*                                                                         *)
(* A handler is a sequence of calls, in todo; a call is one step, except   *)
(* that the start of the restore timer is two: osal_timer_stop, and the    *)
(* set-up, mod and start around it, any of which may fail.                 *)
(*                                                                         *)
(* Left out: the buzzer and the LED, which share nothing with the record   *)
(* or the restore timer (HardwareHal has them, step by step), and what     *)
(* storage_sync_publish does with the record (StorageSync, SleAnnounce).   *)
(* Abstracted: durations (a running timer is due any time); a setter of    *)
(* the record is one step.                                                 *)
(***************************************************************************)
EXTENDS TagRecord, Sequences

CONSTANTS
  Callers,      \* contexts that run commands
  Timer,        \* the timer task
  Faults,       \* calls that may fail: "restore"
  MaxCommands   \* bound: commands in all

ASSUME TaskAssumption == Timer \notin Callers
ASSUME RecordAssumption == 0 \in TagIds /\ SeqMod \in Nat \ {0}
ASSUME CommandAssumption == MaxCommands \in Nat

Tasks == Callers \cup {Timer}

VARIABLES
  field,            \* g_sync.field
  restore,          \* g_find_status_restore_timer: "stopped", "running" or "due"
  restore_ok,       \* its last start succeeded
  todo,             \* per task: the calls left of its handler
  commands          \* commands so far

timers == <<restore, restore_ok>>
vars == <<field, timers, todo, commands>>

-----------------------------------------------------------------------------
(* The handlers.                                                           *)

FindCalls == <<"find_on", "publish", "restore_stop", "restore_start">>

\* Mutant: the end of a find stops the restore timer, last.
StopCallsStopTimer == <<"find_off", "publish", "restore_stop">>

\* The restore timer is left running.
StopCalls == <<"find_off", "publish">>

RestoreCalls == <<"find_off", "publish">>

QtyCalls == <<"publish">>

At(t, call) == todo[t] # <<>> /\ Head(todo[t]) = call

Done(t) == todo' = [todo EXCEPT ![t] = Tail(@)]

Init ==
  /\ field = ZeroRecord
  /\ restore = "stopped" /\ restore_ok = TRUE
  /\ todo = [t \in Tasks |-> <<>>]
  /\ commands = 0

Command(c, calls) ==
  /\ todo[c] = <<>> /\ commands < MaxCommands
  /\ commands' = commands + 1
  /\ todo' = [todo EXCEPT ![c] = calls]
  /\ UNCHANGED timers

FindCommand(c) == Command(c, FindCalls) /\ UNCHANGED field

StopCommand(c) == Command(c, StopCalls) /\ UNCHANGED field

\* UPDATE_QTY; storage_sync_set_qty is its first call.
QtyCommand(c, q) == Command(c, QtyCalls) /\ field' = WithQty(field, q)

\* The fifteen seconds of the timer run out.
Elapse ==
  /\ restore = "running" /\ restore' = "due"
  /\ UNCHANGED <<field, restore_ok, todo, commands>>

\* my_project_2x_find_status_restore_handler.
Restore ==
  /\ restore = "due" /\ todo[Timer] = <<>>
  /\ restore' = "stopped"
  /\ todo' = [todo EXCEPT ![Timer] = RestoreCalls]
  /\ UNCHANGED <<field, restore_ok, commands>>

-----------------------------------------------------------------------------
(* The calls.                                                              *)

\* Mutant: the end of a find does not end the status of a full bin.
SetFindStatusSticky(t) ==
  /\ At(t, "find_on") \/ At(t, "find_off")
  /\ field' = IF At(t, "find_on") \/ field.qty = 0
              THEN WithFindStatus(field, At(t, "find_on")) ELSE field
  /\ Done(t)
  /\ UNCHANGED <<timers, commands>>

\* storage_sync_set_find_status.
SetFindStatus(t) ==
  /\ At(t, "find_on") \/ At(t, "find_off")
  /\ field' = WithFindStatus(field, At(t, "find_on"))
  /\ Done(t)
  /\ UNCHANGED <<timers, commands>>

\* storage_sync_publish; no handler looks at its result.
Publish(t) ==
  /\ At(t, "publish")
  /\ Done(t)
  /\ UNCHANGED <<field, timers, commands>>

RestoreStop(t) ==
  /\ At(t, "restore_stop")
  /\ restore' = "stopped"
  /\ Done(t)
  /\ UNCHANGED <<field, restore_ok, commands>>

\* my_project_2x_start_find_status_restore_timer; no handler looks at its result.
RestoreStart(t) ==
  /\ At(t, "restore_start")
  /\ \/ restore' = "running" /\ restore_ok' = TRUE
     \/ "restore" \in Faults /\ restore_ok' = FALSE /\ UNCHANGED restore
  /\ Done(t)
  /\ UNCHANGED <<field, commands>>

Step(t) == SetFindStatus(t) \/ Publish(t) \/ RestoreStop(t) \/ RestoreStart(t)

Next ==
  \/ \E c \in Callers : FindCommand(c) \/ StopCommand(c) \/ \E q \in Qtys : QtyCommand(c, q)
  \/ Elapse \/ Restore
  \/ \E t \in Tasks : Step(t)

\* The scheduler runs every task that has work, and a running timer expires.
Fairness == WF_vars(Elapse) /\ WF_vars(Restore) /\ \A t \in Tasks : WF_vars(Step(t))

Spec == Init /\ [][Next]_vars /\ Fairness

-----------------------------------------------------------------------------
(* Properties.                                                             *)

Quiet == \A t \in Tasks : todo[t] = <<>>

\* Every variable has its type.
TypeOK ==
  /\ field \in Record
  /\ restore \in {"stopped", "running", "due"} /\ restore_ok \in BOOLEAN
  /\ \A t \in Tasks :
       \E calls \in {FindCalls, StopCalls, RestoreCalls, QtyCalls} :
         \E k \in 1 .. Len(calls) + 1 : todo[t] = SubSeq(calls, k, Len(calls))
  /\ commands \in 0 .. MaxCommands

\* Once every handler is done, a record that says FINDING has a restore timer
\* that will end it, however finds, stops and expirations of the old timer
\* interleave; only a timer that cannot be started leaves it (main.c:186-202).
FindingArmed ==
  Quiet /\ field.status = "FINDING" /\ restore_ok => restore # "stopped"

\* docs/ws63_cooperation_spec.md:139, as far as the status goes: after the
\* last command it ends with no STOP_FIND needed, unless the restore timer
\* could not be started.
FindEnds == <>[](field.status = "FINDING" => ~restore_ok)

=============================================================================
