---------------------------- MODULE HardwareHal ----------------------------
(***************************************************************************)
(* The buzzer and the LED of My_project_2x (components/hardware_hal) and   *)
(* the timer that turns both off again.                                    *)
(*                                                                         *)
(* The functions take no lock and their callers preempt each other: the    *)
(* SLE task and the main loop run FIND_ME and STOP_FIND, the power manager *)
(* runs the calls of STOP_FIND, and the timer task runs the auto-off       *)
(* handler.  So a call is a sequence of steps, one per access to what the  *)
(* contexts share, and todo holds the calls each context still has to make.*)
(*                                                                         *)
(* Two commands of the same kind may overlap as they like.  A STOP_FIND    *)
(* that overlaps a FIND_ME can leave one of the two outputs on without its *)
(* timer: the one tests the other's flag, is preempted, and stops the      *)
(* timer afterwards.  clash records that two such commands have            *)
(* overlapped; the properties say what holds until then.                   *)
(*                                                                         *)
(* Abstracted: durations (a running timer is due at any time), the PWM     *)
(* set-up calls (one outcome) and hardware_hal_init, which is one step (it *)
(* does something in a command only when the boot's set-up failed).        *)
(* Stopping the PWM or the timer is taken to succeed; the code ignores the *)
(* results.                                                                *)
(***************************************************************************)
EXTENDS Naturals, Sequences

CONSTANTS
  Callers,   \* contexts that run commands
  MaxFinds,  \* bound: FIND_ME commands in all
  Timer      \* the timer task

ASSUME TimerAssumption == Timer \notin Callers
ASSUME BoundAssumption == MaxFinds \in Nat

Tasks == Callers \cup {Timer}

VARIABLES
  initialized, pwm_inited,  \* g_hw: set-up done, PWM usable
  beep_on, led_on,          \* g_hw: what the driver believes
  sounding, lit,            \* what the buzzer and the LED do
  timer,                    \* "none" before osal_timer_init, "stopped", "running" or "due"
  todo,                     \* per task: the calls left, each the sequence of its steps
  finds,                    \* FIND_ME commands so far
  doing,                    \* history: each context's last command
  clash                     \* history: a STOP_FIND has overlapped a FIND_ME

flags == <<initialized, pwm_inited, beep_on, led_on>>
outputs == <<sounding, lit>>
commands == <<finds, doing, clash>>
vars == <<flags, outputs, timer, todo, commands>>

-----------------------------------------------------------------------------
(* The calls.                                                              *)

\* hw_hal_start_auto_off.
StartAutoOff == <<"timer_stop", "timer_mod", "timer_start">>

\* hw_hal_force_all_off.
ForceAllOff == <<"pwm_stop", "led_low", "beep_flag_off", "led_flag_off">>

BeepOn == <<"init", "pwm_start", "beep_flag_on">> \o StartAutoOff
LedOn == <<"init", "led_high", "led_flag_on">> \o StartAutoOff
BeepOff == <<"if_inited", "pwm_stop", "beep_flag_off", "unless_led", "timer_stop">>

LedOff == <<"if_inited", "led_low", "led_flag_off", "unless_beep", "timer_stop">>

-----------------------------------------------------------------------------
(* Running them.                                                           *)

At(t, step) == todo[t] # <<>> /\ Head(Head(todo[t])) = step

\* What t has left after its present step.
Rest(t) ==
  LET call == Tail(Head(todo[t]))
  IN  IF call = <<>> THEN Tail(todo[t]) ELSE <<call>> \o Tail(todo[t])

Continue(t, calls) == todo' = [todo EXCEPT ![t] = calls]

\* The present call returns early; its caller goes on with the next one.
Leave(t) == Continue(t, Tail(todo[t]))

\* The present call fails and cleans up first.
Fail(t, cleanup) == Continue(t, cleanup \o Tail(todo[t]))

\* After the entry function has called hardware_hal_init.
Init ==
  /\ initialized \in BOOLEAN
  /\ pwm_inited \in BOOLEAN
  /\ beep_on = FALSE /\ led_on = FALSE /\ sounding = FALSE /\ lit = FALSE
  /\ timer = IF initialized THEN "stopped" ELSE "none"
  /\ todo = [t \in Tasks |-> <<>>]
  /\ finds = 0
  /\ doing = [c \in Callers |-> "STOP_FIND"] /\ clash = FALSE

\* Context c begins a command, perhaps while another is at one of the other kind.
Begin(c, command, calls) ==
  /\ todo[c] = <<>>
  /\ Continue(c, calls)
  /\ doing' = [doing EXCEPT ![c] = command]
  /\ clash' = (clash \/ \E d \in Callers \ {c} : todo[d] # <<>> /\ doing[d] # command)
  /\ UNCHANGED <<flags, outputs, timer>>

\* The FIND_ME handler turns both on.
FindMe(c) ==
  /\ finds < MaxFinds
  /\ Begin(c, "FIND_ME", <<BeepOn, LedOn>>)
  /\ finds' = finds + 1

\* The STOP_FIND handler, and the power manager's, turn both off.
StopFind(c) == Begin(c, "STOP_FIND", <<BeepOff, LedOff>>) /\ UNCHANGED finds

\* The time of a running timer elapses.
Elapse ==
  /\ timer = "running"
  /\ timer' = "due"
  /\ UNCHANGED <<flags, outputs, todo, commands>>

\* Mutant: the expired timer only silences the buzzer.
AutoOffBeepOnly ==
  /\ timer = "due" /\ todo[Timer] = <<>>
  /\ timer' = "stopped"
  /\ todo' = [todo EXCEPT ![Timer] = <<<<"pwm_stop", "beep_flag_off">>>>]
  /\ UNCHANGED <<flags, outputs, commands>>

\* The timer expires; hw_hal_auto_off_timer_handler runs in the timer task.
AutoOff ==
  /\ timer = "due" /\ todo[Timer] = <<>>
  /\ timer' = "stopped"
  /\ todo' = [todo EXCEPT ![Timer] = <<ForceAllOff>>]
  /\ UNCHANGED <<flags, outputs, commands>>

\* Mutant: nor is a timer that cannot be set up.
HalInitIgnoresTimer(t) ==
  /\ At(t, "init")
  /\ lit' = FALSE
  /\ initialized' = TRUE
  /\ timer' \in {"stopped", timer}
  /\ Continue(t, Rest(t))
  /\ UNCHANGED <<pwm_inited, beep_on, led_on, sounding, commands>>

\* hardware_hal_init; a PWM that cannot be set up is not an error, a timer is.
HalInit(t) ==
  /\ At(t, "init")
  /\ IF initialized
       THEN Continue(t, Rest(t)) /\ UNCHANGED <<flags, outputs, timer>>
       ELSE /\ lit' = FALSE
            /\ pwm_inited' \in {TRUE, pwm_inited}
            /\ \/ initialized' = TRUE /\ timer' = "stopped" /\ Continue(t, Rest(t))
               \/ UNCHANGED <<initialized, timer>> /\ Fail(t, <<>>)
            /\ UNCHANGED <<beep_on, led_on, sounding>>
  /\ UNCHANGED commands

\* uapi_pwm_start_group; a PWM that was not set up does not start.
PwmStart(t) ==
  /\ At(t, "pwm_start")
  /\ \/ pwm_inited /\ sounding' = TRUE /\ Continue(t, Rest(t))
     \/ Fail(t, <<>>) /\ UNCHANGED sounding
  /\ UNCHANGED <<flags, lit, timer, commands>>

\* hw_hal_pwm_buzzer_stop.
PwmStop(t) ==
  /\ At(t, "pwm_stop")
  /\ sounding' = (sounding /\ ~pwm_inited)
  /\ Continue(t, Rest(t))
  /\ UNCHANGED <<flags, lit, timer, commands>>

\* uapi_gpio_set_val on the LED.
LedSet(t) ==
  /\ \/ At(t, "led_high") /\ lit' = TRUE
     \/ At(t, "led_low") /\ lit' = FALSE
  /\ Continue(t, Rest(t))
  /\ UNCHANGED <<flags, sounding, timer, commands>>

\* The assignments to g_hw.beep_on and g_hw.led_on.
FlagSet(t) ==
  /\ \/ At(t, "beep_flag_on") /\ beep_on' = TRUE /\ UNCHANGED led_on
     \/ At(t, "beep_flag_off") /\ beep_on' = FALSE /\ UNCHANGED led_on
     \/ At(t, "led_flag_on") /\ led_on' = TRUE /\ UNCHANGED beep_on
     \/ At(t, "led_flag_off") /\ led_on' = FALSE /\ UNCHANGED beep_on
  /\ Continue(t, Rest(t))
  /\ UNCHANGED <<initialized, pwm_inited, outputs, timer, commands>>

\* The tests of beep_off and led_off: set up at all, and is the other one off.
Test(t) ==
  /\ \/ At(t, "if_inited") /\ IF initialized THEN Continue(t, Rest(t)) ELSE Leave(t)
     \/ At(t, "unless_led") /\ IF led_on THEN Leave(t) ELSE Continue(t, Rest(t))
     \/ At(t, "unless_beep") /\ IF beep_on THEN Leave(t) ELSE Continue(t, Rest(t))
  /\ UNCHANGED <<flags, outputs, timer, commands>>

TimerStop(t) ==
  /\ At(t, "timer_stop")
  /\ timer' = IF timer = "none" THEN timer ELSE "stopped"
  /\ Continue(t, Rest(t))
  /\ UNCHANGED <<flags, outputs, commands>>

\* Mutant: a timer that cannot be started is nobody's concern.
TimerSetNoCleanup(t) ==
  /\ At(t, "timer_mod") \/ At(t, "timer_start")
  /\ \/ timer' = (IF At(t, "timer_start") THEN "running" ELSE timer) /\ Continue(t, Rest(t))
     \/ Fail(t, <<>>) /\ UNCHANGED timer
  /\ UNCHANGED <<flags, outputs, commands>>

\* osal_timer_mod and osal_timer_start; either may fail, and then
\* hw_hal_start_auto_off and its caller both force everything off.
TimerSet(t) ==
  /\ At(t, "timer_mod") \/ At(t, "timer_start")
  /\ \/ timer' = (IF At(t, "timer_start") THEN "running" ELSE timer) /\ Continue(t, Rest(t))
     \/ Fail(t, <<ForceAllOff, ForceAllOff>>) /\ UNCHANGED timer
  /\ UNCHANGED <<flags, outputs, commands>>

Step(t) ==
  \/ HalInit(t) \/ PwmStart(t) \/ PwmStop(t) \/ LedSet(t) \/ FlagSet(t) \/ Test(t)
  \/ TimerStop(t) \/ TimerSet(t)

Next ==
  \/ \E c \in Callers : FindMe(c) \/ StopFind(c)
  \/ Elapse \/ AutoOff
  \/ \E t \in Tasks : Step(t)

\* The scheduler runs every task that has work, and a running timer expires.
Spec ==
  /\ Init /\ [][Next]_vars
  /\ WF_vars(Elapse) /\ WF_vars(AutoOff) /\ \A t \in Tasks : WF_vars(Step(t))

-----------------------------------------------------------------------------
(* Properties.                                                             *)

Steps ==
  {"init", "pwm_start", "pwm_stop", "led_high", "led_low", "beep_flag_on", "beep_flag_off",
   "led_flag_on", "led_flag_off", "if_inited", "unless_led", "unless_beep", "timer_stop",
   "timer_mod", "timer_start"}

\* Every variable has its type, and a driver that is set up has its timer.
TypeOK ==
  /\ initialized => timer # "none"
  /\ initialized \in BOOLEAN /\ pwm_inited \in BOOLEAN
  /\ beep_on \in BOOLEAN /\ led_on \in BOOLEAN
  /\ sounding \in BOOLEAN /\ lit \in BOOLEAN
  /\ timer \in {"none", "stopped", "running", "due"}
  /\ \A t \in Tasks : \A i \in DOMAIN todo[t] :
       todo[t][i] # <<>> /\ \A j \in DOMAIN todo[t][i] : todo[t][i][j] \in Steps
  /\ finds \in 0 .. MaxFinds
  /\ doing \in [Callers -> {"FIND_ME", "STOP_FIND"}] /\ clash \in BOOLEAN

Quiet == \A t \in Tasks : todo[t] = <<>>

\* Whatever fails and whenever the timer expires, and however many contexts
\* run commands: as long as no STOP_FIND has overlapped a FIND_ME, once every
\* task is done, a buzzer or an LED that is on will be turned off by a
\* running timer.
AutoOffArmed == Quiet /\ ~clash /\ (sounding \/ lit) => timer \in {"running", "due"}

\* After the last FIND_ME both end up off for good, with no STOP_FIND needed,
\* unless a STOP_FIND has overlapped a FIND_ME: MY_PROJECT_2X_BEEP_AUTO_OFF_MS
\* "must auto-off even if link is lost".
AutoOffHappens == <>clash \/ <>[](~sounding /\ ~lit)

=============================================================================
