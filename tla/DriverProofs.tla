--------------------------- MODULE DriverProofs -----------------------------
(***************************************************************************)
(* Proofs about two drivers of My_project_2x whose steps interleave: the   *)
(* buzzer and the LED with their timer (HardwareHal) and the table of      *)
(* connections under a broadcast (ConnTable).                              *)
(*                                                                         *)
(* The alarm.  A context that runs commands always has some suffix of a    *)
(* call left, and a fixed rest after it: Left lists them.  Passed says who *)
(* is past hardware_hal_init, Ready that nothing is on before it.  Kept    *)
(* ties what a context has left to its last command, and Agree says that   *)
(* without a clash all contexts at work are at the same command.  Alarm is *)
(* the reason why the alarm ends: while something is on, the timer runs or *)
(* some context has yet to start it, or some task has yet to turn it off.  *)
(* Own is what a context that stops the alarm counts on before it stops    *)
(* the timer: nobody has turned anything on behind its back.               *)
(*                                                                         *)
(* The table.  Its count is that of its slots.  As long as no link was     *)
(* entered twice its slots are those of the links (Linked), and WalkDone   *)
(* says whom a broadcast has told when it has reached some slot.           *)
(***************************************************************************)
EXTENDS HardwareHal, ConnTable, SequenceTheorems, FiniteSetTheorems, TLAPS

-----------------------------------------------------------------------------
(* The alarm.                                                              *)

\* No call, no step.
None == <<>>
Calls == Seq(Steps) \ {None}

\* What is left of each call, the whole call first.
OffLed == <<"led_low", "beep_flag_off", "led_flag_off">>
OffFlags == <<"beep_flag_off", "led_flag_off">>
OffFlag == <<"led_flag_off">>
OffLeft == {ForceAllOff, OffLed, OffFlags, OffFlag}

StartMod == <<"timer_mod", "timer_start">>
StartLast == <<"timer_start">>
StartLeft == {StartAutoOff, StartMod, StartLast}

BeepStart == <<"pwm_start", "beep_flag_on", "timer_stop", "timer_mod", "timer_start">>
BeepSet == <<"beep_flag_on", "timer_stop", "timer_mod", "timer_start">>
BeepOnLeft == {BeepOn, BeepStart, BeepSet} \cup StartLeft

LedStart == <<"led_high", "led_flag_on", "timer_stop", "timer_mod", "timer_start">>
LedSetOn == <<"led_flag_on", "timer_stop", "timer_mod", "timer_start">>
LedOnLeft == {LedOn, LedStart, LedSetOn} \cup StartLeft

StopLast == <<"timer_stop">>
BeepStop == <<"pwm_stop", "beep_flag_off", "unless_led", "timer_stop">>
BeepClear == <<"beep_flag_off", "unless_led", "timer_stop">>
BeepTest == <<"unless_led", "timer_stop">>
BeepOffLeft == {BeepOff, BeepStop, BeepClear, BeepTest, StopLast}

LedLow == <<"led_low", "led_flag_off", "unless_beep", "timer_stop">>
LedClear == <<"led_flag_off", "unless_beep", "timer_stop">>
LedTest == <<"unless_beep", "timer_stop">>
LedOffLeft == {LedOff, LedLow, LedClear, LedTest, StopLast}

Lefts == OffLeft \cup BeepOnLeft \cup LedOnLeft \cup BeepOffLeft \cup LedOffLeft

\* A call and the calls after it.
Cons(call, calls) == <<call>> \o calls
ThenLedOn == Cons(LedOn, None)
ThenLedOff == Cons(LedOff, None)
ThenOff == Cons(ForceAllOff, None)
ThenOffLedOn == Cons(ForceAllOff, ThenLedOn)

\* What a context that runs commands, and the timer task, may have left to do.
Fits(call, calls) ==
  \/ calls = None /\ call \in LedOnLeft \cup LedOffLeft \cup OffLeft
  \/ calls = ThenLedOn /\ call \in BeepOnLeft \cup OffLeft
  \/ calls = ThenLedOff /\ call \in BeepOffLeft
  \/ calls \in {ThenOff, ThenOffLedOn} /\ call \in OffLeft
Command(w) ==
  \/ w = None
  \/ \E call \in Lefts : \E calls \in Seq(Calls) : w = Cons(call, calls) /\ Fits(call, calls)
AutoOffLeft(w) == w = None \/ \E call \in OffLeft : w = Cons(call, None)

Left ==
  /\ todo \in [Tasks -> Seq(Calls)]
  /\ \A c \in Callers : Command(todo[c])
  /\ AutoOffLeft(todo[Timer])

Kinds ==
  /\ initialized => timer # "none"
  /\ initialized \in BOOLEAN /\ pwm_inited \in BOOLEAN
  /\ beep_on \in BOOLEAN /\ led_on \in BOOLEAN
  /\ sounding \in BOOLEAN /\ lit \in BOOLEAN
  /\ timer \in {"none", "stopped", "running", "due"}
  /\ finds \in 0 .. MaxFinds
  /\ doing \in [Callers -> {"FIND_ME", "STOP_FIND"}] /\ clash \in BOOLEAN

\* The call that is under way, and the next one.
First(w, call) == w # None /\ Head(w) = call
Second(w, call) == w # None /\ First(Tail(w), call)

\* A context that will start the timer, or turn everything off if it cannot.
Arming == {BeepSet, LedSetOn} \cup StartLeft
Arms(w) == \E call \in Arming : First(w, call)

\* ... that is past hardware_hal_init
Passing == Arming \cup {BeepStart, LedStart}
Passed == \A c \in Callers : (\E call \in Passing : First(todo[c], call)) => initialized

\* ... that will stop the buzzer, turn off the LED, or has done so
Silences(w) == First(w, ForceAllOff) \/ Second(w, ForceAllOff)
Darkens(w) ==
  \/ Silences(w) \/ First(w, OffLed)
  \/ First(w, LedOff) \/ First(w, LedLow) \/ Second(w, LedOff)
QuietLeft == {BeepClear, BeepTest, StopLast} \cup LedOffLeft
DarkLeft == {LedClear, LedTest, StopLast}
Silenced(w) == \E call \in QuietLeft : First(w, call)
Darkened(w) == \E call \in DarkLeft : First(w, call) /\ Tail(w) = None

Ready ==
  /\ sounding => initialized /\ pwm_inited
  /\ lit => initialized

Live == timer \in {"running", "due"}

\* Somebody will see to it that the buzzer, or the LED, goes off.
Hushes(w) == Arms(w) \/ Silences(w)
Shades(w) == Arms(w) \/ Darkens(w)
Alarm ==
  /\ sounding => Live \/ \E t \in Tasks : Hushes(todo[t])
  /\ lit => Live \/ \E t \in Tasks : Shades(todo[t])
Own(c) ==
  /\ Silenced(todo[c]) => ~sounding
  /\ Darkened(todo[c]) => ~lit

\* A context at a STOP_FIND, or at a FIND_ME.
Stopper(w) == w # None /\ Head(w) \in BeepOffLeft \cup LedOffLeft
Starter(w) == w # None /\ Head(w) \in BeepOnLeft \cup LedOnLeft \cup OffLeft
Kept == \A c \in Callers :
  /\ Stopper(todo[c]) => doing[c] = "STOP_FIND"
  /\ Starter(todo[c]) => doing[c] = "FIND_ME"
Agree == \A c, d \in Callers : todo[c] # None /\ todo[d] # None => doing[c] = doing[d]

Covered == Agree /\ Alarm /\ \A c \in Callers : Own(c)

Inv1 == Left /\ Kinds /\ Passed /\ Ready
Inv2 == Kept /\ (~clash => Covered)

-----------------------------------------------------------------------------
(* Calls as sequences.                                                     *)

\* Tuples, one after the other.
LEMMA JoinedOne == ASSUME NEW a, NEW b PROVE <<a>> \o <<b>> = <<a, b>>
<1> DEFINE S == {a, b}
           p == <<a>>
           q == <<b>>
           r == <<a, b>>
<1>1. /\ p \in Seq(S) /\ Len(p) = 1 /\ p[1] = a /\ q \in Seq(S) /\ Len(q) = 1 /\ q[1] = b
      /\ r \in Seq(S) /\ Len(r) = 2 /\ r[1] = a /\ r[2] = b
  OBVIOUS
<1> HIDE DEF S, p, q, r
<1>2. p \o q \in Seq(S) /\ Len(p \o q) = 2 /\ (p \o q)[1] = a /\ (p \o q)[2] = b
  BY <1>1, ConcatProperties
<1>3. \A i \in 1 .. 2 : (p \o q)[i] = r[i]
  BY <1>1, <1>2
<1>4. p \o q = r
  BY <1>1, <1>2, <1>3, SeqEqual
<1> QED BY <1>4 DEF p, q, r

\* ... of three elements each, as in the calls that turn something on.
LEMMA JoinedThree ==
  ASSUME NEW a, NEW b, NEW c, NEW d, NEW e, NEW f
  PROVE  <<a, b, c>> \o <<d, e, f>> = <<a, b, c, d, e, f>>
<1> DEFINE S == {a, b, c, d, e, f}
           p == <<a, b, c>>
           q == <<d, e, f>>
           r == <<a, b, c, d, e, f>>
<1>1. /\ p \in Seq(S) /\ Len(p) = 3 /\ p[1] = a /\ p[2] = b /\ p[3] = c
      /\ q \in Seq(S) /\ Len(q) = 3 /\ q[1] = d /\ q[2] = e /\ q[3] = f
      /\ r \in Seq(S) /\ Len(r) = 6
      /\ r[1] = a /\ r[2] = b /\ r[3] = c /\ r[4] = d /\ r[5] = e /\ r[6] = f
  OBVIOUS
<1> HIDE DEF S, p, q, r
<1>2. /\ p \o q \in Seq(S) /\ Len(p \o q) = 6
      /\ \A i \in 1 .. 6 : (p \o q)[i] = IF i <= 3 THEN p[i] ELSE q[i - 3]
  <2>1. /\ p \o q \in Seq(S) /\ Len(p \o q) = Len(p) + Len(q)
        /\ \A i \in 1 .. Len(p) + Len(q) : (p \o q)[i] = IF i <= Len(p) THEN p[i] ELSE q[i - Len(p)]
    BY <1>1, ConcatProperties
  <2>2. Len(p) + Len(q) = 6
    BY <1>1
  <2> QED BY <1>1, <2>1, <2>2
<1>3. ASSUME NEW i \in 1 .. 6 PROVE (p \o q)[i] = r[i]
  <2>1. i \in {1, 2, 3} \/ (i = 4 \/ i = 5 \/ i = 6)
    OBVIOUS
  <2>2. CASE i \in {1, 2, 3}
    BY <1>1, <1>2, <2>2
  <2>3. CASE i = 4 \/ i = 5 \/ i = 6
    BY <1>1, <1>2, <2>3
  <2> QED BY <2>1, <2>2, <2>3
<1>4. p \o q = r
  BY <1>1, <1>2, <1>3, SeqEqual
<1> QED BY <1>4 DEF p, q, r

\* These two calls, written out.
LEMMA Whole ==
  /\ BeepOn = <<"init", "pwm_start", "beep_flag_on", "timer_stop", "timer_mod", "timer_start">>
  /\ LedOn = <<"init", "led_high", "led_flag_on", "timer_stop", "timer_mod", "timer_start">>
BY JoinedThree DEF BeepOn, LedOn, StartAutoOff

\* The names that occur in calls are names of steps.
LEMMA StepNames ==
  /\ "init" \in Steps /\ "pwm_start" \in Steps /\ "pwm_stop" \in Steps /\ "led_high" \in Steps
  /\ "led_low" \in Steps /\ "beep_flag_on" \in Steps /\ "beep_flag_off" \in Steps
  /\ "led_flag_on" \in Steps /\ "led_flag_off" \in Steps /\ "if_inited" \in Steps
  /\ "unless_led" \in Steps /\ "unless_beep" \in Steps /\ "timer_stop" \in Steps
  /\ "timer_mod" \in Steps /\ "timer_start" \in Steps
BY DEF Steps

\* The step each call is at, and what is left after it.
LEMMA OffTable ==
  /\ Head(ForceAllOff) = "pwm_stop" /\ Tail(ForceAllOff) = OffLed
  /\ Head(OffLed) = "led_low" /\ Tail(OffLed) = OffFlags
  /\ Head(OffFlags) = "beep_flag_off" /\ Tail(OffFlags) = OffFlag
  /\ Head(OffFlag) = "led_flag_off" /\ Tail(OffFlag) = None
BY DEF ForceAllOff, OffLed, OffFlags, OffFlag, None

\* ... of the calls that turn something on
LEMMA OnTable ==
  /\ Head(StartAutoOff) = "timer_stop" /\ Tail(StartAutoOff) = StartMod
  /\ Head(StartMod) = "timer_mod" /\ Tail(StartMod) = StartLast
  /\ Head(StartLast) = "timer_start" /\ Tail(StartLast) = None
  /\ Head(BeepOn) = "init" /\ Tail(BeepOn) = BeepStart
  /\ Head(BeepStart) = "pwm_start" /\ Tail(BeepStart) = BeepSet
  /\ Head(BeepSet) = "beep_flag_on" /\ Tail(BeepSet) = StartAutoOff
  /\ Head(LedOn) = "init" /\ Tail(LedOn) = LedStart
  /\ Head(LedStart) = "led_high" /\ Tail(LedStart) = LedSetOn
  /\ Head(LedSetOn) = "led_flag_on" /\ Tail(LedSetOn) = StartAutoOff
BY Whole DEF StartAutoOff, StartMod, StartLast, BeepStart, BeepSet, LedStart, LedSetOn, None

\* ... of the calls that turn something off
LEMMA StopTable ==
  /\ Head(StopLast) = "timer_stop" /\ Tail(StopLast) = None
  /\ Head(BeepOff) = "if_inited" /\ Tail(BeepOff) = BeepStop
  /\ Head(BeepStop) = "pwm_stop" /\ Tail(BeepStop) = BeepClear
  /\ Head(BeepClear) = "beep_flag_off" /\ Tail(BeepClear) = BeepTest
  /\ Head(BeepTest) = "unless_led" /\ Tail(BeepTest) = StopLast
  /\ Head(LedOff) = "if_inited" /\ Tail(LedOff) = LedLow
  /\ Head(LedLow) = "led_low" /\ Tail(LedLow) = LedClear
  /\ Head(LedClear) = "led_flag_off" /\ Tail(LedClear) = LedTest
  /\ Head(LedTest) = "unless_beep" /\ Tail(LedTest) = StopLast
BY DEF BeepOff, LedOff, StopLast, BeepStop, BeepClear, BeepTest, LedLow, LedClear, LedTest, None

\* The steps alone.
LEMMA Heads ==
  /\ Head(ForceAllOff) = "pwm_stop" /\ Head(OffLed) = "led_low" /\ Head(OffFlags) = "beep_flag_off"
  /\ Head(OffFlag) = "led_flag_off"
  /\ Head(StartAutoOff) = "timer_stop" /\ Head(StartMod) = "timer_mod" /\ Head(StartLast) = "timer_start"
  /\ Head(BeepOn) = "init" /\ Head(BeepStart) = "pwm_start" /\ Head(BeepSet) = "beep_flag_on"
  /\ Head(LedOn) = "init" /\ Head(LedStart) = "led_high" /\ Head(LedSetOn) = "led_flag_on"
  /\ Head(StopLast) = "timer_stop"
  /\ Head(BeepOff) = "if_inited" /\ Head(BeepStop) = "pwm_stop" /\ Head(BeepClear) = "beep_flag_off"
  /\ Head(BeepTest) = "unless_led"
  /\ Head(LedOff) = "if_inited" /\ Head(LedLow) = "led_low" /\ Head(LedClear) = "led_flag_off"
  /\ Head(LedTest) = "unless_beep"
BY OffTable, OnTable, StopTable

\* Two calls at the same step are told apart by what is left.
LEMMA Apart ==
  /\ None \notin Lefts
  /\ ForceAllOff # BeepStop /\ OffLed # LedLow /\ OffFlags # BeepClear /\ OffFlag # LedClear
  /\ StartAutoOff # StopLast /\ BeepOn # LedOn /\ BeepOff # LedOff
<1>1. None \notin Lefts
  BY Whole DEF Lefts, OffLeft, BeepOnLeft, LedOnLeft, StartLeft, BeepOffLeft, LedOffLeft,
     ForceAllOff, OffLed, OffFlags, OffFlag, StartAutoOff, StartMod, StartLast, BeepStart, BeepSet, LedStart, LedSetOn,
     None, BeepOff, LedOff, StopLast, BeepStop, BeepClear, BeepTest, LedLow, LedClear, LedTest
<1>2. /\ ForceAllOff # BeepStop /\ OffLed # LedLow /\ OffFlags # BeepClear /\ OffFlag # LedClear
      /\ StartAutoOff # StopLast
  BY DEF ForceAllOff, BeepStop, OffLed, LedLow, OffFlags, BeepClear, OffFlag, LedClear,
     StartAutoOff, StopLast
<1>3. BeepOn # LedOn /\ BeepOff # LedOff
  BY Whole DEF BeepOff, LedOff
<1> QED BY <1>1, <1>2, <1>3

\* Calls are sequences of steps.
LEMMA LeftTypes == Lefts \subseteq Calls
<1>1. OffLeft \subseteq Seq(Steps)
  BY StepNames DEF OffLeft, ForceAllOff, OffLed, OffFlags, OffFlag
<1>2. BeepOnLeft \subseteq Seq(Steps) /\ LedOnLeft \subseteq Seq(Steps)
  BY StepNames, Whole DEF BeepOnLeft, LedOnLeft, StartLeft, StartAutoOff, StartMod, StartLast,
     BeepStart, BeepSet, LedStart, LedSetOn
<1>3. BeepOffLeft \subseteq Seq(Steps) /\ LedOffLeft \subseteq Seq(Steps)
  BY StepNames DEF BeepOffLeft, LedOffLeft, BeepOff, LedOff, StopLast, BeepStop, BeepClear,
     BeepTest, LedLow, LedClear, LedTest
<1> QED BY <1>1, <1>2, <1>3, Apart DEF Lefts, Calls

\* Where each call is found.
LEMMA Sets ==
  /\ OffLeft \cup BeepOnLeft \cup LedOnLeft \cup BeepOffLeft \cup LedOffLeft \subseteq Lefts
  /\ BeepOn \in BeepOnLeft /\ LedOn \in LedOnLeft /\ BeepOff \in BeepOffLeft /\ LedOff \in LedOffLeft
  /\ ForceAllOff \in OffLeft
BY DEF Lefts, OffLeft, BeepOnLeft, LedOnLeft, BeepOffLeft, LedOffLeft

\* What is left of a call that goes on is not empty.
LEMMA NotNone ==
  /\ OffLed # None /\ OffFlags # None /\ OffFlag # None
  /\ BeepStart # None /\ BeepSet # None /\ LedStart # None /\ LedSetOn # None
  /\ StartAutoOff # None /\ StartMod # None /\ StartLast # None
  /\ BeepStop # None /\ BeepClear # None /\ BeepTest # None /\ StopLast # None
  /\ LedLow # None /\ LedClear # None /\ LedTest # None
BY Apart DEF Lefts, OffLeft, BeepOnLeft, LedOnLeft, StartLeft, BeepOffLeft, LedOffLeft

\* A call put before others is the first, and they are the rest.
LEMMA ConsFacts ==
  ASSUME NEW call \in Calls, NEW calls \in Seq(Calls)
  PROVE  /\ Cons(call, calls) \in Seq(Calls) /\ Cons(call, calls) # None
         /\ Head(Cons(call, calls)) = call /\ Tail(Cons(call, calls)) = calls
<1> DEFINE S == Calls
           p == <<call>>
           w == p \o calls
<1>1. p \in Seq(S) /\ Len(p) = 1 /\ p[1] = call
  OBVIOUS
<1> HIDE DEF S, p
<1>2. /\ w \in Seq(S) /\ Len(w) = Len(calls) + 1 /\ Len(calls) \in Nat
      /\ w[1] = call
      /\ \A i \in 1 .. Len(calls) : w[i + 1] = calls[i]
  <2>1. calls \in Seq(S) /\ Len(calls) \in Nat
    BY DEF S
  <2>2. /\ w \in Seq(S) /\ Len(w) = Len(p) + Len(calls)
        /\ \A i \in 1 .. Len(p) + Len(calls) : w[i] = IF i <= Len(p) THEN p[i] ELSE calls[i - Len(p)]
    BY <1>1, <2>1, ConcatProperties
  <2> HIDE DEF w
  <2>3. ASSUME NEW i \in 1 .. Len(calls) PROVE w[i + 1] = calls[i]
    <3>1. i + 1 \in 1 .. 1 + Len(calls) /\ ~(i + 1 <= 1) /\ (i + 1) - 1 = i
      BY <2>1
    <3> QED BY <3>1, <2>2, <1>1
  <2> QED BY <1>1, <2>1, <2>2, <2>3
<1>3. w # <<>> /\ Head(w) = call /\ Tail(w) \in Seq(S) /\ Len(Tail(w)) = Len(calls)
      /\ \A i \in 1 .. Len(calls) : Tail(w)[i] = calls[i]
  <2> HIDE DEF w
  <2>1. w # <<>>
    BY <1>2
  <2> QED BY <1>2, <2>1, HeadTailProperties
<1>4. Tail(w) = calls
  <2> HIDE DEF w
  <2> QED BY <1>3, SeqEqual DEF S
<1> QED BY <1>2, <1>3, <1>4 DEF Cons, None, S, p

\* What may follow a call.
LEMMA ThenTypes ==
  /\ None \in Seq(Calls) /\ ThenLedOn \in Seq(Calls) /\ ThenLedOff \in Seq(Calls)
  /\ ThenOff \in Seq(Calls) /\ ThenOffLedOn \in Seq(Calls)
<1>1. None \in Seq(Calls)
  BY DEF None
<1>2. LedOn \in Calls /\ LedOff \in Calls /\ ForceAllOff \in Calls
  BY Sets, LeftTypes
<1> QED BY <1>1, <1>2, ConsFacts DEF ThenLedOn, ThenLedOff, ThenOff, ThenOffLedOn

-----------------------------------------------------------------------------
(* What is left stays something a context may have left.                   *)

\* What follows a call may be left itself.
LEMMA ThenFits ==
  ASSUME NEW calls \in {None, ThenLedOn, ThenLedOff, ThenOff, ThenOffLedOn}
  PROVE  calls \in Seq(Calls) /\ Command(calls)
<1>1. Fits(LedOn, None) /\ Fits(LedOff, None) /\ Fits(ForceAllOff, None) /\ Fits(ForceAllOff, ThenLedOn)
  BY Sets DEF Fits
<1>2. LedOn \in Lefts /\ LedOff \in Lefts /\ ForceAllOff \in Lefts
  BY Sets
<1>3. Command(None)
  BY DEF Command
<1>4. Command(ThenLedOn) /\ Command(ThenLedOff) /\ Command(ThenOff)
  BY <1>1, <1>2, ThenTypes DEF Command, ThenLedOn, ThenLedOff, ThenOff
<1>5. Command(ThenOffLedOn)
  BY <1>1, <1>2, ThenTypes DEF Command, ThenOffLedOn
<1> QED BY <1>3, <1>4, <1>5, ThenTypes

\* The call that is under way, and those after it.
LEMMA Split ==
  ASSUME NEW w, w # None, Command(w) \/ AutoOffLeft(w)
  PROVE  /\ w = Cons(Head(w), Tail(w)) /\ Head(w) \in Lefts /\ Tail(w) \in Seq(Calls)
         /\ Command(w) => Fits(Head(w), Tail(w))
         /\ AutoOffLeft(w) => Head(w) \in OffLeft /\ Tail(w) = None
<1>1. ASSUME Command(w)
      PROVE  /\ w = Cons(Head(w), Tail(w)) /\ Fits(Head(w), Tail(w))
             /\ Head(w) \in Lefts /\ Tail(w) \in Seq(Calls)
  <2>1. PICK call \in Lefts : \E calls \in Seq(Calls) : w = Cons(call, calls) /\ Fits(call, calls)
    BY <1>1 DEF Command
  <2>2. PICK calls \in Seq(Calls) : w = Cons(call, calls) /\ Fits(call, calls)
    BY <2>1
  <2>3. Head(w) = call /\ Tail(w) = calls
    BY <2>2, LeftTypes, ConsFacts
  <2> QED BY <2>2, <2>3
<1>2. ASSUME AutoOffLeft(w)
      PROVE  w = Cons(Head(w), Tail(w)) /\ Head(w) \in OffLeft /\ Tail(w) = None
  <2>1. PICK call \in OffLeft : w = Cons(call, None)
    BY <1>2 DEF AutoOffLeft
  <2>2. Head(w) = call /\ Tail(w) = None
    BY <2>1, LeftTypes, Sets, ThenTypes, ConsFacts
  <2> QED BY <2>1, <2>2
<1> QED BY <1>1, <1>2, Sets, ThenTypes

\* The calls of one context after a step of it
After(w) == IF Tail(Head(w)) = None THEN Tail(w) ELSE Cons(Tail(Head(w)), Tail(w))

\* Rest is After, of the calls of a context.
LEMMA RestIsAfter == \A t : todo[t] # None => Rest(t) = After(todo[t])
BY DEF Rest, After, Cons, None

\* A call goes on with what is left of it.
LEMMA TailLeft ==
  /\ \A call \in OffLeft : Tail(call) = None \/ Tail(call) \in OffLeft
  /\ \A call \in BeepOnLeft : Tail(call) = None \/ Tail(call) \in BeepOnLeft
  /\ \A call \in LedOnLeft : Tail(call) = None \/ Tail(call) \in LedOnLeft
  /\ \A call \in BeepOffLeft : Tail(call) = None \/ Tail(call) \in BeepOffLeft
  /\ \A call \in LedOffLeft : Tail(call) = None \/ Tail(call) \in LedOffLeft
<1>1. \A call \in OffLeft : Tail(call) = None \/ Tail(call) \in OffLeft
  BY OffTable DEF OffLeft
<1>2. \A call \in StartLeft : Tail(call) = None \/ Tail(call) \in StartLeft
  BY OnTable DEF StartLeft
<1>3. /\ \A call \in BeepOnLeft : Tail(call) = None \/ Tail(call) \in BeepOnLeft
      /\ \A call \in LedOnLeft : Tail(call) = None \/ Tail(call) \in LedOnLeft
  <2>1. StartAutoOff \in StartLeft
    BY DEF StartLeft
  <2> QED BY <1>2, <2>1, OnTable DEF BeepOnLeft, LedOnLeft
<1>4. \A call \in BeepOffLeft : Tail(call) = None \/ Tail(call) \in BeepOffLeft
  BY StopTable DEF BeepOffLeft
<1>5. \A call \in LedOffLeft : Tail(call) = None \/ Tail(call) \in LedOffLeft
  BY StopTable DEF LedOffLeft
<1> QED BY <1>1, <1>3, <1>4, <1>5

\* A command that goes on, or whose call ends, is one that may be left.
LEMMA AfterFits ==
  ASSUME NEW w, w # None, Command(w)
  PROVE  /\ After(w) \in Seq(Calls) /\ Command(After(w))
         /\ Tail(w) \in Seq(Calls) /\ Command(Tail(w))
<1> DEFINE x == Head(w)
           r == Tail(w)
           y == Tail(x)
<1>1. x \in Lefts /\ r \in Seq(Calls) /\ Fits(x, r)
  BY Split
<1>2. r \in {None, ThenLedOn, ThenLedOff, ThenOff, ThenOffLedOn}
  BY <1>1 DEF Fits
<1>3. Command(r)
  BY <1>2, ThenFits
<1>4. ASSUME y # None PROVE Cons(y, r) \in Seq(Calls) /\ Command(Cons(y, r))
  <2>1. Fits(y, r)
    <3> HIDE DEF x, r
    <3> QED BY <1>1, <1>4, TailLeft DEF Fits
  <2>2. y \in Lefts
    BY <2>1, Sets DEF Fits
  <2> HIDE DEF x, r, y
  <2> QED BY <1>1, <2>1, <2>2, LeftTypes, ConsFacts DEF Command
<1> QED BY <1>1, <1>3, <1>4 DEF After

\* The same of the handler of the timer.
LEMMA AfterOff ==
  ASSUME NEW w, w # None, AutoOffLeft(w)
  PROVE  /\ After(w) \in Seq(Calls) /\ AutoOffLeft(After(w))
<1> DEFINE x == Head(w)
           y == Tail(x)
<1>1. x \in OffLeft /\ Tail(w) = None
  BY Split
<1>2. y = None \/ y \in OffLeft
  BY <1>1, TailLeft
<1>3. y \in OffLeft => Cons(y, None) \in Seq(Calls) /\ AutoOffLeft(Cons(y, None))
  <2> HIDE DEF y
  <2> QED BY Sets, LeftTypes, ThenTypes, ConsFacts DEF AutoOffLeft
<1>4. AutoOffLeft(None)
  BY DEF AutoOffLeft
<1> QED BY <1>1, <1>2, <1>3, <1>4, ThenTypes DEF After

\* A start that fails turns everything off, twice.
LEMMA CleanupFits ==
  ASSUME NEW w, w # None, Command(w), Head(w) \in StartLeft \ {StartAutoOff}
  PROVE  LET v == <<ForceAllOff, ForceAllOff>> \o Tail(w)
         IN /\ v \in Seq(Calls) /\ Command(v) /\ v # None
            /\ Head(v) = ForceAllOff
<1> DEFINE x == Head(w)
           r == Tail(w)
           u == Cons(ForceAllOff, r)
           v == <<ForceAllOff, ForceAllOff>> \o r
<1>1. x \in Lefts /\ r \in Seq(Calls) /\ Fits(x, r)
  BY Split
<1>2. Head(x) \in {"timer_mod", "timer_start"}
  BY OnTable DEF StartLeft
<1>3. x \notin OffLeft /\ x \notin BeepOffLeft
  <2> HIDE DEF x
  <2> QED BY <1>2, OffTable, StopTable DEF OffLeft, BeepOffLeft
<1>4. r \in {None, ThenLedOn}
  BY <1>1, <1>3 DEF Fits
<1>5. u \in {ThenOff, ThenOffLedOn}
  BY <1>4 DEF ThenOff, ThenOffLedOn
<1>6. u \in Seq(Calls) /\ ForceAllOff \in Lefts /\ ForceAllOff \in OffLeft /\ ForceAllOff \in Calls
  BY <1>5, ThenFits, Sets, LeftTypes
<1>7. v = Cons(ForceAllOff, u)
  <2>1. <<ForceAllOff, ForceAllOff>> = <<ForceAllOff>> \o <<ForceAllOff>>
    BY JoinedOne
  <2>2. <<ForceAllOff>> \in Seq(Calls)
    BY <1>6
  <2>3. (<<ForceAllOff>> \o <<ForceAllOff>>) \o r = <<ForceAllOff>> \o (<<ForceAllOff>> \o r)
    BY <1>1, <2>2, ConcatAssociative
  <2> QED BY <2>1, <2>3 DEF Cons
<1>8. Fits(ForceAllOff, u)
  BY <1>5, <1>6 DEF Fits
<1> HIDE DEF x, r, u
<1>9. Cons(ForceAllOff, u) \in Seq(Calls) /\ Command(Cons(ForceAllOff, u))
  BY <1>6, <1>8, ConsFacts DEF Command
<1> QED BY <1>6, <1>7, <1>9, ConsFacts DEF r

\* The step a context is at.
LEMMA AtFirst == \A t, s : At(t, s) <=> (todo[t] # None /\ Head(Head(todo[t])) = s)
BY DEF At, None

\* Who is at a step.
LEMMA Who ==
  ASSUME NEW x \in Lefts
  PROVE  /\ Head(x) = "init" => x \in {BeepOn, LedOn}
         /\ Head(x) = "pwm_start" => x = BeepStart
         /\ Head(x) = "pwm_stop" => x \in {ForceAllOff, BeepStop}
         /\ Head(x) = "led_high" => x = LedStart
         /\ Head(x) = "led_low" => x \in {OffLed, LedLow}
         /\ Head(x) = "beep_flag_on" => x = BeepSet
         /\ Head(x) = "beep_flag_off" => x \in {OffFlags, BeepClear}
         /\ Head(x) = "led_flag_on" => x = LedSetOn
         /\ Head(x) = "led_flag_off" => x \in {OffFlag, LedClear}
         /\ Head(x) = "if_inited" => x \in {BeepOff, LedOff}
         /\ Head(x) = "unless_led" => x = BeepTest
         /\ Head(x) = "unless_beep" => x = LedTest
         /\ Head(x) = "timer_stop" => x \in {StartAutoOff, StopLast}
         /\ Head(x) = "timer_mod" => x = StartMod
         /\ Head(x) = "timer_start" => x = StartLast
BY Heads
   DEF Lefts, OffLeft, BeepOnLeft, LedOnLeft, StartLeft, BeepOffLeft, LedOffLeft

\* Which calls arm the timer, leave the buzzer silent, leave the LED dark.
LEMMA Classes ==
  /\ \A x \in OffLeft \cup BeepOffLeft \cup LedOffLeft \cup {BeepOn, LedOn} : x \notin Passing
  /\ {BeepStart, LedStart} \cap Arming = {}
  /\ \A x \in OffLeft \cup BeepOnLeft \cup LedOnLeft \cup {BeepOff, BeepStop} : x \notin QuietLeft
  /\ \A x \in OffLeft \cup BeepOnLeft \cup LedOnLeft
                 \cup {BeepOff, BeepStop, BeepClear, BeepTest, LedOff, LedLow} :
       x \notin DarkLeft
  /\ \A x \in BeepOnLeft \cup LedOnLeft : x \notin {ForceAllOff, OffLed, LedOff, LedLow}
  /\ {OffFlags, OffFlag} \cap {ForceAllOff, OffLed, LedOff, LedLow} = {}
  /\ OffLed # ForceAllOff /\ LedOn # LedOff /\ LedOn # ForceAllOff /\ LedOff # ForceAllOff
<1>1. /\ \A x \in OffLeft \cup BeepOffLeft \cup LedOffLeft \cup {BeepOn, LedOn} : x \notin Passing
      /\ {BeepStart, LedStart} \cap Arming = {}
  BY Heads, Apart
     DEF OffLeft, BeepOffLeft, LedOffLeft, Passing, Arming, StartLeft
<1>2. \A x \in OffLeft \cup BeepOnLeft \cup LedOnLeft \cup {BeepOff, BeepStop} : x \notin QuietLeft
  BY Heads, Apart
     DEF OffLeft, BeepOnLeft, LedOnLeft, StartLeft, LedOffLeft, QuietLeft
<1>3. \A x \in OffLeft \cup BeepOnLeft \cup LedOnLeft
                 \cup {BeepOff, BeepStop, BeepClear, BeepTest, LedOff, LedLow} :
        x \notin DarkLeft
  BY Heads, Apart
     DEF OffLeft, BeepOnLeft, LedOnLeft, StartLeft, DarkLeft
<1>4. \A x \in BeepOnLeft \cup LedOnLeft : x \notin {ForceAllOff, OffLed, LedOff, LedLow}
  BY Heads
     DEF BeepOnLeft, LedOnLeft, StartLeft
<1>5. /\ {OffFlags, OffFlag} \cap {ForceAllOff, OffLed, LedOff, LedLow} = {}
      /\ OffLed # ForceAllOff /\ LedOn # LedOff /\ LedOn # ForceAllOff /\ LedOff # ForceAllOff
  BY Heads
<1> QED BY <1>1, <1>2, <1>3, <1>4, <1>5

\* The first and the second call of what follows.
LEMMA ThenHeads ==
  /\ ThenLedOn # None /\ Head(ThenLedOn) = LedOn /\ Tail(ThenLedOn) = None
  /\ ThenLedOff # None /\ Head(ThenLedOff) = LedOff /\ Tail(ThenLedOff) = None
  /\ ThenOff # None /\ Head(ThenOff) = ForceAllOff /\ Tail(ThenOff) = None
  /\ ThenOffLedOn # None /\ Head(ThenOffLedOn) = ForceAllOff /\ Tail(ThenOffLedOn) = ThenLedOn
<1>1. LedOn \in Calls /\ LedOff \in Calls /\ ForceAllOff \in Calls
  BY Sets, LeftTypes
<1> QED BY <1>1, ThenTypes, ConsFacts DEF ThenLedOn, ThenLedOff, ThenOff, ThenOffLedOn

\* What may follow a call tells what it was.
LEMMA Follows ==
  ASSUME NEW x, NEW r, Fits(x, r)
  PROVE  /\ r \in {None, ThenLedOn, ThenLedOff, ThenOff, ThenOffLedOn}
         /\ x \in {BeepOn, BeepStart, BeepSet} => r = ThenLedOn
         /\ x \in {LedOn, LedStart, LedSetOn} => r = None
         /\ x \in StartLeft => r \in {None, ThenLedOn}
         /\ x \in {BeepOff, BeepStop, BeepClear, BeepTest} => r = ThenLedOff
         /\ x \in {LedOff, LedLow, LedClear, LedTest} => r = None
         /\ x = StopLast => r \in {None, ThenLedOff}
         /\ x \in OffLeft => r # ThenLedOff
<1>1. x \in {BeepOn, BeepStart, BeepSet} => x \notin OffLeft \cup LedOnLeft \cup LedOffLeft \cup BeepOffLeft
  BY Heads, Apart DEF OffLeft, LedOnLeft, StartLeft, LedOffLeft, BeepOffLeft
<1>2. x \in {LedOn, LedStart, LedSetOn} => x \notin OffLeft \cup BeepOnLeft \cup BeepOffLeft
  BY Heads, Apart DEF OffLeft, BeepOnLeft, StartLeft, BeepOffLeft
<1>3. x \in StartLeft => x \notin OffLeft \cup LedOffLeft \cup BeepOffLeft
  BY Heads, Apart DEF OffLeft, StartLeft, LedOffLeft, BeepOffLeft
<1>4. x \in {BeepOff, BeepStop, BeepClear, BeepTest} => x \notin OffLeft \cup LedOnLeft \cup LedOffLeft \cup BeepOnLeft
  BY Heads, Apart DEF OffLeft, LedOnLeft, StartLeft, LedOffLeft, BeepOnLeft
<1>5. x \in {LedOff, LedLow, LedClear, LedTest} => x \notin OffLeft \cup BeepOnLeft \cup BeepOffLeft
  BY Heads, Apart DEF OffLeft, BeepOnLeft, StartLeft, BeepOffLeft
<1>6. x = StopLast => x \notin OffLeft \cup BeepOnLeft
  BY Heads, Apart DEF OffLeft, BeepOnLeft, StartLeft
<1>7. x \in OffLeft => x \notin BeepOffLeft
  BY Heads, Apart DEF OffLeft, BeepOffLeft
<1>8. ThenLedOff \notin {None, ThenLedOn, ThenOff, ThenOffLedOn}
  BY ThenHeads, Classes
<1> QED BY <1>1, <1>2, <1>3, <1>4, <1>5, <1>6, <1>7, <1>8 DEF Fits

\* What the predicates say of a call and what follows it.
LEMMA Views ==
  ASSUME NEW w, w # None, Command(w) \/ AutoOffLeft(w)
  PROVE  LET x == Head(w)
             r == Tail(w)
         IN /\ Arms(w) <=> x \in Arming
            /\ (\E call \in Passing : First(w, call)) <=> x \in Passing
            /\ Silences(w) <=> (x = ForceAllOff \/ r \in {ThenOff, ThenOffLedOn})
            /\ Darkens(w) <=> (Silences(w) \/ x \in {OffLed, LedOff, LedLow} \/ r = ThenLedOff)
            /\ Silenced(w) <=> x \in QuietLeft
            /\ Darkened(w) <=> (x \in DarkLeft /\ r = None)
<1> DEFINE x == Head(w)
           r == Tail(w)
<1>1. r \in {None, ThenLedOn, ThenLedOff, ThenOff, ThenOffLedOn}
  BY Split, Follows
<1>2. First(r, ForceAllOff) <=> r \in {ThenOff, ThenOffLedOn}
  BY <1>1, ThenHeads, Classes DEF First
<1>3. First(r, LedOff) <=> r = ThenLedOff
  BY <1>1, ThenHeads, Classes DEF First
<1>4. \A y : (First(w, y) <=> x = y) /\ (Second(w, y) <=> First(r, y))
  BY DEF First, Second
<1> HIDE DEF x, r
<1>5. Silences(w) <=> (x = ForceAllOff \/ r \in {ThenOff, ThenOffLedOn})
  BY <1>2, <1>4 DEF Silences
<1>6. Darkens(w) <=> (Silences(w) \/ x \in {OffLed, LedOff, LedLow} \/ r = ThenLedOff)
  BY <1>3, <1>4 DEF Darkens
<1>7. /\ Arms(w) <=> x \in Arming
      /\ (\E call \in Passing : First(w, call)) <=> x \in Passing
      /\ Silenced(w) <=> x \in QuietLeft
  BY <1>4 DEF Arms, Silenced
<1>8. Darkened(w) <=> (x \in DarkLeft /\ r = None)
  BY <1>4 DEF Darkened, r
<1> QED BY <1>5, <1>6, <1>7, <1>8 DEF x, r

\* Nothing is left of a command that is done, and what may follow a call is at its start.
LEMMA NoView == ~Arms(None) /\ ~Silences(None) /\ ~Darkens(None) /\ ~Silenced(None) /\ ~Darkened(None)
BY DEF Arms, Silences, Darkens, Silenced, Darkened, First, Second

\* ... for what follows a call
LEMMA ThenViews ==
  ASSUME NEW r \in {None, ThenLedOn, ThenLedOff, ThenOff, ThenOffLedOn}
  PROVE  /\ ~Arms(r) /\ (~\E call \in Passing : First(r, call))
         /\ Silences(r) <=> r \in {ThenOff, ThenOffLedOn}
         /\ Darkens(r) <=> r \in {ThenOff, ThenOffLedOn, ThenLedOff}
         /\ Silenced(r) <=> r = ThenLedOff
         /\ ~Darkened(r)
<1>0. CASE r = None
  <2>1. ~\E call \in Passing : First(None, call)
    BY DEF First
  <2> QED BY <1>0, <2>1, NoView, ThenHeads
<1>1. CASE r # None
  <2>1. Command(r)
    BY ThenFits
  <2>2. Head(r) \in {LedOn, LedOff, ForceAllOff} /\ (Head(r) = LedOff <=> r = ThenLedOff)
        /\ (Head(r) = ForceAllOff <=> r \in {ThenOff, ThenOffLedOn}) /\ Tail(r) \in {None, ThenLedOn}
    BY <1>1, ThenHeads, Classes
  <2>3. {LedOn, LedOff, ForceAllOff} \cap (Passing \cup Arming \cup DarkLeft) = {}
        /\ LedOff \in QuietLeft /\ LedOn \notin QuietLeft
        /\ ForceAllOff \notin QuietLeft /\ LedOn \notin {OffLed, LedOff, LedLow} /\ ForceAllOff \notin {LedOff, LedLow}
    BY Classes, Sets, Heads DEF QuietLeft, Passing, LedOffLeft
  <2>4. Tail(r) \notin {ThenOff, ThenOffLedOn, ThenLedOff}
    BY <2>2, ThenHeads, Classes
  <2> QED BY <1>1, <2>1, <2>2, <2>3, <2>4, Views
<1> QED BY <1>0, <1>1

\* After a step: the rest of the call is under way, or what follows it.
LEMMA AfterHead ==
  ASSUME NEW w, w # None, Command(w) \/ AutoOffLeft(w)
  PROVE  LET y == Tail(Head(w))
         IN /\ y = None => After(w) = Tail(w)
            /\ y # None => /\ After(w) # None /\ Head(After(w)) = y /\ Tail(After(w)) = Tail(w)
<1> DEFINE x == Head(w)
           r == Tail(w)
           y == Tail(x)
<1>1. x \in Lefts /\ r \in Seq(Calls)
  BY Split
<1>2. y # None => y \in Calls
  <2> HIDE DEF x, r
  <2> QED BY <1>1, TailLeft, LeftTypes DEF Lefts
<1>3. y # None => Cons(y, r) # None /\ Head(Cons(y, r)) = y /\ Tail(Cons(y, r)) = r
  <2> HIDE DEF y, r
  <2> QED BY <1>1, <1>2, ConsFacts
<1> QED BY <1>3 DEF After

-----------------------------------------------------------------------------
(* Types, and what a context may have left, for any contexts.              *)

\* What a step makes of the calls of its task.
Cleanup(w) == <<ForceAllOff, ForceAllOff>> \o Tail(w)
Advances(w, v) ==
  \/ v = After(w)
  \/ v = Tail(w)
  \/ v = Cleanup(w) /\ Head(Head(w)) \in {"timer_mod", "timer_start"}

\* Every step takes one of these ways.
LEMMA StepAdvances ==
  ASSUME Left, NEW t \in Tasks, Step(t)
  PROVE  todo[t] # None /\ \E v : todo' = [todo EXCEPT ![t] = v] /\ Advances(todo[t], v)
<1> DEFINE w == todo[t]
           Goal == w # None /\ \E v : todo' = [todo EXCEPT ![t] = v] /\ Advances(w, v)
<1>1. w \in Seq(Calls)
  BY DEF Left
<1>2. w # None => Tail(w) \in Seq(Calls) /\ <<>> \o Tail(w) = Tail(w)
  <2> HIDE DEF w
  <2>1. w # None => Tail(w) \in Seq(Calls)
    BY <1>1 DEF None
  <2> QED BY <2>1, ConcatEmptySeq
<1>3. \A s : At(t, s) => w # None /\ Head(Head(w)) = s
  BY AtFirst
<1>4. w # None /\ Continue(t, Rest(t)) => Goal
  BY RestIsAfter DEF Continue, Advances
<1>5. w # None /\ Leave(t) => Goal
  BY DEF Leave, Continue, Advances
<1>6. w # None /\ Fail(t, <<>>) => Goal
  BY <1>2 DEF Fail, Continue, Advances
<1>7. ASSUME At(t, "timer_mod") \/ At(t, "timer_start"), Fail(t, <<ForceAllOff, ForceAllOff>>)
      PROVE  Goal
  BY <1>3, <1>7 DEF Fail, Continue, Advances, Cleanup
<1> HIDE DEF Goal
<1>8. ASSUME HalInit(t) PROVE Goal
  BY <1>3, <1>4, <1>6, <1>8 DEF HalInit
<1>9. ASSUME PwmStart(t) PROVE Goal
  BY <1>3, <1>4, <1>6, <1>9 DEF PwmStart
<1>10. ASSUME PwmStop(t) PROVE Goal
  BY <1>3, <1>4, <1>10 DEF PwmStop
<1>11. ASSUME LedSet(t) PROVE Goal
  BY <1>3, <1>4, <1>11 DEF LedSet
<1>12. ASSUME FlagSet(t) PROVE Goal
  BY <1>3, <1>4, <1>12 DEF FlagSet
<1>13. ASSUME Test(t) PROVE Goal
  BY <1>3, <1>4, <1>5, <1>13 DEF Test
<1>14. ASSUME TimerStop(t) PROVE Goal
  BY <1>3, <1>4, <1>14 DEF TimerStop
<1>15. ASSUME TimerSet(t) PROVE Goal
  BY <1>3, <1>4, <1>7, <1>15 DEF TimerSet
<1>16. Goal
  BY <1>8, <1>9, <1>10, <1>11, <1>12, <1>13, <1>14, <1>15 DEF Step
<1> QED BY <1>16 DEF Goal

\* What a context may have left stays so.
LEMMA AdvancesFits ==
  ASSUME NEW w, w # None, NEW v, Advances(w, v)
  PROVE  /\ Command(w) => v \in Seq(Calls) /\ Command(v)
         /\ AutoOffLeft(w) => v \in Seq(Calls) /\ AutoOffLeft(v)
<1>1. ASSUME Command(w) PROVE v \in Seq(Calls) /\ Command(v)
  <2>1. CASE v = After(w) \/ v = Tail(w)
    BY <1>1, <2>1, AfterFits
  <2>2. CASE v = Cleanup(w) /\ Head(Head(w)) \in {"timer_mod", "timer_start"}
    <3>1. Head(w) \in Lefts
      BY <1>1, Split
    <3>2. Head(w) \in {StartMod, StartLast}
      BY <2>2, <3>1, Who
    <3>3. Head(w) \in StartLeft \ {StartAutoOff}
      BY <3>2, Heads DEF StartLeft
    <3> QED BY <1>1, <2>2, <3>3, CleanupFits DEF Cleanup
  <2> QED BY <2>1, <2>2 DEF Advances
<1>2. ASSUME AutoOffLeft(w) PROVE v \in Seq(Calls) /\ AutoOffLeft(v)
  <2>1. Head(w) \in OffLeft /\ Tail(w) = None
    BY <1>2, Split
  <2>2. Head(Head(w)) \notin {"timer_mod", "timer_start"}
    BY <2>1, Heads DEF OffLeft
  <2>3. None \in Seq(Calls) /\ AutoOffLeft(None)
    BY ThenTypes DEF AutoOffLeft
  <2> QED BY <1>2, <2>1, <2>2, <2>3, AfterOff DEF Advances
<1> QED BY <1>1, <1>2

\* At first nothing is left, and nothing is on.
LEMMA InitInv == (MaxFinds \in Nat /\ Init) => Inv1
<1> SUFFICES ASSUME MaxFinds \in Nat, Init PROVE Inv1
  OBVIOUS
<1>1. \A t \in Tasks : todo[t] = None
  BY DEF Init, None
<1>2. Timer \in Tasks /\ Callers \subseteq Tasks
  BY DEF Tasks
<1>3. Left
  BY <1>1, <1>2, ThenTypes DEF Init, Left, Command, AutoOffLeft, None
<1>4. Kinds
  <2>1. timer \in {"none", "stopped"} /\ (initialized => timer # "none")
    BY DEF Init
  <2>2. finds \in 0 .. MaxFinds
    BY DEF Init
  <2> QED BY <2>1, <2>2 DEF Init, Kinds
<1>5. Passed
  BY <1>1, <1>2 DEF Passed, First
<1>6. Ready
  BY DEF Init, Ready
<1> QED BY <1>3, <1>4, <1>5, <1>6 DEF Inv1

\* Steps keep the types; only a set-up that ends well sets initialized.
LEMMA KindsPreserved == (MaxFinds \in Nat /\ Kinds /\ [Next]_vars) => Kinds'
<1> SUFFICES ASSUME MaxFinds \in Nat, Kinds, [Next]_vars PROVE Kinds'
  OBVIOUS
<1> USE DEF Kinds, flags, outputs, commands
<1>1. ASSUME NEW c \in Callers, FindMe(c) PROVE Kinds'
  BY <1>1 DEF FindMe, Begin
<1>2. ASSUME NEW c \in Callers, StopFind(c) PROVE Kinds'
  BY <1>2 DEF StopFind, Begin
<1>3. CASE Elapse
  BY <1>3 DEF Elapse
<1>4. CASE AutoOff
  BY <1>4 DEF AutoOff
<1>5. ASSUME NEW t \in Tasks, Step(t) PROVE Kinds'
  <2>1. CASE HalInit(t)
    BY <2>1 DEF HalInit
  <2>2. CASE PwmStart(t)
    BY <2>2 DEF PwmStart
  <2>3. CASE PwmStop(t)
    BY <2>3 DEF PwmStop
  <2>4. CASE LedSet(t)
    BY <2>4 DEF LedSet
  <2>5. CASE FlagSet(t)
    BY <2>5 DEF FlagSet
  <2>6. CASE Test(t)
    BY <2>6 DEF Test
  <2>7. CASE TimerStop(t)
    BY <2>7 DEF TimerStop
  <2>8. CASE TimerSet(t)
    BY <2>8 DEF TimerSet
  <2> QED BY <1>5, <2>1, <2>2, <2>3, <2>4, <2>5, <2>6, <2>7, <2>8 DEF Step
<1>6. CASE UNCHANGED vars
  BY <1>6 DEF vars
<1> QED BY <1>1, <1>2, <1>3, <1>4, <1>5, <1>6 DEF Next

\* The two commands, as a call and what follows.
LEMMA Commands ==
  /\ <<BeepOn, LedOn>> = Cons(BeepOn, ThenLedOn) /\ <<BeepOff, LedOff>> = Cons(BeepOff, ThenLedOff)
  /\ Fits(BeepOn, ThenLedOn) /\ Fits(BeepOff, ThenLedOff)
  /\ <<BeepOn, LedOn>> \in Seq(Calls) /\ <<BeepOff, LedOff>> \in Seq(Calls)
  /\ Command(<<BeepOn, LedOn>>) /\ Command(<<BeepOff, LedOff>>)
  /\ <<ForceAllOff>> = Cons(ForceAllOff, None) /\ AutoOffLeft(<<ForceAllOff>>)
  /\ <<ForceAllOff>> \in Seq(Calls)
<1>0. /\ BeepOn \in Lefts /\ BeepOff \in Lefts /\ LedOn \in Lefts /\ LedOff \in Lefts
      /\ ForceAllOff \in Lefts
  BY Sets
<1>1. /\ BeepOn \in Calls /\ BeepOff \in Calls /\ LedOn \in Calls /\ LedOff \in Calls
      /\ ForceAllOff \in Calls
  BY <1>0, LeftTypes
<1>2. <<LedOn>> \in Seq(Calls) /\ <<LedOff>> \in Seq(Calls) /\ <<ForceAllOff>> \in Seq(Calls)
  BY <1>1
<1>3. ThenLedOn = <<LedOn>> /\ ThenLedOff = <<LedOff>> /\ <<ForceAllOff>> = Cons(ForceAllOff, None)
  BY <1>2, ConcatEmptySeq DEF ThenLedOn, ThenLedOff, Cons, None
<1>4. <<BeepOn, LedOn>> = Cons(BeepOn, ThenLedOn) /\ <<BeepOff, LedOff>> = Cons(BeepOff, ThenLedOff)
  BY <1>3, JoinedOne DEF Cons
<1>5. Fits(BeepOn, ThenLedOn) /\ Fits(BeepOff, ThenLedOff)
  BY Sets DEF Fits
<1>6. <<BeepOn, LedOn>> \in Seq(Calls) /\ <<BeepOff, LedOff>> \in Seq(Calls)
  BY <1>1, <1>4, ThenTypes, ConsFacts
<1>7. Command(<<BeepOn, LedOn>>) /\ Command(<<BeepOff, LedOff>>)
  BY <1>0, <1>4, <1>5, ThenTypes DEF Command
<1>8. AutoOffLeft(<<ForceAllOff>>)
  BY <1>3, Sets DEF AutoOffLeft
<1> QED BY <1>2, <1>3, <1>4, <1>5, <1>6, <1>7, <1>8

\* Whoever steps, what is left is what may be left.
LEMMA LeftPreserved == (Timer \notin Callers /\ Left /\ [Next]_vars) => Left'
<1> SUFFICES ASSUME Timer \notin Callers, Left, [Next]_vars PROVE Left'
  OBVIOUS
<1>0. Timer \in Tasks /\ (\A c \in Callers : c \in Tasks /\ c # Timer)
  BY DEF Tasks
<1>1. ASSUME NEW c \in Callers, FindMe(c) \/ StopFind(c) PROVE Left'
  <2>1. \E w \in {<<BeepOn, LedOn>>, <<BeepOff, LedOff>>} : todo' = [todo EXCEPT ![c] = w]
    BY <1>1 DEF FindMe, StopFind, Begin, Continue
  <2>2. PICK w \in {<<BeepOn, LedOn>>, <<BeepOff, LedOff>>} : todo' = [todo EXCEPT ![c] = w]
    BY <2>1
  <2>3. w \in Seq(Calls) /\ Command(w)
    BY Commands
  <2> HIDE DEF Command, AutoOffLeft
  <2> QED BY <1>0, <2>2, <2>3 DEF Left
<1>2. CASE Elapse
  BY <1>2 DEF Elapse, Left
<1>3. CASE AutoOff
  <2>1. todo' = [todo EXCEPT ![Timer] = <<ForceAllOff>>]
    BY <1>3 DEF AutoOff
  <2> QED BY <1>0, <2>1, Commands DEF Left
<1>4. ASSUME NEW t \in Tasks, Step(t) PROVE Left'
  <2>0. todo[t] # None /\ \E v : todo' = [todo EXCEPT ![t] = v] /\ Advances(todo[t], v)
    BY <1>4, StepAdvances
  <2>1. PICK v : todo' = [todo EXCEPT ![t] = v] /\ Advances(todo[t], v)
    BY <2>0
  <2>2. CASE t = Timer
    <3>1. v \in Seq(Calls) /\ AutoOffLeft(v)
      BY <2>0, <2>1, <2>2, AdvancesFits DEF Left
    <3> QED BY <1>0, <2>1, <2>2, <3>1 DEF Left
  <2>3. CASE t \in Callers
    <3>1. v \in Seq(Calls) /\ Command(v)
      BY <2>0, <2>1, <2>3, AdvancesFits DEF Left
    <3> QED BY <1>0, <2>1, <2>3, <3>1 DEF Left
  <2> QED BY <2>2, <2>3 DEF Tasks
<1>5. CASE UNCHANGED vars
  BY <1>5 DEF vars, Left
<1> QED BY <1>1, <1>2, <1>3, <1>4, <1>5 DEF Next

\* Past hardware_hal_init is only who has passed it.
LEMMA PassingStep ==
  ASSUME NEW w, w # None, Command(w), NEW v, Advances(w, v), Head(w) \notin Passing,
         Head(w) \notin {BeepOn, LedOn} \/ v = Tail(w)
  PROVE  ~\E call \in Passing : First(v, call)
<1> DEFINE x == Head(w)
           y == Tail(x)
           r == Tail(w)
<1>1. x \in Lefts /\ Fits(x, r)
  BY Split
<1>2. r \in {None, ThenLedOn, ThenLedOff, ThenOff, ThenOffLedOn}
  BY <1>1, Follows
<1>3. ~\E call \in Passing : First(r, call)
  BY <1>2, ThenViews
<1>4. Head(x) \notin {"timer_mod", "timer_start"}
  <2> HIDE DEF x
  <2>1. x \notin {StartMod, StartLast}
    BY DEF x, Passing, Arming, StartLeft
  <2> QED BY <1>1, <2>1, Who
<1>5. v = After(w) \/ v = r
  BY <1>4 DEF Advances
<1>6. ASSUME v # r PROVE v # None /\ Head(v) = y /\ y \notin Passing
  <2>1. v = After(w) /\ y # None /\ v # None /\ Head(v) = y
    BY <1>5, <1>6, AfterHead
  <2>2. x \notin Passing /\ x \notin {BeepOn, LedOn}
    BY <1>6
  <2>3. x \in OffLeft \cup BeepOffLeft \cup LedOffLeft
    <3> HIDE DEF x
    <3> QED BY <1>1, <2>2 DEF Lefts, Passing, Arming, BeepOnLeft, LedOnLeft
  <2>4. y \in OffLeft \cup BeepOffLeft \cup LedOffLeft
    <3> HIDE DEF x
    <3> QED BY <2>1, <2>3, TailLeft
  <2>5. y \notin Passing
    BY <2>4, Classes
  <2> QED BY <2>1, <2>5
<1> QED BY <1>3, <1>6 DEF First

\* Who is past hardware_hal_init finds it set up, and it stays so.
LEMMA PassedPreserved == (Timer \notin Callers /\ Left /\ Passed /\ [Next]_vars) => Passed'
<1> SUFFICES ASSUME Timer \notin Callers, Left, Passed, [Next]_vars, NEW c \in Callers,
                    \E call \in Passing : First(todo'[c], call), ~initialized'
             PROVE  FALSE
  BY DEF Passed
<1> DEFINE Ahead(w) == \E call \in Passing : First(w, call)
<1>0. c \in Tasks /\ c # Timer /\ todo \in [Tasks -> Seq(Calls)] /\ Command(todo[c])
  BY DEF Tasks, Left
<1>a. ~initialized' => ~initialized
  <2> SUFFICES ASSUME initialized PROVE initialized'
    OBVIOUS
  <2>1. ASSUME NEW t \in Tasks, Step(t) PROVE initialized'
    BY <2>1 DEF Step, HalInit, PwmStart, PwmStop, LedSet, FlagSet, Test, TimerStop, TimerSet,
       flags
  <2> QED BY <2>1 DEF Next, FindMe, StopFind, Begin, Elapse, AutoOff, vars, flags
<1>b. ~Ahead(todo[c]) /\ Ahead(todo'[c])
  BY <1>a DEF Passed
<1> HIDE DEF Ahead
<1>1. ASSUME NEW d \in Callers, FindMe(d) \/ StopFind(d) PROVE FALSE
  <2>1. \E w \in {<<BeepOn, LedOn>>, <<BeepOff, LedOff>>} : todo' = [todo EXCEPT ![d] = w]
    BY <1>1 DEF FindMe, StopFind, Begin, Continue
  <2>2. PICK w \in {<<BeepOn, LedOn>>, <<BeepOff, LedOff>>} : todo' = [todo EXCEPT ![d] = w]
    BY <2>1
  <2>3. w # None /\ Command(w) /\ Head(w) \in {BeepOn, BeepOff}
    <3>1. BeepOn \in Calls /\ BeepOff \in Calls
      BY Sets, LeftTypes
    <3>2. w = Cons(BeepOn, ThenLedOn) \/ w = Cons(BeepOff, ThenLedOff)
      BY Commands
    <3>3. w # None /\ Head(w) \in {BeepOn, BeepOff}
      BY <3>1, <3>2, ThenTypes, ConsFacts
    <3> QED BY <3>3, Commands
  <2>4. ~Ahead(w)
    BY <2>3, Views, Classes, Sets DEF Ahead
  <2>5. todo'[c] = w \/ todo'[c] = todo[c]
    BY <1>0, <2>2
  <2> QED BY <2>4, <2>5, <1>b
<1>2. CASE Elapse
  BY <1>b, <1>2 DEF Elapse
<1>3. CASE AutoOff
  <2>1. todo'[c] = todo[c]
    BY <1>0, <1>3 DEF AutoOff
  <2> QED BY <2>1, <1>b
<1>4. ASSUME NEW t \in Tasks, Step(t) PROVE FALSE
  <2>0. todo[t] # None /\ \E v : todo' = [todo EXCEPT ![t] = v] /\ Advances(todo[t], v)
    BY <1>4, StepAdvances
  <2>1. PICK v : todo' = [todo EXCEPT ![t] = v] /\ Advances(todo[t], v)
    BY <2>0
  <2>2. c = t
    BY <1>0, <1>b, <2>1
  <2>3. todo'[c] = v
    BY <1>0, <2>1, <2>2
  <2>4. Head(todo[c]) \notin Passing
    BY <1>0, <1>b, <2>0, <2>2, Views DEF Ahead
  <2>5. CASE HalInit(c)
    <3>1. Fail(c, <<>>)
      BY <1>a, <2>5 DEF HalInit
    <3>2. Tail(todo[c]) \in Seq(Calls)
      BY <1>0, <2>0, <2>2, Split
    <3>3. todo'[c] = Tail(todo[c])
      BY <1>0, <3>1, <3>2, ConcatEmptySeq DEF Fail, Continue
    <3> QED BY <1>0, <1>b, <2>0, <2>1, <2>2, <2>3, <2>4, <3>3, PassingStep DEF Ahead
  <2>6. CASE ~HalInit(c)
    <3>1. ~At(c, "init")
      BY <1>4, <2>2, <2>6 DEF Step, PwmStart, PwmStop, LedSet, FlagSet, Test, TimerStop,
         TimerSet, At
    <3>2. Head(todo[c]) \notin {BeepOn, LedOn}
      BY <3>1, <2>0, <2>2, Heads, AtFirst
    <3> QED BY <1>0, <1>b, <2>0, <2>1, <2>2, <2>3, <2>4, <3>2, PassingStep DEF Ahead
  <2> QED BY <2>5, <2>6
<1>5. CASE UNCHANGED vars
  BY <1>b, <1>5 DEF vars
<1> QED BY <1>1, <1>2, <1>3, <1>4, <1>5 DEF Next

\* Only who is past hardware_hal_init turns something on.
LEMMA ReadyPreserved == (Inv1 /\ [Next]_vars) => Ready'
<1> SUFFICES ASSUME Inv1, [Next]_vars PROVE Ready'
  OBVIOUS
<1> USE DEF flags, outputs
<1>0. Kinds /\ Ready /\ Left /\ Passed
  BY DEF Inv1
<1>1. ASSUME NEW t \in Tasks, At(t, "pwm_start") \/ At(t, "led_high") PROVE initialized
  <2>1. todo[t] # None /\ Head(Head(todo[t])) \in {"pwm_start", "led_high"}
    BY <1>1, AtFirst
  <2>2. CASE t = Timer
    <3>1. Head(todo[t]) \in OffLeft
      BY <1>0, <2>1, <2>2, Split DEF Left
    <3> QED BY <2>1, <3>1, Heads DEF OffLeft
  <2>3. CASE t \in Callers
    <3>1. Head(todo[t]) \in Lefts /\ Command(todo[t])
      BY <1>0, <2>1, <2>3, Split DEF Left
    <3>2. Head(todo[t]) \in {BeepStart, LedStart}
      BY <2>1, <3>1, Who
    <3>3. \E call \in Passing : First(todo[t], call)
      BY <2>1, <3>2 DEF First, Passing
    <3> QED BY <1>0, <2>3, <3>3 DEF Passed
  <2> QED BY <2>2, <2>3 DEF Tasks
<1>2. ASSUME NEW t \in Tasks, Step(t) PROVE Ready'
  <2>1. CASE HalInit(t)
    BY <1>0, <2>1 DEF HalInit, Ready, Kinds
  <2>2. CASE PwmStart(t)
    BY <1>0, <1>1, <2>2 DEF PwmStart, Ready
  <2>3. CASE LedSet(t)
    BY <1>0, <1>1, <2>3 DEF LedSet, Ready
  <2>4. CASE PwmStop(t)
    BY <1>0, <2>4 DEF PwmStop, Ready
  <2>5. CASE FlagSet(t)
    BY <1>0, <2>5 DEF FlagSet, Ready
  <2>6. CASE Test(t) \/ TimerStop(t) \/ TimerSet(t)
    BY <1>0, <2>6 DEF Test, TimerStop, TimerSet, Ready
  <2> QED BY <1>2, <2>1, <2>2, <2>3, <2>4, <2>5, <2>6 DEF Step
<1>3. CASE UNCHANGED <<flags, outputs>>
  BY <1>0, <1>3 DEF Ready
<1> QED BY <1>2, <1>3 DEF Next, FindMe, StopFind, Begin, Elapse, AutoOff, vars

-----------------------------------------------------------------------------
(* What is on will go off, unless a STOP_FIND overlaps a FIND_ME.           *)

\* The timer task only turns things off.
LEMMA TimerCovers ==
  ASSUME Inv1, Timer \notin Callers, Alarm, Step(Timer)
  PROVE  Alarm'
<1> DEFINE q == todo[Timer]
           x == Head(q)
<1>0. /\ Timer \in Tasks /\ todo \in [Tasks -> Seq(Calls)]
      /\ AutoOffLeft(q) /\ Ready /\ Kinds
  BY DEF Inv1, Left, Tasks
<1>1. q # None /\ \E v : todo' = [todo EXCEPT ![Timer] = v] /\ Advances(q, v)
  BY <1>0, StepAdvances DEF Inv1
<1>2. \A t \in Tasks \ {Timer} : todo'[t] = todo[t]
  BY <1>0, <1>1
<1>3. x \in OffLeft /\ Tail(q) = None
  BY <1>0, <1>1, Split
<1>a. ~Arms(q)
  BY <1>0, <1>1, <1>3, Views, Classes DEF Passing
<1>b. /\ (\E t \in Tasks : Hushes(todo[t])) /\ ~Silences(q) => \E t \in Tasks : Hushes(todo'[t])
      /\ (\E t \in Tasks : Shades(todo[t])) /\ ~Darkens(q) => \E t \in Tasks : Shades(todo'[t])
  BY <1>2, <1>a DEF Hushes, Shades
<1>c. Darkens(todo'[Timer]) => \E t \in Tasks : Shades(todo'[t])
  BY <1>0 DEF Shades
<1>4. \A s : At(Timer, s) => Head(x) = s
  BY AtFirst
<1>5. Rest(Timer) = After(q)
  BY <1>1, RestIsAfter
<1>6. None \notin {ThenOff, ThenOffLedOn, ThenLedOff}
  BY ThenHeads
<1>7. /\ Silences(q) <=> x = ForceAllOff
      /\ Darkens(q) <=> x \in {ForceAllOff, OffLed}
  <2>1. /\ Silences(q) <=> (x = ForceAllOff \/ Tail(q) \in {ThenOff, ThenOffLedOn})
        /\ Darkens(q) <=> (Silences(q) \/ x \in {OffLed, LedOff, LedLow} \/ Tail(q) = ThenLedOff)
    BY <1>0, <1>1, Views
  <2>2. x \notin {LedOff, LedLow}
    <3> HIDE DEF x
    <3> QED BY <1>3, Heads, Apart DEF OffLeft
  <2> QED BY <2>1, <2>2, <1>3, <1>6
<1>8. x = ForceAllOff => Darkens(After(q))
  <2> SUFFICES ASSUME x = ForceAllOff PROVE Darkens(After(q))
    OBVIOUS
  <2>1. Tail(x) = OffLed /\ OffLed # None
    BY OffTable, Apart DEF Lefts, OffLeft
  <2>2. After(q) # None /\ Head(After(q)) = OffLed
    BY <1>0, <1>1, <2>1, AfterHead
  <2> QED BY <2>2 DEF Darkens, First
<1> HIDE DEF x, q
<1>9. CASE At(Timer, "pwm_stop")
  <2>1. PwmStop(Timer)
    BY <1>9 DEF Step, HalInit, PwmStart, LedSet, FlagSet, Test, TimerStop, TimerSet, PwmStop, At
  <2>2. sounding' = FALSE /\ lit' = lit /\ timer' = timer /\ todo'[Timer] = After(q)
    BY <1>0, <1>5, <2>1 DEF PwmStop, Ready, Kinds, Continue
  <2>3. x = ForceAllOff
    BY <1>3, <1>4, <1>9, Heads DEF OffLeft
  <2>4. x # ForceAllOff \/ Darkens(todo'[Timer])
    BY <1>8, <2>2
  <2> QED BY <1>c, <2>2, <2>3, <2>4 DEF Alarm, Live
<1>10. CASE At(Timer, "led_low")
  <2>1. LedSet(Timer)
    BY <1>10 DEF Step, HalInit, PwmStart, LedSet, FlagSet, Test, TimerStop, TimerSet, PwmStop, At
  <2>2. lit' = FALSE /\ sounding' = sounding /\ timer' = timer
    BY <1>10, <2>1 DEF LedSet, At, flags
  <2>3. x = OffLed /\ x # ForceAllOff
    BY <1>3, <1>4, <1>10, Heads DEF OffLeft
  <2> QED BY <1>7, <1>b, <2>2, <2>3 DEF Alarm, Live
<1>11. CASE At(Timer, "beep_flag_off") \/ At(Timer, "led_flag_off")
  <2>1. FlagSet(Timer)
    BY <1>11 DEF Step, HalInit, PwmStart, LedSet, FlagSet, Test, TimerStop, TimerSet, PwmStop, At
  <2>2. UNCHANGED <<sounding, lit, timer>>
    BY <2>1 DEF FlagSet, outputs
  <2>3. x \in {OffFlags, OffFlag}
    BY <1>3, <1>4, <1>11, Heads DEF OffLeft
  <2>4. x \notin {ForceAllOff, OffLed}
    BY <2>3, Heads
  <2> QED BY <1>7, <1>b, <2>2, <2>4 DEF Alarm, Live
<1>12. \/ At(Timer, "pwm_stop") \/ At(Timer, "led_low")
       \/ At(Timer, "beep_flag_off") \/ At(Timer, "led_flag_off")
  BY <1>1, <1>3, Heads, AtFirst DEF OffLeft, x, q
<1> QED BY <1>9, <1>10, <1>11, <1>12

\* What the predicates say after a step, while the call goes on.
LEMMA AfterViews ==
  ASSUME NEW w, w # None, Command(w), Tail(Head(w)) # None
  PROVE  LET v == After(w)
             y == Tail(Head(w))
             r == Tail(w)
         IN /\ Arms(v) <=> y \in Arming
            /\ Silences(v) <=> (y = ForceAllOff \/ r \in {ThenOff, ThenOffLedOn})
            /\ Darkens(v) <=> (Silences(v) \/ y \in {OffLed, LedOff, LedLow} \/ r = ThenLedOff)
            /\ Silenced(v) <=> y \in QuietLeft
            /\ Darkened(v) <=> (y \in DarkLeft /\ r = None)
<1> DEFINE v == After(w)
           y == Tail(Head(w))
           r == Tail(w)
<1>1. v # None /\ Head(v) = y /\ Tail(v) = r /\ Command(v)
  BY AfterHead, AfterFits
<1>2. /\ Arms(v) <=> Head(v) \in Arming
      /\ Silences(v) <=> (Head(v) = ForceAllOff \/ Tail(v) \in {ThenOff, ThenOffLedOn})
      /\ Darkens(v) <=> (Silences(v) \/ Head(v) \in {OffLed, LedOff, LedLow} \/ Tail(v) = ThenLedOff)
      /\ Silenced(v) <=> Head(v) \in QuietLeft
      /\ Darkened(v) <=> (Head(v) \in DarkLeft /\ Tail(v) = None)
  <2> HIDE DEF v
  <2> QED BY <1>1, Views
<1> QED BY <1>1, <1>2

\* A step of a context that runs commands: each case is a row of Alarm and Own.
LEMMA CallerCovers ==
  ASSUME Inv1, Timer \notin Callers, NEW c \in Callers, Alarm, Own(c), Step(c)
  PROVE  Alarm' /\ Own(c)'
<1> DEFINE w == todo[c]
           x == Head(w)
           r == Tail(w)
           y == Tail(x)
           v == todo'[c]
           Q == \E t \in Tasks \ {c} : Hushes(todo[t])
           D == \E t \in Tasks \ {c} : Shades(todo[t])
<1>0. c \in Tasks /\ c # Timer /\ todo \in [Tasks -> Seq(Calls)] /\ Command(w) /\ Ready /\ Kinds
  BY DEF Inv1, Left, Tasks
<1>1. w # None /\ \E z : todo' = [todo EXCEPT ![c] = z] /\ Advances(w, z)
  BY <1>0, StepAdvances DEF Inv1
<1>2. \A t \in Tasks \ {c} : todo'[t] = todo[t]
  BY <1>0, <1>1
<1>3. x \in Lefts /\ Fits(x, r) /\ r \in Seq(Calls)
  BY <1>0, <1>1, Split
<1>4. \A s : At(c, s) => Head(x) = s
  BY AtFirst
<1>5. /\ Continue(c, Rest(c)) => v = After(w)
      /\ Leave(c) => v = r
      /\ Fail(c, <<>>) => v = r
      /\ Fail(c, <<ForceAllOff, ForceAllOff>>) => v = Cleanup(w)
  BY <1>0, <1>1, <1>3, RestIsAfter, ConcatEmptySeq DEF Continue, Leave, Fail, Cleanup
<1>6. /\ Arms(w) <=> x \in Arming
      /\ Silences(w) <=> (x = ForceAllOff \/ r \in {ThenOff, ThenOffLedOn})
      /\ Darkens(w) <=> (Silences(w) \/ x \in {OffLed, LedOff, LedLow} \/ r = ThenLedOff)
      /\ Silenced(w) <=> x \in QuietLeft
      /\ Darkened(w) <=> (x \in DarkLeft /\ r = None)
  BY <1>0, <1>1, Views
<1>7. v = After(w) /\ y # None =>
        /\ Arms(v) <=> y \in Arming
        /\ Silences(v) <=> (y = ForceAllOff \/ r \in {ThenOff, ThenOffLedOn})
        /\ Darkens(v) <=> (Silences(v) \/ y \in {OffLed, LedOff, LedLow} \/ r = ThenLedOff)
        /\ Silenced(v) <=> y \in QuietLeft
        /\ Darkened(v) <=> (y \in DarkLeft /\ r = None)
  BY <1>0, <1>1, AfterViews
<1>8. v = After(w) /\ y = None => v = r
  BY <1>0, <1>1, AfterHead
<1>9. v = r =>
        /\ ~Arms(v)
        /\ Silences(v) <=> r \in {ThenOff, ThenOffLedOn}
        /\ Darkens(v) <=> r \in {ThenOff, ThenOffLedOn, ThenLedOff}
        /\ Silenced(v) <=> r = ThenLedOff
        /\ ~Darkened(v)
  <2>1. r \in {None, ThenLedOn, ThenLedOff, ThenOff, ThenOffLedOn}
    BY <1>3, Follows
  <2> HIDE DEF r, v
  <2> QED BY <2>1, ThenViews
<1>10. /\ sounding => Live \/ Arms(w) \/ Silences(w) \/ Q
       /\ lit => Live \/ Arms(w) \/ Darkens(w) \/ D
       /\ Silenced(w) => ~sounding
       /\ Darkened(w) => ~lit
  BY <1>0 DEF Alarm, Own, Hushes, Shades
<1> DEFINE Goal ==
       /\ sounding' => Live' \/ Arms(v) \/ Silences(v) \/ Q
       /\ lit' => Live' \/ Arms(v) \/ Darkens(v) \/ D
       /\ Silenced(v) => ~sounding'
       /\ Darkened(v) => ~lit'
<1>11. Goal => Alarm' /\ Own(c)'
  <2>1. Q' = Q /\ D' = D
    BY <1>2
  <2>2. /\ Q' => \E t \in Tasks : Hushes(todo[t])'
        /\ D' => \E t \in Tasks : Shades(todo[t])'
    OBVIOUS
  <2>3. /\ Arms(v) \/ Silences(v) => \E t \in Tasks : Hushes(todo[t])'
        /\ Arms(v) \/ Darkens(v) => \E t \in Tasks : Shades(todo[t])'
    BY <1>0 DEF Hushes, Shades
  <2> HIDE DEF v, Q, D
  <2>4. Goal => Alarm'
    BY <2>1, <2>2, <2>3 DEF Alarm
  <2>5. Goal => Own(c)'
    BY DEF Own, v
  <2> QED BY <2>4, <2>5
<1>12. /\ ThenLedOff \notin {None, ThenLedOn, ThenOff, ThenOffLedOn}
       /\ ThenLedOn \notin {None, ThenOff, ThenOffLedOn}
       /\ None \notin {ThenOff, ThenOffLedOn}
  BY ThenHeads, Classes
<1>13. /\ Timer \in Tasks /\ initialized \in BOOLEAN /\ pwm_inited \in BOOLEAN
       /\ sounding \in BOOLEAN /\ lit \in BOOLEAN
  BY <1>0 DEF Kinds, Tasks
<1> HIDE DEF x, r, y, v, w, Q, D
<1>20. ASSUME HalInit(c) PROVE Goal
  <2>1. x \in {BeepOn, LedOn}
    BY <1>3, <1>4, <1>20, Who DEF HalInit
  <2>2. CASE ~initialized
    <3>1. ~sounding' /\ ~lit'
      BY <1>0, <1>20, <2>2 DEF HalInit, Ready
    <3> QED BY <3>1
  <2>3. CASE initialized
    <3>1. v = After(w) /\ UNCHANGED <<sounding, lit, timer>>
      BY <1>5, <1>20, <2>3 DEF HalInit, outputs
    <3>2. y \in {BeepStart, LedStart} /\ y # None
      BY <2>1, OnTable, NotNone DEF y, BeepOnLeft, LedOnLeft
    <3>3. y \notin QuietLeft /\ y \notin DarkLeft
      BY <3>2, Classes DEF BeepOnLeft, LedOnLeft
    <3>4. r \in {None, ThenLedOn} /\ x \notin Arming /\ x \notin {ForceAllOff, OffLed, LedOff, LedLow}
      BY <1>3, <2>1, Follows, Classes, Sets DEF Passing
    <3>5. ~Arms(w) /\ ~Silences(w) /\ ~Darkens(w)
      BY <1>6, <1>12, <3>4
    <3> QED BY <1>7, <1>10, <3>1, <3>2, <3>3, <3>5 DEF Live
  <2> QED BY <1>13, <2>2, <2>3
<1>21. ASSUME PwmStart(c) PROVE Goal
  <2>1. x = BeepStart
    BY <1>3, <1>4, <1>21, Who DEF PwmStart
  <2>2. r = ThenLedOn /\ y = BeepSet /\ BeepSet # None
    BY <1>3, <2>1, Follows, OnTable, NotNone DEF y, BeepOnLeft
  <2>3. x \notin Arming /\ x \notin {ForceAllOff, OffLed, LedOff, LedLow}
    BY <2>1, Classes DEF BeepOnLeft
  <2>4. ~Arms(w) /\ ~Silences(w) /\ ~Darkens(w)
    BY <1>6, <1>12, <2>2, <2>3
  <2>5. y \in Arming /\ y \notin QuietLeft /\ y \notin DarkLeft
    BY <2>2, Classes DEF Arming, BeepOnLeft
  <2>6. UNCHANGED <<lit, timer>>
    BY <1>21 DEF PwmStart
  <2>7. v = After(w) \/ (v = r /\ sounding' = sounding)
    BY <1>5, <1>21 DEF PwmStart
  <2>8. CASE v = After(w)
    BY <1>7, <2>2, <2>5, <2>8
  <2>9. CASE v = r /\ sounding' = sounding
    BY <1>9, <1>10, <1>12, <2>2, <2>4, <2>6, <2>9 DEF Live
  <2> QED BY <2>7, <2>8, <2>9
<1>22. ASSUME PwmStop(c) PROVE Goal
  <2>1. x \in {ForceAllOff, BeepStop}
    BY <1>3, <1>4, <1>22, Who DEF PwmStop
  <2>2. ~sounding' /\ lit' = lit /\ timer' = timer /\ v = After(w)
    BY <1>0, <1>5, <1>22 DEF PwmStop, Ready, Kinds
  <2>3. CASE x = ForceAllOff
    <3>1. y = OffLed /\ y # None /\ y \notin DarkLeft
      BY <2>3, OffTable, NotNone, Classes DEF y, OffLeft
    <3> QED BY <1>7, <2>2, <3>1
  <2>4. CASE x = BeepStop
    <3>1. r = ThenLedOff
      BY <1>3, <2>4, Follows
    <3>2. y = BeepClear /\ y # None /\ y \notin DarkLeft
      BY <2>4, StopTable, NotNone, Classes DEF y, BeepOffLeft
    <3> QED BY <1>7, <2>2, <3>1, <3>2
  <2> QED BY <2>1, <2>3, <2>4
<1>23. ASSUME LedSet(c) PROVE Goal
  <2>0. v = After(w) /\ sounding' = sounding /\ timer' = timer
    BY <1>5, <1>23 DEF LedSet
  <2>1. (x = LedStart /\ lit' = TRUE) \/ (x \in {OffLed, LedLow} /\ lit' = FALSE)
    BY <1>3, <1>4, <1>23, Who DEF LedSet
  <2>2. CASE x = LedStart
    <3>1. y = LedSetOn /\ y # None /\ y \in Arming /\ y \notin QuietLeft /\ y \notin DarkLeft
      BY <2>2, OnTable, NotNone, Classes DEF y, LedOnLeft, Arming
    <3> QED BY <1>7, <2>0, <3>1
  <2>3. CASE x = OffLed /\ lit' = FALSE
    <3>1. y = OffFlags /\ y # None /\ y \notin QuietLeft
      BY <2>3, OffTable, NotNone, Classes DEF y, OffLeft
    <3>2. x \notin Arming /\ x # ForceAllOff
      BY <2>3, Classes DEF OffLeft, Passing
    <3> QED BY <1>6, <1>7, <1>10, <2>0, <2>3, <3>1, <3>2 DEF Live
  <2>4. CASE x = LedLow /\ lit' = FALSE
    <3>1. x \in QuietLeft
      BY <2>4 DEF QuietLeft, LedOffLeft
    <3> QED BY <1>6, <1>10, <2>0, <2>4, <3>1
  <2> QED BY <2>1, <2>2, <2>3, <2>4
<1>24. ASSUME FlagSet(c) PROVE Goal
  <2>0. v = After(w) /\ UNCHANGED <<sounding, lit, timer>>
    BY <1>5, <1>24 DEF FlagSet, outputs
  <2>1. x \in {BeepSet, LedSetOn, OffFlags, OffFlag, BeepClear, LedClear}
    BY <1>3, <1>4, <1>24, Who DEF FlagSet
  <2>2. CASE x \in {BeepSet, LedSetOn}
    <3>1. y = StartAutoOff /\ y # None /\ y \in Arming /\ y \notin QuietLeft /\ y \notin DarkLeft
      BY <2>2, OnTable, NotNone, Classes DEF y, LedOnLeft, StartLeft, Arming
    <3> QED BY <1>7, <2>0, <3>1
  <2>3. CASE x \in {OffFlags, OffFlag}
    <3>1. x \notin Arming /\ x \notin {ForceAllOff, OffLed, LedOff, LedLow} /\ r # ThenLedOff
      BY <1>3, <2>3, Classes, Follows DEF OffLeft, Passing
    <3>2. CASE x = OffFlags
      <4>1. y = OffFlag /\ y # None /\ y \notin QuietLeft /\ y \notin DarkLeft
        BY <3>2, OffTable, NotNone, Classes DEF y, OffLeft
      <4> QED BY <1>6, <1>7, <1>10, <2>0, <3>1, <4>1 DEF Live
    <3>3. CASE x = OffFlag
      <4>1. y = None
        BY <3>3, OffTable DEF y
      <4> QED BY <1>6, <1>8, <1>9, <1>10, <2>0, <3>1, <4>1 DEF Live
    <3> QED BY <2>3, <3>2, <3>3
  <2>4. CASE x = BeepClear
    <3>1. r = ThenLedOff
      BY <1>3, <2>4, Follows
    <3>2. y = BeepTest /\ y # None /\ x \in QuietLeft
      BY <2>4, StopTable, NotNone DEF y, BeepOffLeft, QuietLeft
    <3> QED BY <1>6, <1>7, <1>10, <1>12, <2>0, <3>1, <3>2
  <2>5. CASE x = LedClear
    <3>1. r = None /\ x \in QuietLeft /\ x \in DarkLeft
      BY <1>3, <2>5, Follows DEF LedOffLeft, QuietLeft, DarkLeft
    <3> QED BY <1>6, <1>10, <2>0, <3>1
  <2> QED BY <2>1, <2>2, <2>3, <2>4, <2>5
<1>25. ASSUME Test(c) PROVE Goal
  <2>0. UNCHANGED <<sounding, lit, timer>>
    BY <1>25 DEF Test, outputs
  <2>1. CASE ~initialized
    <3>1. ~sounding /\ ~lit
      BY <1>0, <2>1 DEF Ready
    <3> QED BY <2>0, <3>1
  <2>2. CASE initialized
    <3>1. \/ x \in {BeepOff, LedOff} /\ v = After(w)
          \/ x \in {BeepTest, LedTest} /\ v \in {r, After(w)}
      BY <1>3, <1>4, <1>5, <1>25, <2>2, Who DEF Test
    <3>2. CASE x = BeepOff
      <4>0. r = ThenLedOff
        BY <1>3, <3>2, Follows
      <4>1. y = BeepStop /\ y # None /\ y \notin QuietLeft /\ y \notin DarkLeft
        BY <3>2, StopTable, NotNone, Classes DEF y, BeepOffLeft
      <4>2. x \notin Arming /\ x # ForceAllOff /\ v = After(w)
        BY <3>1, <3>2, Classes, Heads DEF BeepOffLeft, Passing
      <4> QED BY <1>6, <1>7, <1>10, <1>12, <2>0, <4>0, <4>1, <4>2 DEF Live
    <3>3. CASE x = LedOff
      <4>1. y = LedLow /\ y # None /\ y \notin DarkLeft /\ x \in QuietLeft
        BY <3>3, StopTable, NotNone, Classes DEF y, LedOffLeft, QuietLeft
      <4>2. v = After(w)
        BY <3>1, <3>3, Heads
      <4> QED BY <1>6, <1>7, <1>10, <2>0, <4>1, <4>2 DEF Live
    <3>4. CASE x = BeepTest
      <4>0. r = ThenLedOff
        BY <1>3, <3>4, Follows
      <4>1. y = StopLast /\ y # None /\ x \in QuietLeft
        BY <3>4, StopTable, NotNone DEF y, BeepOffLeft, QuietLeft
      <4>2. v \in {r, After(w)}
        BY <3>1, <3>4, Heads
      <4> QED BY <1>6, <1>7, <1>9, <1>10, <1>12, <2>0, <4>0, <4>1, <4>2
    <3>5. CASE x = LedTest
      <4>1. r = None /\ x \in QuietLeft /\ x \in DarkLeft
        BY <1>3, <3>5, Follows DEF LedOffLeft, QuietLeft, DarkLeft
      <4> QED BY <1>6, <1>10, <2>0, <4>1
    <3> QED BY <3>1, <3>2, <3>3, <3>4, <3>5
  <2> QED BY <1>13, <2>1, <2>2
<1>26. ASSUME TimerStop(c) PROVE Goal
  <2>0. v = After(w) /\ UNCHANGED <<sounding, lit>>
    BY <1>5, <1>26 DEF TimerStop, outputs
  <2>1. x \in {StartAutoOff, StopLast}
    BY <1>3, <1>4, <1>26, Who DEF TimerStop
  <2>2. CASE x = StartAutoOff
    <3>1. y = StartMod /\ y # None /\ y \in Arming /\ y \notin QuietLeft /\ y \notin DarkLeft
      BY <2>2, OnTable, NotNone, Classes DEF y, LedOnLeft, StartLeft, Arming
    <3> QED BY <1>7, <2>0, <3>1
  <2>3. CASE x = StopLast
    <3>1. r \in {None, ThenLedOff} /\ x \in QuietLeft /\ x \in DarkLeft
      BY <1>3, <2>3, Follows DEF QuietLeft, DarkLeft
    <3>2. v = r
      BY <1>8, <2>0, <2>3, StopTable DEF y
    <3> QED BY <1>6, <1>9, <1>10, <1>12, <2>0, <3>1, <3>2
  <2> QED BY <2>1, <2>2, <2>3
<1>27. ASSUME TimerSet(c) PROVE Goal
  <2>0. UNCHANGED <<sounding, lit>>
    BY <1>27 DEF TimerSet, outputs
  <2>1. x \in {StartMod, StartLast}
    BY <1>3, <1>4, <1>27, Who DEF TimerSet
  <2>2. \/ v = After(w) /\ (At(c, "timer_start") => Live')
        \/ v = Cleanup(w)
    BY <1>5, <1>27 DEF TimerSet, Live
  <2>3. CASE v = Cleanup(w)
    <3>1. x \in StartLeft \ {StartAutoOff}
      BY <2>1, Heads DEF StartLeft
    <3>2. v \in Seq(Calls) /\ Command(v) /\ v # None /\ Head(v) = ForceAllOff
      BY <1>0, <1>1, <2>3, <3>1, CleanupFits DEF Cleanup, x
    <3>3. ForceAllOff \notin QuietLeft /\ ForceAllOff \notin DarkLeft
      BY Classes, Sets
    <3>4. Silences(v) /\ Darkens(v) /\ ~Silenced(v) /\ ~Darkened(v)
      BY <3>2, <3>3, Views
    <3> QED BY <3>4
  <2>4. CASE v = After(w) /\ x = StartMod
    <3>1. y = StartLast /\ y # None /\ y \in Arming /\ y \notin QuietLeft /\ y \notin DarkLeft
      BY <2>4, OnTable, NotNone, Classes DEF y, LedOnLeft, StartLeft, Arming
    <3> QED BY <1>7, <2>4, <3>1
  <2>5. CASE v = After(w) /\ x = StartLast /\ (At(c, "timer_start") => Live')
    <3>1. At(c, "timer_start")
      BY <1>1, <2>5, Heads, AtFirst DEF x, w
    <3>2. y = None /\ r \in {None, ThenLedOn}
      BY <1>3, <2>5, OnTable, Follows DEF y, StartLeft
    <3> QED BY <1>8, <1>9, <1>12, <2>5, <3>1, <3>2
  <2> QED BY <2>1, <2>2, <2>3, <2>4, <2>5
<1> HIDE DEF Goal
<1>28. Goal
  BY <1>20, <1>21, <1>22, <1>23, <1>24, <1>25, <1>26, <1>27 DEF Step
<1> QED BY <1>11, <1>28

\* What is left of a command tells which command it was.
LEMMA AdvancesKind ==
  ASSUME NEW w, w # None, Command(w), NEW v, Advances(w, v)
  PROVE  /\ Stopper(v) => Stopper(w)
         /\ Starter(v) => Starter(w)
<1> DEFINE x == Head(w)
           y == Tail(x)
           r == Tail(w)
<1>1. x \in Lefts /\ Fits(x, r)
  BY Split
<1>2. r # None => \/ r = ThenLedOff /\ x \in BeepOffLeft
                  \/ r \in {ThenLedOn, ThenOff, ThenOffLedOn} /\ x \in BeepOnLeft \cup OffLeft
  BY <1>1 DEF Fits
<1>3. /\ LedOff \in LedOffLeft /\ LedOff \notin BeepOnLeft \cup LedOnLeft \cup OffLeft
      /\ LedOn \notin BeepOffLeft \cup LedOffLeft /\ ForceAllOff \notin BeepOffLeft \cup LedOffLeft
  BY Heads, Apart DEF BeepOnLeft, LedOnLeft, OffLeft, BeepOffLeft, LedOffLeft, StartLeft
<1>4. (Stopper(r) => Stopper(w)) /\ (Starter(r) => Starter(w))
  <2> HIDE DEF r
  <2>1. x = Head(w)
    OBVIOUS
  <2> HIDE DEF x
  <2> QED BY <1>2, <1>3, <2>1, ThenHeads DEF Stopper, Starter
<1>5. ASSUME v = After(w) PROVE (Stopper(v) => Stopper(w)) /\ (Starter(v) => Starter(w))
  <2>1. y = None => v = r
    BY <1>5, AfterHead
  <2>2. y # None => v # None /\ Head(v) = y
    BY <1>5, AfterHead
  <2>3. y # None => /\ y \in BeepOffLeft \cup LedOffLeft => x \in BeepOffLeft \cup LedOffLeft
                    /\ y \in BeepOnLeft \cup LedOnLeft \cup OffLeft
                         => x \in BeepOnLeft \cup LedOnLeft \cup OffLeft
    <3> HIDE DEF x
    <3>1. (BeepOffLeft \cup LedOffLeft) \cap (BeepOnLeft \cup LedOnLeft \cup OffLeft) = {}
      BY Heads, Apart DEF BeepOnLeft, LedOnLeft, OffLeft, StartLeft, BeepOffLeft, LedOffLeft
    <3> QED BY <1>1, <3>1, TailLeft DEF Lefts
  <2> HIDE DEF x, y, r
  <2>4. x = Head(w)
    BY DEF x
  <2> QED BY <1>4, <2>1, <2>2, <2>3, <2>4 DEF Stopper, Starter
<1>6. ASSUME v = Cleanup(w), Head(x) \in {"timer_mod", "timer_start"}
      PROVE  (Stopper(v) => Stopper(w)) /\ (Starter(v) => Starter(w))
  <2>1. x \in {StartMod, StartLast}
    BY <1>1, <1>6, Who
  <2>2. x \in StartLeft \ {StartAutoOff}
    BY <2>1, Heads DEF StartLeft
  <2>3. v # None /\ Head(v) = ForceAllOff
    BY <1>6, <2>2, CleanupFits DEF Cleanup
  <2> QED BY <1>3, <2>2, <2>3 DEF Stopper, Starter, BeepOnLeft
<1> QED BY <1>4, <1>5, <1>6 DEF Advances

\* The last command of a context is the one it is at.
LEMMA KeptPreserved == (Timer \notin Callers /\ Inv1 /\ Kept /\ [Next]_vars) => Kept'
<1> SUFFICES ASSUME Timer \notin Callers, Inv1, Kept, [Next]_vars PROVE Kept'
  OBVIOUS
<1>0. /\ Timer \in Tasks /\ (\A c \in Callers : c \in Tasks /\ c # Timer)
      /\ todo \in [Tasks -> Seq(Calls)] /\ \A c \in Callers : Command(todo[c])
  BY DEF Inv1, Left, Tasks
<1>a. doing \in [Callers -> {"FIND_ME", "STOP_FIND"}]
  BY DEF Inv1, Kinds
<1>1. ASSUME NEW c \in Callers, FindMe(c) PROVE Kept'
  <2>1. todo' = [todo EXCEPT ![c] = <<BeepOn, LedOn>>] /\ doing' = [doing EXCEPT ![c] = "FIND_ME"]
    BY <1>1 DEF FindMe, Begin, Continue
  <2>2. ~Stopper(<<BeepOn, LedOn>>)
    BY Heads, Apart DEF Stopper, BeepOffLeft, LedOffLeft
  <2> QED BY <1>0, <1>a, <2>1, <2>2 DEF Kept
<1>2. ASSUME NEW c \in Callers, StopFind(c) PROVE Kept'
  <2>1. todo' = [todo EXCEPT ![c] = <<BeepOff, LedOff>>] /\ doing' = [doing EXCEPT ![c] = "STOP_FIND"]
    BY <1>2 DEF StopFind, Begin, Continue
  <2>2. ~Starter(<<BeepOff, LedOff>>)
    BY Heads, Apart DEF Starter, BeepOnLeft, LedOnLeft, OffLeft, StartLeft
  <2> QED BY <1>0, <1>a, <2>1, <2>2 DEF Kept
<1>3. CASE Elapse
  BY <1>3 DEF Elapse, commands, Kept
<1>4. CASE AutoOff
  <2>1. doing' = doing /\ \A c \in Callers : todo'[c] = todo[c]
    BY <1>0, <1>4 DEF AutoOff, commands
  <2> QED BY <2>1 DEF Kept
<1>5. ASSUME NEW t \in Tasks, Step(t) PROVE Kept'
  <2>0. todo[t] # None /\ \E v : todo' = [todo EXCEPT ![t] = v] /\ Advances(todo[t], v)
    BY <1>5, StepAdvances DEF Inv1
  <2>1. PICK v : todo' = [todo EXCEPT ![t] = v] /\ Advances(todo[t], v)
    BY <2>0
  <2>2. doing' = doing
    BY <1>5 DEF Step, HalInit, PwmStart, PwmStop, LedSet, FlagSet, Test, TimerStop, TimerSet, commands
  <2>3. ASSUME NEW c \in Callers
        PROVE  /\ Stopper(todo'[c]) => Stopper(todo[c])
               /\ Starter(todo'[c]) => Starter(todo[c])
    <3>1. CASE c # t
      BY <1>0, <2>1, <3>1
    <3>2. CASE c = t
      <4>1. todo'[c] = v
        BY <1>0, <2>1, <3>2
      <4>2. Command(todo[c])
        BY <1>0
      <4> QED BY <2>0, <2>1, <3>2, <4>1, <4>2, AdvancesKind
    <3> QED BY <3>1, <3>2
  <2> QED BY <2>2, <2>3 DEF Kept
<1>6. CASE UNCHANGED vars
  BY <1>6 DEF vars, commands, Kept
<1> QED BY <1>1, <1>2, <1>3, <1>4, <1>5, <1>6 DEF Next

\* Only a FIND_ME turns anything on.
LEMMA OnlyStarters ==
  ASSUME Inv1, NEW t \in Tasks, Step(t), (sounding' /\ ~sounding) \/ (lit' /\ ~lit)
  PROVE  t \in Callers /\ Starter(todo[t])
<1> USE DEF flags, outputs
<1>0. Left /\ Kinds
  BY DEF Inv1
<1>1. At(t, "pwm_start") \/ At(t, "led_high")
  <2>1. CASE HalInit(t)
    BY <2>1 DEF HalInit
  <2>2. CASE PwmStart(t) \/ LedSet(t)
    BY <2>2 DEF PwmStart, LedSet
  <2>3. CASE PwmStop(t) \/ FlagSet(t) \/ Test(t) \/ TimerStop(t) \/ TimerSet(t)
    BY <1>0, <2>3 DEF PwmStop, FlagSet, Test, TimerStop, TimerSet, Kinds
  <2> QED BY <2>1, <2>2, <2>3 DEF Step
<1>2. todo[t] # None /\ Head(Head(todo[t])) \in {"pwm_start", "led_high"}
  BY <1>1, AtFirst
<1>3. CASE t = Timer
  <2>1. Head(todo[t]) \in OffLeft
    BY <1>0, <1>2, <1>3, Split DEF Left
  <2> QED BY <1>2, <2>1, Heads DEF OffLeft
<1>4. CASE t \in Callers
  <2>1. Head(todo[t]) \in Lefts
    BY <1>0, <1>2, <1>4, Split DEF Left
  <2>2. Head(todo[t]) \in {BeepStart, LedStart}
    BY <1>2, <2>1, Who
  <2> QED BY <1>2, <1>4, <2>2 DEF Starter, BeepOnLeft, LedOnLeft
<1> QED BY <1>3, <1>4 DEF Tasks

\* Who counts on silence or darkness is at a STOP_FIND.
LEMMA StopperOwns ==
  ASSUME NEW w, Silenced(w) \/ Darkened(w)
  PROVE  Stopper(w)
BY DEF Silenced, Darkened, Stopper, First, QuietLeft, DarkLeft, BeepOffLeft, LedOffLeft

\* All steps together.
LEMMA CoveredPreserved ==
  ASSUME Timer \notin Callers, Inv1, Kept, Covered, [Next]_vars, ~clash'
  PROVE  Covered'
<1>0. /\ Timer \in Tasks /\ (\A c \in Callers : c \in Tasks /\ c # Timer)
      /\ todo \in [Tasks -> Seq(Calls)] /\ \A c \in Callers : Command(todo[c])
  BY DEF Inv1, Left, Tasks
<1>a. doing \in [Callers -> {"FIND_ME", "STOP_FIND"}] /\ Agree /\ Alarm /\ \A c \in Callers : Own(c)
  BY DEF Inv1, Kinds, Covered
<1>1. ASSUME NEW c \in Callers, FindMe(c) \/ StopFind(c) PROVE Covered'
  <2>0. /\ todo[c] = None /\ UNCHANGED <<sounding, lit, timer>>
        /\ \E k \in {"FIND_ME", "STOP_FIND"} :
             /\ doing' = [doing EXCEPT ![c] = k]
             /\ \A d \in Callers \ {c} : todo[d] # None => doing[d] = k
        /\ \E w \in {<<BeepOn, LedOn>>, <<BeepOff, LedOff>>} : todo' = [todo EXCEPT ![c] = w]
    <3>1. CASE FindMe(c)
      BY <3>1 DEF FindMe, Begin, Continue, None, outputs
    <3>2. CASE StopFind(c)
      BY <3>2 DEF StopFind, Begin, Continue, None, outputs
    <3> QED BY <1>1, <3>1, <3>2
  <2>1. PICK k \in {"FIND_ME", "STOP_FIND"} :
             /\ doing' = [doing EXCEPT ![c] = k]
             /\ \A d \in Callers \ {c} : todo[d] # None => doing[d] = k
    BY <2>0
  <2>2. PICK w \in {<<BeepOn, LedOn>>, <<BeepOff, LedOff>>} : todo' = [todo EXCEPT ![c] = w]
    BY <2>0
  <2>3. w # None /\ Command(w) /\ Head(w) \in {BeepOn, BeepOff}
    <3>1. BeepOn \in Calls /\ BeepOff \in Calls
      BY Sets, LeftTypes
    <3>2. w = Cons(BeepOn, ThenLedOn) \/ w = Cons(BeepOff, ThenLedOff)
      BY Commands
    <3>3. w # None /\ Head(w) \in {BeepOn, BeepOff}
      BY <3>1, <3>2, ThenTypes, ConsFacts
    <3> QED BY <3>3, Commands
  <2>4. BeepOn \notin QuietLeft /\ BeepOff \notin QuietLeft /\ BeepOn \notin DarkLeft /\ BeepOff \notin DarkLeft
    BY Classes, Sets
  <2>5. ~Silenced(w) /\ ~Darkened(w)
    BY <2>3, <2>4, Views
  <2>6. todo'[c] = w /\ \A t \in Tasks \ {c} : todo'[t] = todo[t]
    BY <1>0, <2>2
  <2>7. Agree'
    <3>1. \A d \in Callers \ {c} : doing'[d] = doing[d] /\ todo'[d] = todo[d]
      BY <1>0, <1>a, <2>1, <2>6
    <3>2. doing'[c] = k
      BY <1>a, <2>1
    <3> QED BY <1>a, <2>1, <3>1, <3>2 DEF Agree
  <2>8. Alarm'
    <3>1. ~Hushes(todo[c]) /\ ~Shades(todo[c])
      BY <2>0, NoView DEF Hushes, Shades
    <3>2. /\ (\E t \in Tasks : Hushes(todo[t])) => \E t \in Tasks : Hushes(todo'[t])
          /\ (\E t \in Tasks : Shades(todo[t])) => \E t \in Tasks : Shades(todo'[t])
      BY <2>6, <3>1
    <3> QED BY <1>a, <2>0, <3>2 DEF Alarm, Live
  <2>9. \A d \in Callers : Own(d)'
    <3>1. Own(c)'
      BY <2>5, <2>6 DEF Own
    <3>2. \A d \in Callers \ {c} : Own(d)'
      BY <1>0, <1>a, <2>0, <2>6 DEF Own
    <3> QED BY <3>1, <3>2
  <2> QED BY <2>7, <2>8, <2>9 DEF Covered
<1>2. CASE Elapse
  <2>1. UNCHANGED <<sounding, lit, todo, doing>> /\ Live'
    BY <1>2 DEF Elapse, Live, outputs, commands
  <2> QED BY <2>1 DEF Covered, Agree, Alarm, Own
<1>3. CASE AutoOff
  <2>1. /\ todo'[Timer] = <<ForceAllOff>> /\ UNCHANGED <<sounding, lit, doing>>
        /\ \A c \in Callers : todo'[c] = todo[c]
    BY <1>0, <1>3 DEF AutoOff, outputs, commands
  <2>2. <<ForceAllOff>> # None /\ Head(<<ForceAllOff>>) = ForceAllOff
    BY DEF None
  <2>3. Hushes(todo'[Timer]) /\ Shades(todo'[Timer])
    BY <2>1, <2>2 DEF Hushes, Shades, Silences, Darkens, First
  <2>4. Alarm'
    BY <1>0, <2>3 DEF Alarm
  <2>5. Agree' /\ \A c \in Callers : Own(c)'
    BY <1>a, <2>1 DEF Agree, Own
  <2> QED BY <2>4, <2>5 DEF Covered
<1>4. ASSUME NEW t \in Tasks, Step(t) PROVE Covered'
  <2>0. todo[t] # None /\ \E v : todo' = [todo EXCEPT ![t] = v] /\ Advances(todo[t], v)
    BY <1>4, StepAdvances DEF Inv1
  <2>1. doing' = doing /\ \A d \in Tasks \ {t} : todo'[d] = todo[d]
    <3>1. doing' = doing
      BY <1>4 DEF Step, HalInit, PwmStart, PwmStop, LedSet, FlagSet, Test, TimerStop, TimerSet, commands
    <3> QED BY <1>0, <2>0, <3>1
  <2>2. Agree'
    BY <1>0, <1>a, <2>0, <2>1 DEF Agree
  <2>3. ASSUME NEW d \in Callers \ {t} PROVE Own(d)'
    <3>1. todo'[d] = todo[d] /\ Own(d) /\ sounding \in BOOLEAN /\ lit \in BOOLEAN
      BY <1>0, <1>a, <2>1 DEF Inv1, Kinds
    <3>2. CASE ~Silenced(todo[d]) /\ ~Darkened(todo[d])
      BY <3>1, <3>2 DEF Own
    <3>3. CASE Silenced(todo[d]) \/ Darkened(todo[d])
      <4>1. Stopper(todo[d]) /\ doing[d] = "STOP_FIND"
        BY <3>3, StopperOwns DEF Kept
      <4>2. ~(t \in Callers /\ Starter(todo[t]))
        BY <1>a, <2>0, <4>1 DEF Kept, Agree, Stopper
      <4>3. ~(sounding' /\ ~sounding) /\ ~(lit' /\ ~lit)
        BY <1>4, <4>2, OnlyStarters
      <4> QED BY <3>1, <4>3 DEF Own
    <3> QED BY <3>2, <3>3
  <2>4. CASE t = Timer
    <3>1. Alarm'
      BY <1>4, <1>a, <2>4, TimerCovers
    <3> QED BY <1>0, <2>2, <2>3, <2>4, <3>1 DEF Covered
  <2>5. CASE t \in Callers
    <3>1. Alarm' /\ Own(t)'
      BY <1>4, <1>a, <2>5, CallerCovers
    <3> QED BY <2>2, <2>3, <3>1 DEF Covered
  <2> QED BY <2>4, <2>5 DEF Tasks
<1>5. CASE UNCHANGED vars
  BY <1>5 DEF vars, outputs, commands, Covered, Agree, Alarm, Own, Live
<1> QED BY <1>1, <1>2, <1>3, <1>4, <1>5 DEF Next

\* A clash is never forgotten.
LEMMA ClashStays == clash /\ [Next]_vars => clash'
<1> SUFFICES ASSUME clash, [Next]_vars PROVE clash'
  OBVIOUS
<1>1. ASSUME NEW t \in Tasks, Step(t) PROVE clash'
  BY <1>1 DEF Step, HalInit, PwmStart, PwmStop, LedSet, FlagSet, Test, TimerStop, TimerSet, commands
<1> QED BY <1>1 DEF Next, FindMe, StopFind, Begin, Elapse, AutoOff, vars, commands

-----------------------------------------------------------------------------
(* The theorems.                                                           *)

\* The part of the invariant that needs no bound on the contexts.
LEMMA Invariant1 == Spec => []Inv1
<1>1. Init => Inv1
  BY BoundAssumption, InitInv
<1>2. Inv1 /\ [Next]_vars => Inv1'
  BY TimerAssumption, BoundAssumption, KindsPreserved, LeftPreserved, PassedPreserved,
     ReadyPreserved DEF Inv1
<1> QED BY <1>1, <1>2, PTL DEF Spec

\* HardwareHal: with any contexts that preempt each other between any two
\* accesses, every variable keeps its type, every call is one of the steps of
\* the code, and a driver that is set up has its timer.
THEOREM HalTypes == Spec => []TypeOK
<1>1. Inv1 => TypeOK
  <2> SUFFICES ASSUME Inv1 PROVE TypeOK
    OBVIOUS
  <2>1. ASSUME NEW t \in Tasks, NEW i \in DOMAIN todo[t]
        PROVE  todo[t][i] # <<>> /\ \A j \in DOMAIN todo[t][i] : todo[t][i][j] \in Steps
    <3>1. todo[t] \in Seq(Calls)
      BY DEF Inv1, Left
    <3>2. todo[t][i] \in Calls
      BY <3>1
    <3>3. todo[t][i] \in Seq(Steps) /\ todo[t][i] # <<>>
      BY <3>2 DEF Calls, None
    <3>4. \A j \in DOMAIN todo[t][i] : todo[t][i][j] \in Steps
      BY <3>3
    <3> QED BY <3>3, <3>4
  <2> QED BY <2>1 DEF Inv1, Kinds, TypeOK
<1> QED BY <1>1, Invariant1, PTL

\* HardwareHal: however many contexts run commands, wherever they and the
\* timer task preempt each other, and whatever fails: as long as no STOP_FIND
\* has overlapped a FIND_ME, once all are done, a buzzer or an LED that is on
\* has a running timer that will turn it off.
THEOREM AlarmEnds == Spec => []AutoOffArmed
<1>1. Init => Inv2
  <2> SUFFICES ASSUME Init PROVE Inv2
    OBVIOUS
  <2>1. \A c \in Callers : todo[c] = None
    BY DEF Init, Tasks, None
  <2> QED BY <2>1, NoView DEF Init, Inv2, Kept, Stopper, Starter, Covered, Agree, Alarm, Own
<1>2. Inv1 /\ Inv2 /\ [Next]_vars => Inv2'
  <2> SUFFICES ASSUME Inv1, Inv2, [Next]_vars PROVE Inv2'
    OBVIOUS
  <2>1. Kept'
    BY TimerAssumption, KeptPreserved DEF Inv2
  <2>2. ~clash' => Covered'
    BY TimerAssumption, CoveredPreserved, ClashStays DEF Inv2
  <2> QED BY <2>1, <2>2 DEF Inv2
<1>3. Spec => []Inv1
  BY Invariant1
<1>4. Inv2 => AutoOffArmed
  <2> SUFFICES ASSUME Inv2, Quiet, ~clash, sounding \/ lit PROVE Live
    BY DEF AutoOffArmed, Live
  <2>1. \A t \in Tasks : todo[t] = None
    BY DEF Quiet, None
  <2> QED BY <2>1, NoView DEF Inv2, Covered, Alarm, Hushes, Shades
<1> QED BY <1>1, <1>2, <1>3, <1>4, PTL DEF Spec

-----------------------------------------------------------------------------
(* The table of connections.                                               *)

\* The types that TLC's TableTypeOK bounds through the count are bounded by it.
TableTypes ==
  /\ conn_ids \in [Slots -> ConnIds \cup {0}]
  /\ active_conn_count \in Nat
  /\ links \subseteq ConnIds /\ refused \subseteq ConnIds /\ doubled \in BOOLEAN
  /\ walk \in 0 .. MAX_CONNECTIONS
  /\ told \in [ConnIds -> Nat]
  /\ stable \subseteq ConnIds

\* The table and the links.
Linked ==
  /\ \A i, j \in Used : conn_ids[i] = conn_ids[j] => i = j
  /\ Tracked = links \ refused /\ refused \subseteq links

\* Where the walk of a broadcast has been, each stable client was told once.
WalkDone ==
  /\ stable \subseteq Tracked
  /\ \A i \in Slots : conn_ids[i] \in stable =>
       told[conn_ids[i]] = IF i < walk THEN 1 ELSE 0

TableInv == TableTypes /\ CountIsExact /\ (~doubled => Linked /\ WalkDone)

USE IdAssumption, SlotAssumption

-----------------------------------------------------------------------------
(* The number of used slots.                                               *)

\* There are finitely many used slots, and no more than slots.
LEMMA UsedFinite == IsFiniteSet(Used) /\ Cardinality(Used) \in 0 .. MAX_CONNECTIONS
<1>1. IsFiniteSet(Slots) /\ Cardinality(Slots) = MAX_CONNECTIONS
  BY FS_Interval DEF Slots
<1>2. Used \in SUBSET Slots
  BY DEF Used
<1>3. IsFiniteSet(Used) /\ Cardinality(Used) <= MAX_CONNECTIONS
  BY <1>1, <1>2, FS_Subset
<1> QED BY <1>3, FS_CardinalityType

\* Filling an empty slot adds one, clearing a used one takes one away.
LEMMA UsedUpdate ==
  ASSUME TableTypes, NEW i \in Slots, NEW c \in ConnIds \cup {0},
         conn_ids' = [conn_ids EXCEPT ![i] = c]
  PROVE  /\ conn_ids[i] = 0 /\ c # 0 => Cardinality(Used') = Cardinality(Used) + 1
         /\ conn_ids[i] # 0 /\ c = 0 => Cardinality(Used') = Cardinality(Used) - 1
<1>1. IsFiniteSet(Used)
  BY UsedFinite
<1>2. ASSUME conn_ids[i] = 0, c # 0 PROVE Used' = Used \cup {i} /\ i \notin Used
  BY <1>2 DEF Used, TableTypes
<1>3. ASSUME conn_ids[i] # 0, c = 0 PROVE Used' = Used \ {i} /\ i \in Used
  BY <1>3 DEF Used, TableTypes
<1> QED BY <1>1, <1>2, <1>3, FS_AddElement, FS_RemoveElement

-----------------------------------------------------------------------------
(* The invariant.                                                          *)

\* The first state satisfies it: the table is empty.
THEOREM TableInitially == TableInit => TableInv
<1> SUFFICES ASSUME TableInit PROVE TableInv
  OBVIOUS
<1>1. Used = {} /\ Tracked = {}
  BY DEF TableInit, Used, Tracked
<1>2. TableTypes
  <2>1. /\ conn_ids \in [Slots -> ConnIds \cup {0}] /\ told \in [ConnIds -> Nat]
        /\ active_conn_count \in Nat /\ walk \in 0 .. MAX_CONNECTIONS
    BY DEF TableInit, Idle
  <2>2. links \subseteq ConnIds /\ refused \subseteq ConnIds /\ stable \subseteq ConnIds
    BY DEF TableInit
  <2>3. doubled \in BOOLEAN
    BY DEF TableInit
  <2> QED BY <2>1, <2>2, <2>3 DEF TableTypes
<1>3. CountIsExact
  BY <1>1, FS_EmptySet DEF TableInit, CountIsExact
<1>4. Linked /\ WalkDone
  BY <1>1 DEF TableInit, Linked, WalkDone
<1> QED BY <1>2, <1>3, <1>4 DEF TableInv

\* A client takes the first empty slot.
LEMMA ConnectedStep ==
  ASSUME TableInv, NEW c \in ConnIds, Connected(c)
  PROVE  TableInv'
<1> PICK i \in Slots : /\ conn_ids[i] = 0
                       /\ conn_ids' = [conn_ids EXCEPT ![i] = c]
  BY DEF Connected
<1> USE DEF TableInv
<1>1. TableTypes'
  BY DEF TableTypes, Connected, table, cast
<1>2. CountIsExact'
  BY UsedUpdate DEF CountIsExact, Connected
<1>3. Used' = Used \cup {i} /\ i \notin Used
  BY DEF Used, TableTypes
<1>4. Tracked' = Tracked \cup {c}
  <2>1. \A j \in Used : conn_ids'[j] = conn_ids[j]
    BY <1>3 DEF TableTypes, Used
  <2>2. conn_ids'[i] = c
    BY DEF TableTypes
  <2> QED BY <1>3, <2>1, <2>2 DEF Tracked
<1>5. ASSUME ~doubled' PROVE c \notin Tracked /\ ~doubled /\ Linked /\ WalkDone
  BY <1>5 DEF Connected
<1>6. ASSUME ~doubled' PROVE Linked'
  <2>1. ASSUME NEW j \in Used', NEW k \in Used', conn_ids'[j] = conn_ids'[k] PROVE j = k
    BY <1>3, <1>5, <1>6, <2>1 DEF Linked, Tracked, TableTypes, Used
  <2>2. Tracked' = (links \ refused)' /\ (refused \subseteq links)'
    BY <1>4, <1>5, <1>6 DEF Linked, Connected
  <2> QED BY <2>1, <2>2 DEF Linked
<1>7. ASSUME ~doubled' PROVE WalkDone'
  <2>1. c \notin stable /\ stable' = stable /\ told' = told /\ walk' = walk
    BY <1>5, <1>7 DEF WalkDone, Connected, cast
  <2> QED BY <1>4, <1>5, <1>7, <2>1 DEF WalkDone, TableTypes
<1> QED BY <1>1, <1>2, <1>6, <1>7

\* A client of the table leaves.
LEMMA DisconnectedStep ==
  ASSUME TableInv, NEW c \in ConnIds, Disconnected(c)
  PROVE  TableInv'
<1> PICK i \in Slots : /\ conn_ids[i] = c
                       /\ conn_ids' = [conn_ids EXCEPT ![i] = 0]
  BY DEF Disconnected
<1> USE DEF TableInv
<1>0. c # 0 /\ i \in Used /\ c \in Tracked
  BY DEF Used, Tracked
<1>1. Cardinality(Used') = Cardinality(Used) - 1
  BY <1>0, UsedUpdate
<1>2. Cardinality(Used') \in Nat
  <2>1. Used' \in SUBSET Slots
    BY DEF Used, Slots
  <2>2. IsFiniteSet(Slots)
    BY FS_Interval DEF Slots
  <2> QED BY <2>1, <2>2, FS_Subset, FS_CardinalityType
<1>3. active_conn_count' = active_conn_count - 1 /\ active_conn_count - 1 \in Nat
  BY <1>1, <1>2 DEF Disconnected, CountIsExact, TableTypes
<1>4. TableTypes'
  BY <1>3 DEF TableTypes, Disconnected
<1>5. CountIsExact'
  BY <1>1, <1>3 DEF CountIsExact
<1>6. Used' = Used \ {i} /\ \A j \in Used' : conn_ids'[j] = conn_ids[j]
  BY <1>0 DEF Used, TableTypes
<1>a. doubled' = doubled
  BY DEF Disconnected
<1>7. ASSUME ~doubled PROVE Tracked' = Tracked \ {c}
  <2>1. \A j \in Used : conn_ids[j] = c <=> j = i
    BY <1>0, <1>7 DEF Linked
  <2> QED BY <1>6, <2>1 DEF Tracked
<1>8. ASSUME ~doubled PROVE c \notin refused
  BY <1>0, <1>8 DEF Linked
<1>9. ASSUME ~doubled PROVE Linked'
  <2>1. ASSUME NEW j \in Used', NEW k \in Used', conn_ids'[j] = conn_ids'[k] PROVE j = k
    BY <1>6, <1>9, <2>1 DEF Linked
  <2>2. Tracked' = (links \ refused)' /\ (refused \subseteq links)'
    BY <1>7, <1>8, <1>9 DEF Linked, Disconnected
  <2> QED BY <2>1, <2>2 DEF Linked
<1>10. ASSUME ~doubled PROVE WalkDone'
  <2>1. stable' = stable \ {c} /\ told' = told /\ walk' = walk
    BY DEF Disconnected
  <2>2. 0 \notin stable
    BY DEF TableTypes
  <2> QED BY <1>7, <1>10, <2>1, <2>2 DEF WalkDone, TableTypes
<1> QED BY <1>4, <1>5, <1>a, <1>9, <1>10

\* One slot of a broadcast.
LEMMA NotifySlotStep ==
  ASSUME TableInv, NotifySlot
  PROVE  TableInv'
<1> USE DEF TableInv
<1>0. walk \in Slots /\ walk' = walk + 1 /\ conn_ids' = conn_ids /\ stable' = stable
  BY DEF NotifySlot, TableTypes, Slots, Idle, table
<1>1. TableTypes'
  <2>1. told' \in [ConnIds -> Nat]
    <3>1. CASE conn_ids[walk] = 0
      BY <3>1 DEF TableTypes, NotifySlot
    <3>2. CASE conn_ids[walk] # 0
      <4>1. conn_ids[walk] \in ConnIds
        BY <1>0, <3>2 DEF TableTypes
      <4>2. told[conn_ids[walk]] \in Nat /\ told[conn_ids[walk]] + 1 \in Nat
        <5>1. told \in [ConnIds -> Nat]
          BY DEF TableTypes
        <5>2. told[conn_ids[walk]] \in Nat
          BY <4>1, <5>1
        <5>3. \A n \in Nat : n + 1 \in Nat
          OBVIOUS
        <5> QED BY <5>2, <5>3
      <4>3. told' = [told EXCEPT ![conn_ids[walk]] = told[conn_ids[walk]] + 1]
        BY <3>2 DEF NotifySlot
      <4> QED BY <4>1, <4>2, <4>3 DEF TableTypes
    <3> QED BY <3>1, <3>2
  <2>2. walk' \in 0 .. MAX_CONNECTIONS
    BY <1>0 DEF Slots
  <2> QED BY <2>1, <2>2 DEF TableTypes, NotifySlot, table
<1>2. Used' = Used /\ Tracked' = Tracked
  BY <1>0 DEF Used, Tracked
<1>3. CountIsExact' /\ doubled' = doubled /\ (Linked => Linked')
  BY <1>0, <1>2 DEF CountIsExact, Linked, NotifySlot, table
<1>4. ASSUME ~doubled PROVE WalkDone'
  <2>0. Linked /\ WalkDone
    BY <1>4
  <2> SUFFICES ASSUME NEW i \in Slots, conn_ids[i] \in stable
               PROVE  told'[conn_ids[i]] = IF i < walk + 1 THEN 1 ELSE 0
    BY <1>0, <1>2, <2>0 DEF WalkDone
  <2>1. conn_ids[i] \in ConnIds /\ conn_ids[i] # 0 /\ i \in Used
    BY DEF TableTypes, Used
  <2>2. CASE i = walk
    BY <1>0, <2>0, <2>1, <2>2 DEF WalkDone, NotifySlot, TableTypes, Slots
  <2>3. CASE i # walk
    <3>1. conn_ids[walk] # conn_ids[i]
      BY <1>0, <2>0, <2>1, <2>3 DEF Linked, Used
    <3>2. told'[conn_ids[i]] = told[conn_ids[i]]
      BY <1>0, <2>1, <3>1 DEF NotifySlot, TableTypes
    <3> QED BY <1>0, <2>0, <2>3, <3>2 DEF WalkDone, Slots
  <2> QED BY <2>2, <2>3
<1> QED BY <1>1, <1>3, <1>4

\* A broadcast begins: nobody was told yet.
LEMMA BroadcastStep ==
  ASSUME TableInv, BroadcastNotifyAll
  PROVE  TableInv'
<1> USE DEF TableInv
<1>1. Used' = Used /\ Tracked' = Tracked /\ conn_ids' = conn_ids
  BY DEF BroadcastNotifyAll, table, Used, Tracked
<1>2. Tracked \subseteq ConnIds
  BY DEF Tracked, Used, TableTypes
<1>3. TableTypes' /\ CountIsExact' /\ doubled' = doubled /\ (Linked => Linked')
  BY <1>1, <1>2 DEF TableTypes, CountIsExact, Linked, BroadcastNotifyAll, table
<1>4. WalkDone'
  <2>1. stable' = Tracked /\ walk' = 0 /\ told' = [c \in ConnIds |-> 0]
    BY DEF BroadcastNotifyAll
  <2>2. ASSUME NEW i \in Slots, conn_ids[i] \in Tracked
        PROVE  told'[conn_ids[i]] = IF i < 0 THEN 1 ELSE 0
    <3>1. conn_ids[i] \in ConnIds
      BY <1>2, <2>2
    <3> QED BY <2>1, <3>1 DEF Slots
  <2> QED BY <1>1, <2>1, <2>2 DEF WalkDone
<1> QED BY <1>3, <1>4

\* A link of the table is reported again, and links that are not in the table
\* come and go: nothing changes but who is up.
LEMMA UntrackedStep ==
  ASSUME TableInv, NEW c \in ConnIds,
         ConnectedAgain(c) \/ ConnectedFull(c) \/ DisconnectedUntracked(c)
  PROVE  TableInv'
<1> USE DEF TableInv
<1>1. /\ Used' = Used /\ Tracked' = Tracked
      /\ UNCHANGED <<conn_ids, active_conn_count, doubled, walk, told, stable>>
  BY DEF ConnectedAgain, ConnectedFull, DisconnectedUntracked, cast, Used, Tracked
<1>2. TableTypes' /\ CountIsExact' /\ (WalkDone => WalkDone')
  BY <1>1 DEF TableTypes, CountIsExact, WalkDone, ConnectedAgain, ConnectedFull,
     DisconnectedUntracked
<1>3. ASSUME Linked PROVE Linked'
  <2>1. CASE ConnectedAgain(c)
    <3>1. c \in Tracked
      BY <2>1 DEF ConnectedAgain, Tracked, Used, TableTypes
    <3> QED BY <1>1, <1>3, <2>1, <3>1 DEF Linked, ConnectedAgain
  <2>2. CASE ConnectedFull(c)
    <3>1. c \notin Tracked
      BY <2>2 DEF ConnectedFull, Tracked, Used
    <3> QED BY <1>1, <1>3, <2>2, <3>1 DEF Linked, ConnectedFull
  <2>3. CASE DisconnectedUntracked(c)
    BY <1>1, <1>3, <2>3 DEF Linked, DisconnectedUntracked
  <2> QED BY <2>1, <2>2, <2>3
<1> QED BY <1>1, <1>2, <1>3

\* Every step preserves the invariant.
THEOREM TableStepwise == TableInv /\ [TableNext]_tableVars => TableInv'
<1> SUFFICES ASSUME TableInv, [TableNext]_tableVars PROVE TableInv'
  OBVIOUS
<1>1. CASE UNCHANGED tableVars
  BY <1>1 DEF tableVars, table, cast, TableInv, TableTypes, CountIsExact, Linked, WalkDone,
     Used, Tracked
<1> QED BY <1>1, ConnectedStep, DisconnectedStep, UntrackedStep, BroadcastStep, NotifySlotStep
        DEF TableNext

\* The strengthened invariant holds throughout.
THEOREM TableInvariance == TableSpec => []TableInv
BY TableInitially, TableStepwise, PTL DEF TableSpec

\* Every variable keeps its type: the count never exceeds the slots.
THEOREM TableTypeCorrect == TableSpec => []TableTypeOK
<1>1. TableInv => TableTypeOK
  BY UsedFinite DEF TableInv, TableTypes, CountIsExact, TableTypeOK
<1> QED BY <1>1, TableInvariance, PTL

\* The count is the number of slots in use, whatever is reported and however
\* often.
THEOREM CountCorrect == TableSpec => []CountIsExact
BY TableInvariance, PTL DEF TableInv

\* Unless a link was overlooked, the table has each link that found room, once.
THEOREM TableCorrect == TableSpec => []TableIsLinks
<1>1. TableInv => TableIsLinks
  BY DEF TableInv, Linked, TableIsLinks
<1> QED BY <1>1, TableInvariance, PTL

\* Unless a link was overlooked, a broadcast tells every client that stays
\* exactly once.
THEOREM BroadcastCorrect == TableSpec => []BroadcastReachesAll
<1>1. TableInv => BroadcastReachesAll
  <2> SUFFICES ASSUME TableInv, walk = Idle, ~doubled, NEW c \in stable PROVE told[c] = 1
    BY DEF BroadcastReachesAll
  <2> PICK i \in Used : conn_ids[i] = c
    BY DEF TableInv, WalkDone, Tracked
  <2> QED BY DEF TableInv, WalkDone, Used, Slots, Idle
<1> QED BY <1>1, TableInvariance, PTL

=============================================================================
