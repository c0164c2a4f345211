--------------------------- MODULE AirMouseProofs ---------------------------
(***************************************************************************)
(* Proofs about AirMouse, for every set of chords, every length of the     *)
(* queue and every number of events.                                       *)
(***************************************************************************)
EXTENDS AirMouse, SequenceTheorems, TLAPS

Messages == {"keys", "hold"} \X (Chords \union {""})
MouseWords == LinkEvents \union {"RESTART"}
Calls == {"light", "remove", "flag", "announce"}

\* The types of TypeOK, what waits being sequences and what is held a chord of the keypad.
KeyTypes ==
  /\ held \in Chords \union {""} /\ hold \in (Chords \intersect Combos) \union {""}
  /\ queue \in Seq(Messages) /\ Len(queue) <= QueueLen
  /\ down \subseteq {"keyboard", "left_key", "slp_pause"} /\ mic \in BOOLEAN /\ click \in BOOLEAN
  /\ missed \in BOOLEAN /\ task \in {"ready", "unpair"} \union Calls
Radios == [st : {"off", "on", "ranging", "paused", "asleep"}, pend : Seq(Reports)]
RadioTypes ==
  /\ slp \in Radios
  /\ restart \in BOOLEAN /\ rcuSleep \in BOOLEAN /\ dozing \in BOOLEAN /\ awake \in BOOLEAN
  /\ pairStatus \in BOOLEAN /\ switched \in BOOLEAN /\ late \in BOOLEAN /\ sle \in Places
SearchTypes ==
  /\ led \in {"IDLE", "KEY", "PAIRING", "UNPAIRING"} /\ unpaired \in BOOLEAN
  /\ pairTimer \in BOOLEAN /\ byKey \in BOOLEAN /\ air \in BOOLEAN
  /\ crossed \in BOOLEAN
LinkTypes ==
  /\ dEv \in Seq(Words) /\ mEv \in Seq(MouseWords) /\ host \subseteq Kinds
  /\ seek \in {"idle", "seeking", "stopping", "connecting"}
  /\ linked \in BOOLEAN /\ pairing \in BOOLEAN /\ paired \in BOOLEAN
  /\ pairedD \in BOOLEAN /\ lost \in BOOLEAN
Types == KeyTypes /\ RadioTypes /\ SearchTypes /\ LinkTypes

\* After UNPAIR no end of a link starts the announcement again.
Silent ==
  /\ unpaired /\ ~crossed => byKey /\ ~air /\ sle # "announce"
  /\ task \in Calls => ~unpaired

Has(q, e) == \E i \in 1 .. Len(q) : q[i] = e

\* The light for pairing: the chord's has its timer; with the first one the mouse is on
\* the air, linked, or about to be told that its link is gone, which puts it on the air.
Light == led = "PAIRING" /\ ~crossed
Searching ==
  /\ Light => pairTimer \/ ~byKey
  /\ Light => air \/ linked \/ pairTimer \/ Has(mEv, "disc") \/ sle = "announce"

\* While pair_start_func runs the timer runs, and while pair_stop_func runs the light is off.
Starting ==
  /\ Light /\ task \in Calls => pairTimer
  /\ task = "light" /\ ~crossed => pairTimer
StoppingOff == sle \in Stopping /\ ~crossed => led # "PAIRING" /\ task # "light"

\* The microphone is on for the voice key, the click for the left key.
Listens == (mic => "slp_pause" \in down) /\ (click => "left_key" \in down)

\* Of the messages in q the last one of the keypad, if there is one, says h.
NoKeys(q) == \A i \in 1 .. Len(q) : q[i][1] = "hold"
Told(q, h) ==
  \A i \in 1 .. Len(q) :
    (q[i][1] = "keys" /\ \A j \in i + 1 .. Len(q) : q[j][1] = "hold") => q[i][2] = h

\* What the task was, or will last be, told of the keypad is what it shows.
Seen == ~missed => Told(queue, held) /\ (held = "" /\ NoKeys(queue) => down = {})

\* When the reports in q are served, a host that sees the keys h sees none:
\* a release u follows every key of K.
Clears(h, q, K, u) ==
  /\ h = {} \/ Has(q, u)
  /\ \A i \in 1 .. Len(q) : q[i] \in K => \E j \in i + 1 .. Len(q) : q[j] = u
Ends == ~lost => Clears(host, dEv, Kinds, "UP") \/ "keyboard" \in down

Blinks == Searching /\ Starting /\ StoppingOff

IInv == Types /\ Silent /\ Blinks /\ Listens /\ Seen /\ Ends

-----------------------------------------------------------------------------
(* Sequences: what is said of one when an element is added at the end, the  *)
(* head served, or a suffix cut.                                           *)

LEMMA Added ==
  ASSUME NEW S, NEW q \in Seq(S), NEW e \in S
  PROVE  /\ Append(q, e) \in Seq(S) /\ Len(q) \in Nat /\ Len(Append(q, e)) = Len(q) + 1
         /\ \A i \in 1 .. Len(q) : Append(q, e)[i] = q[i]
         /\ Append(q, e)[Len(q) + 1] = e
  BY AppendProperties, LenProperties

LEMMA Empty == /\ Len(<<>>) = 0 /\ 1 .. Len(<<>>) = {}
               /\ \A S : <<>> \in Seq(S)
<1>1. Len(<<>>) = 0 /\ \A S : <<>> \in Seq(S)
  BY EmptySeq
<1> QED BY <1>1

LEMMA Served ==
  ASSUME NEW S, NEW q \in Seq(S), q # <<>>
  PROVE  /\ Tail(q) \in Seq(S) /\ Len(q) \in Nat \ {0} /\ Len(Tail(q)) = Len(q) - 1
         /\ Head(q) = q[1] /\ Head(q) \in S
         /\ \A i \in 1 .. Len(q) - 1 : Tail(q)[i] = q[i + 1]
<1>1. Len(q) \in Nat \ {0}
  BY EmptySeq
<1> QED BY <1>1, HeadTailProperties, ElementOfSeq

LEMMA Cut ==
  ASSUME NEW S, NEW q \in Seq(S), NEW n \in 1 .. Len(q) + 1
  PROVE  /\ SubSeq(q, 1, n - 1) \in Seq(S) /\ Len(q) \in Nat
         /\ Len(SubSeq(q, 1, n - 1)) = n - 1
         /\ \A i \in 1 .. n - 1 : SubSeq(q, 1, n - 1)[i] = q[i]
<1>1. Len(q) \in Nat /\ n \in Nat /\ n - 1 <= Len(q) /\ n - 1 \in Int
  BY LenProperties
<1>2. \A i \in 1 .. n - 1 : q[i] \in S
  BY <1>1, ElementOfSeq
<1>3. /\ SubSeq(q, 1, n - 1) \in Seq(S)
      /\ Len(SubSeq(q, 1, n - 1)) = IF 1 <= n - 1 THEN (n - 1) - 1 + 1 ELSE 0
      /\ \A i \in 1 .. (n - 1) - 1 + 1 : SubSeq(q, 1, n - 1)[i] = q[1 + i - 1]
  BY <1>1, <1>2, SubSeqProperties
<1> QED BY <1>1, <1>3

\* A release at the end clears every key; another report, not a key, clears no less.
LEMMA ClearsAppend ==
  ASSUME NEW S, NEW q \in Seq(S), NEW e \in S, NEW K, NEW u, u \notin K, NEW h
  PROVE  /\ e = u => Clears(h, Append(q, e), K, u)
         /\ e \notin K /\ Clears(h, q, K, u) => Clears(h, Append(q, e), K, u)
<1> DEFINE a == Append(q, e)
<1>1. /\ Len(q) \in Nat /\ Len(a) = Len(q) + 1 /\ a[Len(q) + 1] = e
      /\ \A i \in 1 .. Len(q) : a[i] = q[i]
  BY Added
<1> HIDE DEF a
<1>2. ASSUME e = u PROVE Clears(h, a, K, u)
  <2>1. Len(q) + 1 \in 1 .. Len(a)
    BY <1>1
  <2>2. ASSUME NEW i \in 1 .. Len(a), a[i] \in K PROVE Len(q) + 1 \in i + 1 .. Len(a)
    BY <1>1, <1>2, <2>2
  <2> QED BY <1>1, <1>2, <2>1, <2>2 DEF Clears, Has
<1>3. ASSUME e \notin K, Clears(h, q, K, u) PROVE Clears(h, a, K, u)
  <2>1. h = {} \/ Has(a, u)
    BY <1>1, <1>3 DEF Clears, Has
  <2>2. ASSUME NEW i \in 1 .. Len(a), a[i] \in K PROVE \E j \in i + 1 .. Len(a) : a[j] = u
    <3>1. i \in 1 .. Len(q) /\ q[i] \in K
      BY <1>1, <1>3, <2>2
    <3>2. PICK j \in i + 1 .. Len(q) : q[j] = u
      BY <1>3, <3>1 DEF Clears
    <3> QED BY <1>1, <3>1, <3>2
  <2> QED BY <2>1, <2>2 DEF Clears
<1> QED BY <1>2, <1>3 DEF a

\* Serving the head: a release leaves the host without keys, a key is one more that is
\* cleared later, and any other report changes nothing.
LEMMA ClearsTail ==
  ASSUME NEW S, NEW q \in Seq(S), q # <<>>, NEW K, NEW u, u \notin K, NEW h,
         Clears(h, q, K, u)
  PROVE  /\ Head(q) = u => Clears({}, Tail(q), K, u)
         /\ Head(q) \in K => Clears(h \union {Head(q)}, Tail(q), K, u)
         /\ Head(q) # u => Clears(h, Tail(q), K, u)
<1> DEFINE t == Tail(q) b == Head(q)
<1>1. /\ Len(q) \in Nat \ {0} /\ Len(t) = Len(q) - 1 /\ b = q[1]
      /\ \A i \in 1 .. Len(q) - 1 : t[i] = q[i + 1]
  BY Served
<1> HIDE DEF t, b
<1>2. ASSUME NEW i \in 1 .. Len(q), NEW j \in i + 1 .. Len(q)
      PROVE  /\ j - 1 \in 1 .. Len(t) /\ j - 1 \in (i - 1) + 1 .. Len(t)
             /\ t[j - 1] = q[j]
  BY <1>1
<1>3. ASSUME NEW i \in 1 .. Len(t), t[i] \in K PROVE \E j \in i + 1 .. Len(t) : t[j] = u
  <2>1. i + 1 \in 1 .. Len(q) /\ q[i + 1] \in K
    BY <1>1, <1>3
  <2>2. PICK j \in (i + 1) + 1 .. Len(q) : q[j] = u
    BY <2>1 DEF Clears
  <2>3. j - 1 \in i + 1 .. Len(t) /\ t[j - 1] = u
    BY <1>1, <2>2
  <2> QED BY <2>3
<1>4. b = u => Clears({}, t, K, u)
  BY <1>3 DEF Clears
<1>5. ASSUME b \in K PROVE Clears(h \union {b}, t, K, u)
  <2>1. PICK j \in 1 + 1 .. Len(q) : q[j] = u
    BY <1>1, <1>5 DEF Clears
  <2>2. j - 1 \in 1 .. Len(t) /\ t[j - 1] = u
    BY <1>1, <2>1
  <2> QED BY <1>3, <2>2 DEF Clears, Has
<1>6. ASSUME b # u PROVE Clears(h, t, K, u)
  <2>1. CASE h = {}
    BY <1>3, <2>1 DEF Clears
  <2>2. CASE h # {}
    <3>1. PICK j \in 1 .. Len(q) : q[j] = u
      BY <2>2 DEF Clears, Has
    <3>2. j - 1 \in 1 .. Len(t) /\ t[j - 1] = u
      BY <1>1, <1>6, <3>1
    <3> QED BY <1>3, <3>2 DEF Clears, Has
  <2> QED BY <2>1, <2>2
<1> QED BY <1>4, <1>5, <1>6 DEF t, b

\* A suffix without a release may be cut.
LEMMA ClearsCut ==
  ASSUME NEW S, NEW q \in Seq(S), NEW n \in 1 .. Len(q) + 1, NEW K, NEW u, NEW h,
         \A i \in n .. Len(q) : q[i] # u, Clears(h, q, K, u)
  PROVE  Clears(h, SubSeq(q, 1, n - 1), K, u)
<1> DEFINE s == SubSeq(q, 1, n - 1)
<1>1. Len(q) \in Nat /\ Len(s) = n - 1 /\ \A i \in 1 .. n - 1 : s[i] = q[i]
  BY Cut
<1> HIDE DEF s
<1>2. ASSUME NEW j \in 1 .. Len(q), q[j] = u PROVE j \in 1 .. Len(s) /\ s[j] = u
  BY <1>1, <1>2
<1>3. h = {} \/ Has(s, u)
  BY <1>2 DEF Clears, Has
<1>4. ASSUME NEW i \in 1 .. Len(s), s[i] \in K PROVE \E j \in i + 1 .. Len(s) : s[j] = u
  <2>1. i \in 1 .. Len(q) /\ q[i] \in K
    BY <1>1, <1>4
  <2>2. PICK j \in i + 1 .. Len(q) : q[j] = u
    BY <2>1 DEF Clears
  <2>3. j \in 1 .. Len(q)
    BY <1>1, <2>2
  <2> QED BY <1>1, <1>2, <2>2, <2>3
<1> QED BY <1>3, <1>4 DEF Clears, s

LEMMA HasAppend ==
  ASSUME NEW S, NEW q \in Seq(S), NEW e \in S, NEW x
  PROVE  Has(Append(q, e), x) <=> (Has(q, x) \/ e = x)
<1> DEFINE a == Append(q, e)
<1>1. /\ Len(q) \in Nat /\ Len(a) = Len(q) + 1 /\ a[Len(q) + 1] = e
      /\ \A i \in 1 .. Len(q) : a[i] = q[i]
  BY Added
<1> HIDE DEF a
<1>2. Has(a, x) <=> (Has(q, x) \/ e = x)
  BY <1>1 DEF Has
<1> QED BY <1>2 DEF a

LEMMA HasTail ==
  ASSUME NEW S, NEW q \in Seq(S), q # <<>>, NEW x
  PROVE  Has(q, x) => (Head(q) = x \/ Has(Tail(q), x))
<1> DEFINE t == Tail(q)
<1>1. /\ Len(q) \in Nat \ {0} /\ Len(t) = Len(q) - 1 /\ Head(q) = q[1]
      /\ \A i \in 1 .. Len(q) - 1 : t[i] = q[i + 1]
  BY Served
<1> HIDE DEF t
<1>2. ASSUME NEW j \in 1 .. Len(q), q[j] = x, q[1] # x PROVE Has(t, x)
  <2>1. j - 1 \in 1 .. Len(t) /\ t[j - 1] = x
    BY <1>1, <1>2
  <2> QED BY <2>1 DEF Has
<1> QED BY <1>1, <1>2 DEF Has, t

\* A message of the keypad added at the end says what the keypad shows.
LEMMA ToldAppend ==
  ASSUME NEW q \in Seq(Messages), NEW e \in Messages, NEW h
  PROVE  /\ e[1] = "keys" => Told(Append(q, e), e[2]) /\ ~NoKeys(Append(q, e))
         /\ e[1] = "hold" /\ Told(q, h) => Told(Append(q, e), h)
         /\ e[1] = "hold" /\ NoKeys(Append(q, e)) => NoKeys(q)
<1> DEFINE a == Append(q, e)
<1>1. /\ Len(q) \in Nat /\ Len(a) = Len(q) + 1 /\ a[Len(q) + 1] = e
      /\ \A i \in 1 .. Len(q) : a[i] = q[i]
  BY Added
<1> HIDE DEF a
<1>2. Len(a) \in 1 .. Len(a) /\ a[Len(a)] = e
  BY <1>1
<1>3. ASSUME NEW i \in 1 .. Len(a) PROVE (i \in 1 .. Len(q) /\ Len(a) \in i + 1 .. Len(a)) \/ i = Len(a)
  BY <1>1
<1>4. ASSUME e[1] = "keys" PROVE Told(a, e[2]) /\ ~NoKeys(a)
  <2>1. ~NoKeys(a)
    BY <1>2, <1>4 DEF NoKeys
  <2>2. ASSUME NEW i \in 1 .. Len(a), \A j \in i + 1 .. Len(a) : a[j][1] = "hold"
        PROVE  a[i][2] = e[2]
    <3>1. Len(a) \notin i + 1 .. Len(a)
      BY <1>2, <1>4, <2>2
    <3> QED BY <1>2, <1>3, <3>1
  <2> QED BY <2>1, <2>2 DEF Told
<1>5. ASSUME e[1] = "hold", Told(q, h) PROVE Told(a, h)
  <2>1. SUFFICES ASSUME NEW i \in 1 .. Len(a), a[i][1] = "keys",
                        \A j \in i + 1 .. Len(a) : a[j][1] = "hold"
                 PROVE  a[i][2] = h
    BY DEF Told
  <2>2. i \in 1 .. Len(q)
    BY <1>2, <1>3, <1>5, <2>1
  <2>3. a[i] = q[i]
    BY <1>1, <2>2
  <2>4. ASSUME NEW j \in i + 1 .. Len(q) PROVE q[j][1] = "hold"
    <3>1. j \in i + 1 .. Len(a) /\ j \in 1 .. Len(q)
      BY <1>1, <2>2
    <3> QED BY <1>1, <2>1, <3>1
  <2> QED BY <1>5, <2>1, <2>2, <2>3, <2>4 DEF Told
<1>6. NoKeys(a) => NoKeys(q)
  <2>1. ASSUME NEW i \in 1 .. Len(q) PROVE i \in 1 .. Len(a) /\ a[i] = q[i]
    BY <1>1
  <2> QED BY <2>1 DEF NoKeys
<1> QED BY <1>4, <1>5, <1>6 DEF a

\* Serving the head: if nothing of the keypad waits behind it, it says what the keypad shows.
LEMMA ToldTail ==
  ASSUME NEW q \in Seq(Messages), q # <<>>, NEW h, Told(q, h)
  PROVE  /\ Told(Tail(q), h)
         /\ Head(q)[1] = "hold" /\ NoKeys(Tail(q)) => NoKeys(q)
         /\ Head(q)[1] = "keys" /\ NoKeys(Tail(q)) => Head(q)[2] = h
<1> DEFINE t == Tail(q) b == Head(q)
<1>1. /\ Len(q) \in Nat \ {0} /\ Len(t) = Len(q) - 1 /\ b = q[1]
      /\ \A i \in 1 .. Len(q) - 1 : t[i] = q[i + 1]
  BY Served
<1> HIDE DEF t, b
<1>2. ASSUME NEW i \in 1 .. Len(t) PROVE i + 1 \in 1 .. Len(q) /\ t[i] = q[i + 1]
  BY <1>1
<1>3. ASSUME NEW j \in 1 .. Len(q), j # 1 PROVE j - 1 \in 1 .. Len(t) /\ t[j - 1] = q[j]
  BY <1>1, <1>3
<1>4. ASSUME NEW i \in 1 .. Len(t), NEW j \in (i + 1) + 1 .. Len(q)
      PROVE  j - 1 \in i + 1 .. Len(t) /\ t[j - 1] = q[j]
  BY <1>1
<1>5. Told(t, h)
  <2>1. SUFFICES ASSUME NEW i \in 1 .. Len(t), t[i][1] = "keys",
                        \A j \in i + 1 .. Len(t) : t[j][1] = "hold"
                 PROVE  t[i][2] = h
    BY DEF Told
  <2>2. \A j \in (i + 1) + 1 .. Len(q) : q[j][1] = "hold"
    BY <1>4, <2>1
  <2> QED BY <1>2, <2>1, <2>2 DEF Told
<1>6. ASSUME b[1] = "hold", NoKeys(t) PROVE NoKeys(q)
  <2>1. ASSUME NEW j \in 1 .. Len(q) PROVE q[j][1] = "hold"
    BY <1>1, <1>3, <1>6 DEF NoKeys
  <2> QED BY <2>1 DEF NoKeys
<1>7. ASSUME b[1] = "keys", NoKeys(t) PROVE b[2] = h
  <2>1. 1 \in 1 .. Len(q)
    BY <1>1
  <2>2. ASSUME NEW j \in 1 + 1 .. Len(q) PROVE q[j][1] = "hold"
    <3>1. j \in 1 .. Len(q) /\ j # 1
      BY <1>1
    <3> QED BY <1>3, <1>7, <3>1 DEF NoKeys
  <2> QED BY <1>1, <1>7, <2>1, <2>2 DEF Told
<1> QED BY <1>5, <1>6, <1>7 DEF t, b

-----------------------------------------------------------------------------
(* The types. *)

LEMMA Pairs ==
  ASSUME NEW A, NEW B, NEW m \in A \X B
  PROVE  m[1] \in A /\ m[2] \in B /\ m = <<m[1], m[2]>>
OBVIOUS

LEMMA Word ==
  ASSUME NEW m, NEW k, NEW c, m = <<k, c>>
  PROVE  m[1] = k /\ m[2] = c
OBVIOUS

LEMMA MessageCases ==
  ASSUME NEW m \in Messages
  PROVE  \E c \in Chords \union {""} : m = <<"keys", c>> \/ m = <<"hold", c>>
<1> DEFINE K == {"keys", "hold"} C == Chords \union {""}
<1>1. m \in K \X C
  BY DEF Messages
<1> HIDE DEF K, C
<1>2. m[1] \in K /\ m[2] \in C /\ m = <<m[1], m[2]>>
  BY <1>1, Pairs
<1>3. m[1] = "keys" \/ m[1] = "hold"
  BY <1>2 DEF K
<1> QED BY <1>2, <1>3 DEF C

\* What the task carries out is a message for a chord of the keypad, or for none.
LEMMA TaskCases ==
  ASSUME Types, rcu_task
  PROVE  \E c \in Chords \union {""} :
           \/ Head(queue) = <<"keys", c>> /\ key_event_process(c)
           \/ Head(queue) = <<"hold", c>> /\ key_hold_process(c)
<1>1. queue \in Seq(Messages) /\ queue # <<>>
  BY DEF Types, KeyTypes, rcu_task
<1>2. Head(queue) \in Messages
  BY <1>1, Served
<1>3. PICK c \in Chords \union {""} : Head(queue) = <<"keys", c>> \/ Head(queue) = <<"hold", c>>
  BY <1>2, MessageCases
<1>4. "keys" # "hold" /\ <<"keys", c>>[1] = "keys" /\ <<"keys", c>>[2] = c
      /\ <<"hold", c>>[1] = "hold" /\ <<"hold", c>>[2] = c
  OBVIOUS
<1>5. IF Head(queue)[1] = "keys" THEN key_event_process(Head(queue)[2])
                                 ELSE key_hold_process(Head(queue)[2])
  BY DEF rcu_task
<1>6. CASE Head(queue) = <<"keys", c>>
  BY <1>4, <1>5, <1>6
<1>7. CASE Head(queue) = <<"hold", c>>
  BY <1>4, <1>5, <1>7
<1> QED BY <1>3, <1>6, <1>7

\* What key_event_process does for each key: a release, a report, the left key, voice, or the
\* switch.
LEMMA KeyCases ==
  ASSUME NEW c \in Chords \union {""}, key_event_process(c)
  PROVE  \/ c \in Combos \union {""} /\ key_up_process /\ UNCHANGED switched
         \/ c \in Kinds /\ KeyboardKey(c) /\ UNCHANGED lost /\ led' = (IF Steady THEN led ELSE "KEY")
         \/ c = "LEFT" /\ LeftKey /\ UNCHANGED lost /\ led' = (IF Steady THEN led ELSE "KEY")
         \/ c = "VOICE" /\ VoiceKey /\ UNCHANGED lost /\ led' = (IF Steady THEN led ELSE "KEY")
         \/ c = "SWITCH" /\ slp_key_proc /\ UNCHANGED lost /\ led' = (IF Steady THEN led ELSE "KEY")
<1>1. CASE c \in Combos \union {""}
  BY <1>1 DEF key_event_process
<1>2. CASE c \notin Combos \union {""}
  <2>1. one_key_process(c)
    BY <1>2 DEF key_event_process
  <2>2. c \in Kinds \/ c = "LEFT" \/ c = "VOICE" \/ c = "SWITCH"
    BY <1>2, ChordsAssumption
  <2>3. CASE c \in Kinds
    BY <2>1, <2>3 DEF one_key_process, Kinds
  <2>4. CASE c = "VOICE"
    BY <2>1, <2>4 DEF one_key_process, Kinds
  <2>5. CASE c = "SWITCH"
    BY <2>1, <2>5 DEF one_key_process, Kinds
  <2>6. CASE c = "LEFT"
    BY <2>1, <2>6 DEF one_key_process, Kinds
  <2> QED BY <2>2, <2>3, <2>4, <2>5, <2>6
<1> QED BY <1>1, <1>2

\* The calls of pair_start_func after its timer, each followed by the next.
LEMMA PairCases ==
  /\ DOMAIN Then = Calls
  /\ Pair => \/ task = "light" /\ task' = "remove"
             \/ task = "remove" /\ task' = "flag"
             \/ task = "flag" /\ task' = "announce"
             \/ task = "announce" /\ task' = "ready"
<1>1. /\ DOMAIN Then = Calls
      /\ Then["light"] = "remove" /\ Then["remove"] = "flag"
      /\ Then["flag"] = "announce" /\ Then["announce"] = "ready"
  BY DEF Then, Calls
<1>2. Pair => task \in Calls /\ task' = Then[task]
  BY <1>1 DEF Pair
<1> QED BY <1>1, <1>2 DEF Calls

LEMMA StoppingPlaces == Stopping = {"stop announce", "stop timer"}
                        /\ Places = {"ready", "announce", "restart", "stop announce", "stop timer"}
BY DEF Stopping, Places

LEMMA Room ==
  ASSUME NEW m \in Nat, NEW n \in Nat, m <= n, m # n
  PROVE  m < n
OBVIOUS

\* A message is added to a queue that has room, and a report to one that is linked.
LEMMA Posted ==
  ASSUME KeyTypes, NEW m \in Messages, Post(m)
  PROVE  queue' \in Seq(Messages) /\ Len(queue') <= QueueLen
<1>1. Append(queue, m) \in Seq(Messages) /\ Len(Append(queue, m)) = Len(queue) + 1
      /\ Len(queue) \in Nat
  BY Added DEF KeyTypes
<1>2. QueueLen \in Nat
  BY BoundAssumption
<1>3. CASE Len(queue) < QueueLen
  BY <1>1, <1>2, <1>3 DEF Post
<1>4. CASE ~(Len(queue) < QueueLen)
  BY <1>4 DEF Post, KeyTypes
<1> QED BY <1>3, <1>4

LEMMA Notified ==
  ASSUME LinkTypes, NEW m \in Words, Notify(m)
  PROVE  dEv' \in Seq(Words) /\ (dEv' = dEv \/ dEv' = Append(dEv, m))
<1>1. dEv \in Seq(Words)
  BY DEF LinkTypes
<1>2. Append(dEv, m) \in Seq(Words)
  BY <1>1, Added
<1> QED BY <1>1, <1>2 DEF Notify

LEMMA CutTypes ==
  ASSUME LinkTypes, NEW m \in Seq(MouseWords), NEW d \in Seq(Words), LinkCut(m, d)
  PROVE  mEv' \in Seq(MouseWords) /\ dEv' \in Seq(Words) /\ linked' \in BOOLEAN /\ pairing' \in BOOLEAN
<1>1. "disc" \in MouseWords /\ "disc" \in Words
  BY DEF MouseWords, Words, LinkEvents
<1>2. Append(m, "disc") \in Seq(MouseWords) /\ Append(d, "disc") \in Seq(Words)
  BY <1>1, Added
<1> QED BY <1>2 DEF LinkCut

\* What the radio library does to the radio and its reports.
LEMMA RadioOps ==
  ASSUME NEW s \in Radios
  PROVE  /\ PowerOn(s) \in Radios /\ PowerOff(s) \in Radios
         /\ slp_start_ranging(s) \in Radios /\ Stopped(s) \in Radios
         /\ [s EXCEPT !.st = "paused"] \in Radios /\ [s EXCEPT !.st = "ranging"] \in Radios
         /\ [s EXCEPT !.pend = Append(@, "version")] \in Radios
         /\ [st |-> "asleep", pend |-> Append(s.pend, "sleep")] \in Radios
         /\ [s EXCEPT !.pend = Append(@, "sleep failed")] \in Radios
         /\ s.pend # <<>> => [s EXCEPT !.pend = Tail(@)] \in Radios /\ Head(s.pend) \in Reports
<1>1. s.pend \in Seq(Reports) /\ s.st \in {"off", "on", "ranging", "paused", "asleep"}
  BY DEF Radios
<1>2. \A e \in Reports : Append(s.pend, e) \in Seq(Reports)
  BY <1>1, Added
<1>3. s.pend # <<>> => Tail(s.pend) \in Seq(Reports) /\ Head(s.pend) \in Reports
  BY <1>1, Served
<1>4. /\ Append(s.pend, "on") \in Seq(Reports) /\ Append(s.pend, "stop") \in Seq(Reports)
      /\ Append(s.pend, "version") \in Seq(Reports) /\ Append(s.pend, "sleep") \in Seq(Reports)
      /\ Append(s.pend, "sleep failed") \in Seq(Reports)
  BY <1>2 DEF Reports
<1>5. /\ [s EXCEPT !.st = "off"] \in Radios /\ [s EXCEPT !.st = "ranging"] \in Radios
      /\ [s EXCEPT !.st = "paused"] \in Radios
      /\ \A p \in Seq(Reports) : [s EXCEPT !.pend = p] \in Radios
      /\ \A p \in Seq(Reports) : [st |-> "on", pend |-> p] \in Radios
      /\ \A p \in Seq(Reports) : [st |-> "asleep", pend |-> p] \in Radios
  BY DEF Radios
<1>6. PowerOn(s) \in Radios /\ PowerOff(s) \in Radios
  BY <1>4, <1>5 DEF PowerOn, PowerOff
<1>7. slp_start_ranging(s) \in Radios /\ Stopped(s) \in Radios
  BY <1>4, <1>5 DEF slp_start_ranging, Stopped
<1> QED BY <1>3, <1>4, <1>5, <1>6, <1>7

\* Which actions change what.
LEMMA Frames ==
  ASSUME [Next]_vars
  PROVE  /\ \/ UNCHANGED keys
            \/ \E c \in Chords \union {""} : keyscan_callback(c)
            \/ key_hold_timer_callback \/ rcu_task \/ Pair \/ Unpair
         /\ \/ UNCHANGED <<radio, handler>>
            \/ Sleep \/ imu_wakeup_callback \/ rcu_task \/ MouseSle \/ MouseSleRest
            \/ MouseSlp \/ imu_wakeup_init
         /\ \/ UNCHANGED <<search, task, sle>>
            \/ LinkUp \/ pair_timer_callback \/ rcu_task \/ Pair \/ Unpair
            \/ MouseSle \/ MouseSleRest
         /\ \/ UNCHANGED <<link, dongle>>
            \/ LinkUp \/ ConnectFails \/ LinkLost \/ (\E ok \in BOOLEAN : PairDone(ok))
            \/ serial_cmd_proc \/ rcu_task \/ Pair \/ Unpair \/ MouseSle
            \/ seek_result_info_cbk \/ seek_disable_cbk \/ DongleSle
<1>1. CASE UNCHANGED vars
  BY <1>1 DEF vars, keys, radio, search, link, dongle, handler
<1>2. CASE Stack
  BY <1>2 DEF Stack, LinkUp, ConnectFails, LinkLost, PairDone, keys, radio, search, handler
<1>3. CASE User
  BY <1>3 DEF User, serial_cmd_proc, Sleep, imu_wakeup_callback, keyscan_callback, keys, handler
<1>4. CASE Mouse
  BY <1>4 DEF Mouse, key_hold_timer_callback, pair_timer_callback, Pair, Unpair, MouseSle,
              MouseSleRest, MouseSlp, imu_wakeup_init, radio, link, dongle, handler, keys
<1>5. CASE Dongle
  BY <1>5 DEF Dongle, seek_result_info_cbk, seek_disable_cbk, DongleSle, keys, handler
<1> QED BY <1>1, <1>2, <1>3, <1>4, <1>5 DEF Next

LEMMA KeyTypesStep ==
  ASSUME Types, [Next]_vars
  PROVE  KeyTypes'
<1>1. KeyTypes
  BY DEF Types
<1>2. CASE UNCHANGED keys
  BY <1>1, <1>2 DEF KeyTypes, keys
<1>3. ASSUME NEW c \in Chords \union {""}, keyscan_callback(c) PROVE KeyTypes'
  <2>1. <<"keys", c>> \in Messages
    BY DEF Messages
  <2>2. queue' \in Seq(Messages) /\ Len(queue') <= QueueLen
    <3>1. CASE awake
      BY <1>1, <1>3, <2>1, <3>1, Posted DEF keyscan_callback
    <3>2. CASE ~awake
      BY <1>1, <1>3, <3>2 DEF keyscan_callback, KeyTypes
    <3> QED BY <3>1, <3>2
  <2> QED BY <1>1, <1>3, <2>2 DEF KeyTypes, keyscan_callback
<1>4. CASE key_hold_timer_callback
  <2>1. <<"hold", hold>> \in Messages
    BY <1>1 DEF Messages, KeyTypes
  <2>2. queue' \in Seq(Messages) /\ Len(queue') <= QueueLen
    BY <1>1, <1>4, <2>1, Posted DEF key_hold_timer_callback
  <2> QED BY <1>1, <1>4, <2>2 DEF KeyTypes, key_hold_timer_callback
<1>5. CASE rcu_task
  <2>1. queue' \in Seq(Messages) /\ Len(queue') <= QueueLen
    <3>1. queue # <<>> /\ queue' = Tail(queue)
      BY <1>5 DEF rcu_task
    <3>2. Tail(queue) \in Seq(Messages) /\ Len(Tail(queue)) = Len(queue) - 1 /\ Len(queue) \in Nat
      BY <1>1, <3>1, Served DEF KeyTypes
    <3>3. Len(queue) <= QueueLen /\ QueueLen \in Nat
      BY <1>1, BoundAssumption DEF KeyTypes
    <3>4. Len(queue) - 1 <= QueueLen
      BY <3>2, <3>3
    <3> QED BY <3>1, <3>2, <3>4
  <2>2. UNCHANGED <<held, missed>>
    BY <1>5 DEF rcu_task
  <2>3. PICK c \in Chords \union {""} :
           \/ Head(queue) = <<"keys", c>> /\ key_event_process(c)
           \/ Head(queue) = <<"hold", c>> /\ key_hold_process(c)
    BY <1>5, TaskCases
  <2>4. CASE key_event_process(c)
    <3>1. task' = task /\ hold' \in (Chords \intersect Combos) \union {""}
      BY <1>1, <2>4 DEF key_event_process, KeyTypes, Combos
    <3>2. /\ down' \subseteq {"keyboard", "left_key", "slp_pause"}
          /\ mic' \in BOOLEAN /\ click' \in BOOLEAN
      BY <1>1, <2>4, KeyCases
         DEF KeyTypes, key_up_process, KeyboardKey, LeftKey, VoiceKey, slp_key_proc
    <3> QED BY <1>1, <2>1, <2>2, <3>1, <3>2 DEF KeyTypes
  <2>5. CASE key_hold_process(c)
    BY <1>1, <2>1, <2>2, <2>5
       DEF KeyTypes, key_hold_process, pair_start_func, unpair_start_func, Calls
  <2> QED BY <2>3, <2>4, <2>5
<1>6. CASE Unpair
  BY <1>1, <1>6 DEF KeyTypes, Unpair
<1>7. CASE Pair
  BY <1>1, <1>7, PairCases DEF KeyTypes, Pair, Calls
<1> QED BY <1>2, <1>3, <1>4, <1>5, <1>6, <1>7, Frames

LEMMA RadioTypesStep ==
  ASSUME Types, [Next]_vars
  PROVE  RadioTypes'
<1>1. RadioTypes /\ slp \in Radios
  BY DEF Types, RadioTypes
<1>2. CASE UNCHANGED <<radio, handler>>
  BY <1>1, <1>2 DEF RadioTypes, radio, handler
<1>3. CASE Sleep
  <2>1. slp' \in Radios
    BY <1>1, <1>3, RadioOps DEF Sleep
  <2> QED BY <1>1, <1>3, <2>1 DEF RadioTypes, Sleep, handler
<1>4. CASE imu_wakeup_callback
  BY <1>1, <1>4, RadioOps DEF RadioTypes, imu_wakeup_callback, handler
<1>5. CASE imu_wakeup_init
  BY <1>1, <1>5 DEF RadioTypes, imu_wakeup_init, handler
<1>6. CASE rcu_task
  <2>1. UNCHANGED <<restart, rcuSleep, dozing, awake, pairStatus, sle, late>>
    BY <1>6 DEF rcu_task
  <2>2. PICK c \in Chords \union {""} : key_event_process(c) \/ key_hold_process(c)
    BY <1>6, TaskCases
  <2>3. CASE key_event_process(c)
    <3>1. slp' \in Radios /\ switched' \in BOOLEAN
      BY <1>1, <2>3, KeyCases, RadioOps
         DEF RadioTypes, key_up_process, KeyboardKey, LeftKey, VoiceKey, slp_key_proc
    <3> QED BY <1>1, <2>1, <3>1 DEF RadioTypes
  <2>4. CASE key_hold_process(c)
    BY <1>1, <2>1, <2>4 DEF RadioTypes, key_hold_process
  <2> QED BY <2>2, <2>3, <2>4
<1>7. CASE MouseSle
  <2>1. UNCHANGED <<rcuSleep, dozing>> /\ MouseCallback(Head(mEv)) /\ sle = "ready"
    BY <1>7 DEF MouseSle
  <2>2. Head(mEv) \in MouseWords
    BY <1>7, Served DEF MouseSle, Types, LinkTypes
  <2>3. Connected \/ Disconnected \/ PairComplete \/ PairFailed \/ RangingRestart
    BY <2>1, <2>2 DEF MouseCallback, MouseWords, LinkEvents
  <2>4. PowerOn(slp) \in Radios /\ PowerOff(slp) \in Radios
        /\ slp_start_ranging(slp) \in Radios /\ Stopped(slp) \in Radios
    BY <1>1, RadioOps
  <2>5. CASE Connected
    BY <1>1, <2>1, <2>5 DEF RadioTypes, Connected
  <2>6. CASE Disconnected
    BY <1>1, <2>1, <2>4, <2>6, StoppingPlaces DEF RadioTypes, Disconnected, LinkEnded
  <2>7. CASE PairComplete
    BY <1>1, <2>1, <2>4, <2>7, StoppingPlaces DEF RadioTypes, PairComplete
  <2>8. CASE PairFailed
    BY <1>1, <2>1, <2>8 DEF RadioTypes, PairFailed
  <2>9. CASE RangingRestart
    BY <1>1, <2>1, <2>4, <2>9, StoppingPlaces DEF RadioTypes, RangingRestart, Powered
  <2> QED BY <2>3, <2>5, <2>6, <2>7, <2>8, <2>9
<1>8. CASE MouseSlp
  <2>1. UNCHANGED <<awake, pairStatus, switched, sle>> /\ slp.pend # <<>>
    BY <1>8 DEF MouseSlp
  <2> DEFINE s == [slp EXCEPT !.pend = Tail(@)]
  <2>2. s \in Radios /\ Head(slp.pend) \in Reports
    BY <1>1, <2>1, RadioOps
  <2>3. MouseReport(Head(slp.pend), s)
    BY <1>8 DEF MouseSlp
  <2> HIDE DEF s
  <2>4. \/ slp_power_on_cbk(s) \/ rpt_version_cbk(s) \/ slp_stop_ranging_cbk(s)
        \/ slp_sleep_cbk(s, TRUE) \/ slp_sleep_cbk(s, FALSE)
    BY <2>2, <2>3 DEF MouseReport, Reports
  <2>5. slp_start_ranging(s) \in Radios /\ [s EXCEPT !.pend = Append(@, "version")] \in Radios
    BY <2>2, RadioOps
  <2>6. /\ slp' \in Radios /\ restart' \in BOOLEAN /\ rcuSleep' \in BOOLEAN /\ dozing' \in BOOLEAN
        /\ late' \in BOOLEAN
    BY <1>1, <2>2, <2>4, <2>5
       DEF RadioTypes, slp_power_on_cbk, rpt_version_cbk, slp_stop_ranging_cbk, slp_sleep_cbk
  <2> QED BY <1>1, <2>1, <2>6 DEF RadioTypes
<1>9. CASE MouseSleRest
  <2>1. UNCHANGED <<rcuSleep, dozing, awake, pairStatus>> /\ sle' \in Places
    BY <1>9, StoppingPlaces DEF MouseSleRest
  <2>2. slp' \in Radios /\ restart' \in BOOLEAN /\ switched' \in BOOLEAN /\ late' \in BOOLEAN
    BY <1>1, <1>9, RadioOps DEF RadioTypes, MouseSleRest, LinkEnded
  <2> QED BY <2>1, <2>2, <1>1 DEF RadioTypes
<1> QED BY <1>2, <1>3, <1>4, <1>5, <1>6, <1>7, <1>8, <1>9, Frames

\* The callbacks of the mouse, of which one is served.
LEMMA MouseCases ==
  ASSUME LinkTypes, MouseSle
  PROVE  /\ mEv # <<>> /\ mEv' = Tail(mEv) /\ Tail(mEv) \in Seq(MouseWords)
         /\ \/ Connected \/ PairComplete \/ PairFailed \/ RangingRestart
            \/ Disconnected
         /\ Head(mEv) = "disc" => Disconnected
         /\ sle = "ready" /\ UNCHANGED <<task, byKey, unpaired, linked>>
<1>1. mEv # <<>> /\ mEv' = Tail(mEv) /\ MouseCallback(Head(mEv))
  BY DEF MouseSle
<1>2. Head(mEv) \in MouseWords /\ Tail(mEv) \in Seq(MouseWords)
  BY <1>1, Served DEF LinkTypes
<1>3. sle = "ready" /\ UNCHANGED <<task, byKey, unpaired, linked>>
  BY DEF MouseSle, keys
<1> QED BY <1>1, <1>2, <1>3 DEF MouseCallback, MouseWords, LinkEvents

LEMMA Started == pair_start_func => crossed' \in BOOLEAN
BY DEF pair_start_func

LEMMA SearchTypesStep ==
  ASSUME Types, [Next]_vars
  PROVE  SearchTypes'
<1>1. SearchTypes /\ LinkTypes
  BY DEF Types
<1>2. CASE UNCHANGED search
  BY <1>1, <1>2 DEF SearchTypes, search
<1>3. CASE LinkUp
  BY <1>1, <1>3 DEF SearchTypes, LinkUp
<1>4. CASE pair_timer_callback
  BY <1>1, <1>4 DEF SearchTypes, pair_timer_callback, PairStopped
<1>5. CASE rcu_task
  <2>1. PICK c \in Chords \union {""} : key_event_process(c) \/ key_hold_process(c)
    BY <1>5, TaskCases
  <2>2. CASE key_event_process(c)
    <3>1. led' \in {"IDLE", "KEY", "PAIRING", "UNPAIRING"}
      BY <1>1, <2>2, KeyCases DEF SearchTypes, key_up_process, Steady
    <3> QED BY <1>1, <2>2, <3>1 DEF SearchTypes, key_event_process
  <2>3. CASE key_hold_process(c)
    <3>1. pair_start_func => crossed' \in BOOLEAN
      BY Started
    <3>2. /\ pair_start_func => /\ pairTimer' = TRUE /\ unpaired' = FALSE
                                /\ UNCHANGED <<led, byKey, air>>
          /\ pair_start_func \/ unpair_start_func
      BY <2>3 DEF key_hold_process, pair_start_func
    <3> QED BY <1>1, <3>1, <3>2 DEF SearchTypes, unpair_start_func
  <2> QED BY <2>1, <2>2, <2>3
<1>6. CASE Unpair
  BY <1>1, <1>6 DEF SearchTypes, Unpair
<1>7. CASE MouseSle
  BY <1>1, <1>7, MouseCases
     DEF SearchTypes, Connected, Disconnected, PairComplete, PairStopped, PairFailed, RangingRestart
<1>8. CASE Pair
  BY <1>1, <1>8 DEF SearchTypes, Pair
<1>9. CASE MouseSleRest
  BY <1>1, <1>9 DEF SearchTypes, MouseSleRest
<1> QED BY <1>2, <1>3, <1>4, <1>5, <1>6, <1>7, <1>8, <1>9, Frames

\* The reports the dongle serves: four callbacks of the stack, or a report of the mouse.
LEMMA DongleCases ==
  ASSUME LinkTypes, DongleSle
  PROVE  /\ dEv # <<>> /\ Tail(dEv) \in Seq(Words)
         /\ \/ Head(dEv) \in LinkEvents
               /\ \/ DongleConnected(Tail(dEv)) \/ DongleDisconnected(Tail(dEv))
                  \/ DonglePaired(Tail(dEv)) \/ DonglePairFailed(Tail(dEv))
            \/ Head(dEv) \in Kinds \union {"UP"} /\ ssapc_notification_cbk(Head(dEv), Tail(dEv))
<1> DEFINE e == Head(dEv) d == Tail(dEv)
<1>1. dEv # <<>>
      /\ CASE e = "conn" -> DongleConnected(d)
           [] e = "disc" -> DongleDisconnected(d)
           [] e = "pairOk" -> DonglePaired(d)
           [] e = "pairFail" -> DonglePairFailed(d)
           [] OTHER -> ssapc_notification_cbk(e, d)
  BY DEF DongleSle
<1>2. e \in Words /\ d \in Seq(Words)
  BY <1>1, Served DEF LinkTypes
<1> HIDE DEF e, d
<1>3. CASE e \in LinkEvents
  BY <1>1, <1>2, <1>3 DEF LinkEvents, e, d
<1>4. CASE e \notin LinkEvents
  <2>1. e # "conn" /\ e # "disc" /\ e # "pairOk" /\ e # "pairFail"
    BY <1>4 DEF LinkEvents
  <2>2. ssapc_notification_cbk(e, d)
    BY <1>1, <2>1, Zenon
  <2>3. e \in Kinds \union {"UP"}
    BY <1>2, <1>4 DEF Words
  <2> QED BY <1>1, <1>2, <2>2, <2>3 DEF e, d
<1> QED BY <1>3, <1>4

LEMMA LinkTypesStep ==
  ASSUME Types, [Next]_vars
  PROVE  LinkTypes'
<1>1. /\ LinkTypes /\ dEv \in Seq(Words) /\ mEv \in Seq(MouseWords)
      /\ linked \in BOOLEAN /\ pairing \in BOOLEAN
  BY DEF Types, LinkTypes
<1>2. /\ \A e \in LinkEvents : Append(dEv, e) \in Seq(Words) /\ Append(mEv, e) \in Seq(MouseWords)
      /\ Append(mEv, "RESTART") \in Seq(MouseWords)
  <2>1. LinkEvents \subseteq Words /\ LinkEvents \subseteq MouseWords /\ "RESTART" \in MouseWords
    BY DEF Words, MouseWords
  <2> QED BY <1>1, <2>1, Added
<1>3. /\ Append(dEv, "conn") \in Seq(Words) /\ Append(mEv, "conn") \in Seq(MouseWords)
      /\ Append(dEv, "disc") \in Seq(Words)
      /\ Append(dEv, "pairOk") \in Seq(Words) /\ Append(mEv, "pairOk") \in Seq(MouseWords)
      /\ Append(dEv, "pairFail") \in Seq(Words) /\ Append(mEv, "pairFail") \in Seq(MouseWords)
  BY <1>2 DEF LinkEvents
<1>4. CASE UNCHANGED <<link, dongle>>
  BY <1>1, <1>4 DEF LinkTypes, link, dongle
<1>5. CASE LinkUp
  BY <1>1, <1>3, <1>5 DEF LinkTypes, LinkUp
<1>6. CASE ConnectFails
  BY <1>1, <1>3, <1>6 DEF LinkTypes, ConnectFails
<1>7. CASE LinkLost
  <2>1. UNCHANGED <<paired, pairedD, seek, host>> /\ lost' \in BOOLEAN
    BY <1>1, <1>7 DEF LinkLost, dongle, LinkTypes
  <2>2. PICK n \in 1 .. Len(dEv) + 1 : LinkCut(mEv, SubSeq(dEv, 1, n - 1))
    BY <1>7 DEF LinkLost
  <2>3. SubSeq(dEv, 1, n - 1) \in Seq(Words)
    BY <1>1, Cut
  <2>4. mEv' \in Seq(MouseWords) /\ dEv' \in Seq(Words) /\ linked' \in BOOLEAN /\ pairing' \in BOOLEAN
    BY <1>1, <2>2, <2>3, CutTypes
  <2> QED BY <1>1, <2>1, <2>4 DEF LinkTypes
<1>8. ASSUME NEW ok \in BOOLEAN, PairDone(ok) PROVE LinkTypes'
  <2>1. CASE ok
    BY <1>1, <1>3, <1>8, <2>1 DEF LinkTypes, PairDone, dongle
  <2>2. CASE ~ok
    BY <1>1, <1>3, <1>8, <2>2 DEF LinkTypes, PairDone, dongle
  <2> QED BY <2>1, <2>2
<1>9. CASE serial_cmd_proc
  BY <1>1, <1>2, <1>9 DEF LinkTypes, serial_cmd_proc, dongle
<1>10. CASE rcu_task
  <2>1. UNCHANGED <<pairedD, seek, host>>
    BY <1>10 DEF rcu_task, dongle
  <2>2. PICK c \in Chords \union {""} : key_event_process(c) \/ key_hold_process(c)
    BY <1>10, TaskCases
  <2>3. CASE key_event_process(c)
    <3>1. UNCHANGED <<linked, pairing, mEv, paired>>
      BY <2>3 DEF key_event_process
    <3>2. /\ Notify("UP") \/ (c \in Kinds /\ Notify(c)) \/ dEv' = dEv
          /\ lost' = lost \/ lost' = (dEv' = dEv)
      BY <2>3, KeyCases DEF key_up_process, Release, KeyboardKey, LeftKey, VoiceKey, slp_key_proc
    <3>3. "UP" \in Words /\ (c \in Kinds => c \in Words)
      BY DEF Words
    <3>4. dEv' \in Seq(Words)
      BY <1>1, <3>2, <3>3, Notified
    <3>5. lost' \in BOOLEAN
      BY <1>1, <3>2 DEF LinkTypes
    <3> QED BY <1>1, <2>1, <3>1, <3>4, <3>5 DEF LinkTypes
  <2>4. CASE key_hold_process(c)
    BY <1>1, <2>1, <2>4 DEF LinkTypes, key_hold_process, pair_start_func, unpair_start_func
  <2> QED BY <2>2, <2>3, <2>4
<1>11. CASE Unpair
  <2>1. mEv' \in Seq(MouseWords) /\ dEv' \in Seq(Words) /\ linked' \in BOOLEAN
        /\ pairing' \in BOOLEAN
    BY <1>1, <1>11, CutTypes DEF Unpair
  <2> QED BY <1>1, <1>11, <2>1 DEF LinkTypes, Unpair, dongle
<1>12. CASE MouseSle
  <2>1. mEv' \in Seq(MouseWords)
    BY <1>1, <1>12, MouseCases
  <2> QED BY <1>1, <1>12, <2>1 DEF LinkTypes, MouseSle, dongle
<1>13. CASE seek_result_info_cbk
  BY <1>1, <1>13 DEF LinkTypes, seek_result_info_cbk, link
<1>14. CASE seek_disable_cbk
  BY <1>1, <1>14 DEF LinkTypes, seek_disable_cbk, link
<1>15. CASE DongleSle
  <2>1. paired' = paired
    BY <1>15 DEF DongleSle
  <2>2. Tail(dEv) \in Seq(Words)
    BY <1>1, <1>15, DongleCases
  <2>3. CASE DongleConnected(Tail(dEv))
    BY <1>1, <2>1, <2>2, <2>3 DEF LinkTypes, DongleConnected
  <2>4. CASE DongleDisconnected(Tail(dEv))
    BY <1>1, <2>1, <2>2, <2>4 DEF LinkTypes, DongleDisconnected
  <2>5. CASE DonglePaired(Tail(dEv))
    BY <1>1, <2>1, <2>2, <2>5 DEF LinkTypes, DonglePaired
  <2>6. CASE DonglePairFailed(Tail(dEv))
    <3>1. mEv' \in Seq(MouseWords) /\ dEv' \in Seq(Words) /\ linked' \in BOOLEAN
          /\ pairing' \in BOOLEAN
      BY <1>1, <2>2, <2>6, CutTypes DEF DonglePairFailed
    <3> QED BY <1>1, <2>1, <2>6, <3>1 DEF LinkTypes, DonglePairFailed
  <2>7. CASE Head(dEv) \in Kinds \union {"UP"} /\ ssapc_notification_cbk(Head(dEv), Tail(dEv))
    <3>1. host' \subseteq Kinds
      BY <1>1, <2>7 DEF LinkTypes, ssapc_notification_cbk, HostSees
    <3> QED BY <1>1, <2>1, <2>2, <2>7, <3>1 DEF LinkTypes, ssapc_notification_cbk
  <2> QED BY <1>1, <1>15, <2>3, <2>4, <2>5, <2>6, <2>7, DongleCases
<1>16. CASE Pair
  <2>1. UNCHANGED <<pairedD, lost, seek, host>> /\ paired' \in BOOLEAN
    BY <1>1, <1>16 DEF LinkTypes, Pair, dongle
  <2>2. LinkCut(mEv, dEv) \/ UNCHANGED <<linked, pairing, mEv, dEv>>
    BY <1>16 DEF Pair
  <2>3. mEv' \in Seq(MouseWords) /\ dEv' \in Seq(Words) /\ linked' \in BOOLEAN
        /\ pairing' \in BOOLEAN
    BY <1>1, <2>2, CutTypes
  <2> QED BY <1>1, <2>1, <2>3 DEF LinkTypes
<1> QED BY <1>4, <1>5, <1>6, <1>7, <1>8, <1>9, <1>10, <1>11, <1>12, <1>13, <1>14, <1>15, <1>16,
           Frames

LEMMA TypesStep ==
  ASSUME Types, [Next]_vars
  PROVE  Types'
BY KeyTypesStep, RadioTypesStep, SearchTypesStep, LinkTypesStep DEF Types

-----------------------------------------------------------------------------
(* The mouse is off the air after UNPAIR.                                  *)

LEMMA SilentStep ==
  ASSUME Types, Silent, [Next]_vars
  PROVE  Silent'
<1>1. SearchTypes /\ LinkTypes
  BY DEF Types
<1>2. CASE UNCHANGED <<search, task, sle>>
  BY <1>2 DEF Silent, search
<1>3. CASE LinkUp
  BY <1>3 DEF Silent, LinkUp, keys, handler
<1>4. CASE pair_timer_callback
  BY <1>1, <1>4 DEF Silent, SearchTypes, pair_timer_callback, PairStopped, keys, handler
<1>5. CASE Unpair
  BY <1>5 DEF Silent, Unpair, Calls, handler
<1>6. CASE rcu_task
  <2>1. PICK c \in Chords \union {""} : key_event_process(c) \/ key_hold_process(c)
    BY <1>6, TaskCases
  <2>2. sle' = sle
    BY <1>6 DEF rcu_task
  <2>3. CASE key_event_process(c)
    BY <2>2, <2>3 DEF Silent, key_event_process
  <2>4. CASE key_hold_process(c)
    BY <2>2, <2>4 DEF Silent, key_hold_process, pair_start_func, unpair_start_func, Calls
  <2> QED BY <2>1, <2>3, <2>4
<1>7. CASE MouseSle
  <2>1. UNCHANGED <<air, byKey, unpaired, task>> /\ (crossed => crossed')
    BY <1>1, <1>7, MouseCases
       DEF SearchTypes, Connected, Disconnected, PairComplete, PairStopped, PairFailed, RangingRestart
  <2>2. byKey => sle' # "announce"
    BY <1>1, <1>7, MouseCases, StoppingPlaces
       DEF Connected, Disconnected, PairComplete, PairFailed, RangingRestart
  <2> QED BY <1>1, <2>1, <2>2 DEF Silent, SearchTypes
<1>8. CASE MouseSleRest
  <2>1. UNCHANGED <<byKey, unpaired, crossed, task>> /\ sle' # "announce"
        /\ (sle # "announce" => air' = air \/ air' = FALSE)
    BY <1>8 DEF MouseSleRest, keys
  <2> QED BY <1>1, <2>1 DEF Silent, SearchTypes
<1>9. CASE Pair
  BY <1>9, PairCases DEF Silent, Pair, Calls
<1> QED BY <1>2, <1>3, <1>4, <1>5, <1>6, <1>7, <1>8, <1>9, Frames

-----------------------------------------------------------------------------
(* The light for pairing.                                                  *)

\* An end of the link is on its way to the mouse.
LEMMA CutFound ==
  ASSUME NEW m \in Seq(MouseWords), NEW d, LinkCut(m, d), linked \/ Has(m, "disc")
  PROVE  Has(mEv', "disc")
<1>1. "disc" \in MouseWords
  BY DEF MouseWords, LinkEvents
<1>2. Has(Append(m, "disc"), "disc")
  BY <1>1, HasAppend
<1> QED BY <1>2 DEF LinkCut

\* Only these change the link, or what is on its way to the mouse.
LEMMA MouseFrame ==
  ASSUME Types, [Next]_vars
  PROVE  \/ UNCHANGED <<linked, mEv>>
         \/ LinkUp \/ rcu_task \/ Pair \/ Unpair \/ MouseSle
         \/ UNCHANGED <<search, task, sle>>
            /\ \/ \E d : LinkCut(mEv, d)
               \/ linked' = linked /\ \E e \in MouseWords : mEv' = Append(mEv, e)
<1> USE DEF Types
<1>1. CASE UNCHANGED <<link, dongle>>
  BY <1>1 DEF link
<1>2. CASE ConnectFails \/ seek_result_info_cbk \/ seek_disable_cbk
  BY <1>2 DEF ConnectFails, seek_result_info_cbk, seek_disable_cbk, link
<1>3. CASE LinkLost
  BY <1>3 DEF LinkLost, keys, handler
<1>4. ASSUME NEW ok \in BOOLEAN, PairDone(ok)
      PROVE  UNCHANGED <<search, task, sle, linked>> /\ \E e \in MouseWords : mEv' = Append(mEv, e)
  BY <1>4 DEF PairDone, MouseWords, LinkEvents, keys, handler
<1>5. CASE serial_cmd_proc
  BY <1>5 DEF serial_cmd_proc, MouseWords, keys, handler
<1>6. CASE DongleSle
  <2>1. UNCHANGED <<search, task, sle>>
    BY <1>6 DEF DongleSle, keys, handler
  <2> QED BY <1>6, <2>1, DongleCases
          DEF DongleConnected, DongleDisconnected, DonglePaired, DonglePairFailed,
              ssapc_notification_cbk
<1> QED BY <1>1, <1>2, <1>3, <1>4, <1>5, <1>6, Frames

LEMMA BlinksStep ==
  ASSUME Types, Blinks, [Next]_vars
  PROVE  Blinks'
<1>1. SearchTypes /\ LinkTypes /\ mEv \in Seq(MouseWords) /\ linked \in BOOLEAN
  BY DEF Types, LinkTypes
<1>2. Searching /\ Starting /\ StoppingOff
  BY DEF Blinks
<1>3. SUFFICES Searching' /\ Starting' /\ StoppingOff'
  BY DEF Blinks
<1>4. CASE UNCHANGED <<search, task, sle>> /\ UNCHANGED <<linked, mEv>>
  BY <1>2, <1>4 DEF Searching, Starting, StoppingOff, Light, search
<1>5. CASE LinkUp
  BY <1>2, <1>5 DEF Searching, Starting, StoppingOff, Light, LinkUp, keys, handler
<1>6. CASE pair_timer_callback
  <2>1. led' = "IDLE" /\ UNCHANGED <<task, sle>> /\ crossed' = (crossed \/ task = "light")
    BY <1>6 DEF pair_timer_callback, PairStopped, keys, handler
  <2> QED BY <1>2, <2>1 DEF Searching, Starting, StoppingOff, Light
<1>7. CASE Unpair
  BY <1>7 DEF Searching, Starting, StoppingOff, Light, Unpair, Calls
<1>8. CASE rcu_task
  <2>1. PICK c \in Chords \union {""} : key_event_process(c) \/ key_hold_process(c)
    BY <1>8, TaskCases
  <2>2. sle' = sle
    BY <1>8 DEF rcu_task
  <2>3. CASE key_event_process(c)
    <3>1. led' = "PAIRING" => led = "PAIRING"
      BY <2>3, KeyCases DEF key_up_process, Steady
    <3>2. UNCHANGED <<linked, mEv, air, byKey, pairTimer, crossed, task>>
      BY <2>3 DEF key_event_process
    <3> QED BY <1>2, <2>2, <3>1, <3>2 DEF Searching, Starting, StoppingOff, Light
  <2>4. CASE key_hold_process(c)
    <3>1. CASE pair_start_func
      BY <2>2, <3>1 DEF Searching, Starting, StoppingOff, Light, pair_start_func
    <3>2. CASE unpair_start_func
      BY <2>2, <3>2 DEF Searching, Starting, StoppingOff, Light, unpair_start_func, Calls
    <3> QED BY <2>4, <3>1, <3>2 DEF key_hold_process
  <2> QED BY <2>1, <2>3, <2>4
<1>9. CASE Pair
  <2>1. UNCHANGED <<pairTimer, crossed, sle>>
    BY <1>9 DEF Pair, handler
  <2>2. led' = (IF task = "light" THEN "PAIRING" ELSE led) /\ task' # "light"
    BY <1>9, PairCases DEF Pair
  <2>3. task \in Calls
    BY <1>9, PairCases DEF Calls
  <2>4. Light' => pairTimer'
    BY <1>2, <2>1, <2>2, <2>3 DEF Starting, Light
  <2>5. StoppingOff'
    BY <1>2, <2>1, <2>2 DEF StoppingOff
  <2> QED BY <2>2, <2>4, <2>5 DEF Searching, Starting
<1>10. CASE MouseSle
  <2>1. UNCHANGED <<byKey, linked, task>> /\ mEv' = Tail(mEv) /\ mEv # <<>> /\ sle = "ready"
    BY <1>1, <1>10, MouseCases
  <2>2. Has(mEv, "disc") => Head(mEv) = "disc" \/ Has(mEv', "disc")
    BY <1>1, <2>1, HasTail
  <2>3. CASE Disconnected
    <3>1. UNCHANGED <<led, pairTimer, crossed, air>> /\ (byKey \/ sle' = "announce")
          /\ sle' \in {"ready", "announce"}
      BY <2>1, <2>3 DEF Disconnected
    <3> QED BY <1>1, <1>2, <2>1, <3>1, StoppingPlaces
            DEF Searching, Starting, StoppingOff, Light, SearchTypes
  <2>4. CASE PairComplete /\ ~Powered(slp)
    <3>1. led' = "IDLE" /\ crossed' = (crossed \/ task = "light") /\ pairTimer' = pairTimer
      BY <2>4 DEF PairComplete, PairStopped
    <3> QED BY <1>2, <2>1, <3>1 DEF Searching, Starting, StoppingOff, Light
  <2>5. CASE ~Disconnected /\ ~(PairComplete /\ ~Powered(slp))
    <3>1. Has(mEv, "disc") => Has(mEv', "disc")
      BY <1>1, <1>10, <2>2, <2>5, MouseCases
    <3>2. UNCHANGED <<led, air, pairTimer, crossed>> /\ sle' \in {"ready", "restart"}
      BY <1>1, <1>10, <2>1, <2>5, MouseCases
         DEF Connected, PairComplete, PairFailed, RangingRestart
    <3> QED BY <1>2, <2>1, <3>1, <3>2, StoppingPlaces
            DEF Searching, Starting, StoppingOff, Light
  <2> QED BY <2>3, <2>4, <2>5
<1>11. CASE MouseSleRest
  <2>1. UNCHANGED <<led, crossed, task, byKey, linked, mEv>>
    BY <1>11 DEF MouseSleRest, keys, link
  <2>2. CASE sle \in Stopping
    <3>1. Light => FALSE
      BY <1>2, <2>2 DEF StoppingOff, Light
    <3>2. ~crossed => task # "light"
      BY <1>2, <2>2 DEF StoppingOff
    <3> QED BY <2>1, <3>1, <3>2 DEF Searching, Starting, StoppingOff, Light
  <2>3. CASE sle \notin Stopping
    <3>1. /\ sle' = "ready" /\ pairTimer' = pairTimer
          /\ air' = TRUE \/ (air' = air /\ sle # "announce")
      BY <1>11, <2>3, StoppingPlaces DEF MouseSleRest
    <3> QED BY <1>2, <2>1, <3>1, StoppingPlaces DEF Searching, Starting, StoppingOff, Light
  <2> QED BY <2>2, <2>3
<1>12. ASSUME UNCHANGED <<search, task, sle>>, linked \/ Has(mEv, "disc") => linked' \/ Has(mEv', "disc")
       PROVE  Searching' /\ Starting' /\ StoppingOff'
  BY <1>2, <1>12 DEF Searching, Starting, StoppingOff, Light, search
<1>13. CASE UNCHANGED <<search, task, sle>> /\ \E d : LinkCut(mEv, d)
  <2>1. linked \/ Has(mEv, "disc") => Has(mEv', "disc")
    BY <1>1, <1>13, CutFound
  <2> QED BY <1>12, <1>13, <2>1
<1>14. CASE UNCHANGED <<search, task, sle>> /\ linked' = linked
            /\ \E e \in MouseWords : mEv' = Append(mEv, e)
  <2>1. Has(mEv, "disc") => Has(mEv', "disc")
    BY <1>1, <1>14, HasAppend
  <2> QED BY <1>12, <1>14, <2>1
<1> QED BY <1>4, <1>5, <1>6, <1>7, <1>8, <1>9, <1>10, <1>11, <1>13, <1>14, Frames, MouseFrame

-----------------------------------------------------------------------------
(* The microphone, and what the task knows of the keypad.                  *)

LEMMA ListensStep ==
  ASSUME Types, Listens, [Next]_vars
  PROVE  Listens'
<1>1. CASE UNCHANGED <<down, mic, click>>
  BY <1>1 DEF Listens
<1>2. CASE rcu_task
  <2>1. PICK c \in Chords \union {""} : key_event_process(c) \/ key_hold_process(c)
    BY <1>2, TaskCases
  <2>2. CASE key_event_process(c)
    BY <2>2, KeyCases DEF Listens, key_up_process, KeyboardKey, LeftKey, VoiceKey, slp_key_proc
  <2>3. CASE key_hold_process(c)
    BY <2>3 DEF Listens, key_hold_process
  <2> QED BY <2>1, <2>2, <2>3
<1> QED BY <1>1, <1>2, Frames DEF keys, keyscan_callback, key_hold_timer_callback, Pair, Unpair

LEMMA SeenStep ==
  ASSUME Types, Seen, [Next]_vars
  PROVE  Seen'
<1>1. KeyTypes /\ queue \in Seq(Messages)
  BY DEF Types, KeyTypes
<1>2. CASE UNCHANGED <<held, queue, down, missed>>
  BY <1>2 DEF Seen
<1>3. ASSUME NEW c \in Chords \union {""}, keyscan_callback(c) PROVE Seen'
  <2>1. SUFFICES ASSUME ~missed' PROVE Told(queue', held') /\ ~NoKeys(queue')
    BY DEF Seen
  <2>2. held' = c /\ awake /\ Post(<<"keys", c>>)
    BY <1>3, <2>1 DEF keyscan_callback
  <2>3. Len(queue) \in Nat /\ QueueLen \in Nat /\ Len(queue) <= QueueLen /\ Len(queue) # QueueLen
    BY <1>1, <1>3, <2>1, LenProperties, BoundAssumption DEF KeyTypes, keyscan_callback
  <2>4. Len(queue) < QueueLen
    BY <2>3, Room
  <2>5. queue' = Append(queue, <<"keys", c>>)
    BY <2>2, <2>4 DEF Post
  <2>6. <<"keys", c>> \in Messages /\ <<"keys", c>>[1] = "keys" /\ <<"keys", c>>[2] = c
    BY DEF Messages
  <2> QED BY <1>1, <2>2, <2>5, <2>6, ToldAppend
<1>4. CASE key_hold_timer_callback
  <2>1. UNCHANGED <<held, down, missed>> /\ Post(<<"hold", hold>>)
    BY <1>4 DEF key_hold_timer_callback
  <2>2. CASE queue' = queue
    BY <2>1, <2>2 DEF Seen
  <2>3. CASE queue' = Append(queue, <<"hold", hold>>)
    <3>1. <<"hold", hold>> \in Messages /\ <<"hold", hold>>[1] = "hold"
      BY <1>1 DEF Messages, KeyTypes
    <3>2. /\ Told(queue, held) => Told(queue', held)
          /\ NoKeys(queue') => NoKeys(queue)
      BY <1>1, <2>3, <3>1, ToldAppend
    <3> QED BY <2>1, <3>2 DEF Seen
  <2> QED BY <2>1, <2>2, <2>3 DEF Post
<1>5. CASE rcu_task
  <2>1. UNCHANGED <<held, missed>> /\ queue # <<>> /\ queue' = Tail(queue)
    BY <1>5 DEF rcu_task
  <2>2. SUFFICES ASSUME ~missed
                 PROVE  Told(queue', held) /\ (held = "" /\ NoKeys(queue') => down' = {})
    BY <2>1 DEF Seen
  <2>3. Told(queue, held) /\ (held = "" /\ NoKeys(queue) => down = {})
    BY <2>2 DEF Seen
  <2>4. /\ Told(queue', held)
        /\ Head(queue)[1] = "hold" /\ NoKeys(queue') => NoKeys(queue)
        /\ Head(queue)[1] = "keys" /\ NoKeys(queue') => Head(queue)[2] = held
    BY <1>1, <2>1, <2>3, ToldTail
  <2>5. PICK c \in Chords \union {""} :
           \/ Head(queue) = <<"keys", c>> /\ key_event_process(c)
           \/ Head(queue) = <<"hold", c>> /\ key_hold_process(c)
    BY <1>5, TaskCases
  <2>6. CASE Head(queue) = <<"keys", c>> /\ key_event_process(c)
    <3>1. Head(queue)[1] = "keys" /\ Head(queue)[2] = c
      BY <2>6, Word
    <3>2. c = "" => down' = {}
      BY <2>6 DEF key_event_process, key_up_process
    <3> QED BY <2>4, <3>1, <3>2
  <2>7. CASE Head(queue) = <<"hold", c>> /\ key_hold_process(c)
    <3>1. Head(queue)[1] = "hold"
      BY <2>7, Word
    <3>2. down' = down
      BY <2>7 DEF key_hold_process
    <3> QED BY <2>3, <2>4, <3>1, <3>2
  <2> QED BY <2>5, <2>6, <2>7
<1> QED BY <1>2, <1>3, <1>4, <1>5, Frames DEF keys, Pair, Unpair

-----------------------------------------------------------------------------
(* The reports to the host.                                                *)

LEMMA EndsStep ==
  ASSUME Types, Ends, [Next]_vars
  PROVE  Ends'
<1> DEFINE Ended(d) == Clears(host, d, Kinds, "UP")
<1>1. KeyTypes /\ LinkTypes /\ dEv \in Seq(Words) /\ linked \in BOOLEAN
  BY DEF Types, LinkTypes
<1>2. "UP" \notin Kinds /\ "UP" \in Words
  BY DEF Kinds, Words
<1>3. \A q \in Seq(Words), e \in LinkEvents : Ended(q) => Ended(Append(q, e))
  <2>1. ASSUME NEW e \in LinkEvents PROVE e \in Words /\ e \notin Kinds
    BY DEF Words, LinkEvents, Kinds
  <2> QED BY <1>2, <2>1, ClearsAppend
<1>4. \A m : \A q \in Seq(Words) : Ended(q) /\ LinkCut(m, q) => Ended(dEv')
  <2>1. "disc" \in LinkEvents
    BY DEF LinkEvents
  <2> QED BY <1>3, <2>1 DEF LinkCut
<1> HIDE DEF Ended
<1>5. CASE UNCHANGED <<link, dongle>> /\ UNCHANGED down
  BY <1>5 DEF Ends, link, dongle
<1>6. ASSUME UNCHANGED <<host, lost, down>>, Ended(dEv) => Ended(dEv') PROVE Ends'
  BY <1>6 DEF Ends, Ended
<1>7. CASE LinkUp \/ ConnectFails
  BY <1>1, <1>3, <1>6, <1>7 DEF LinkUp, ConnectFails, keys, LinkEvents
<1>8. CASE \E ok \in BOOLEAN : PairDone(ok)
  BY <1>1, <1>3, <1>6, <1>8 DEF PairDone, keys, dongle, LinkEvents
<1>9. CASE serial_cmd_proc \/ MouseSle \/ seek_result_info_cbk \/ seek_disable_cbk
  BY <1>6, <1>9 DEF serial_cmd_proc, MouseSle, seek_result_info_cbk, seek_disable_cbk, keys,
                    link, dongle
<1>10. CASE LinkLost
  <2>1. PICK n \in 1 .. Len(dEv) + 1 :
          /\ LinkCut(mEv, SubSeq(dEv, 1, n - 1))
          /\ lost' = (lost \/ \E i \in n .. Len(dEv) : dEv[i] = "UP")
    BY <1>10 DEF LinkLost
  <2>2. UNCHANGED <<host, down>>
    BY <1>10 DEF LinkLost, dongle, keys
  <2>3. SUFFICES ASSUME ~lost', "keyboard" \notin down PROVE Ended(dEv')
    BY <2>2 DEF Ends, Ended
  <2>4. Ended(dEv) /\ \A i \in n .. Len(dEv) : dEv[i] # "UP"
    BY <2>1, <2>3 DEF Ends, Ended
  <2>5. Ended(SubSeq(dEv, 1, n - 1)) /\ SubSeq(dEv, 1, n - 1) \in Seq(Words)
    BY <1>1, <2>4, ClearsCut, Cut DEF Ended
  <2> QED BY <1>4, <2>1, <2>5
<1>11. CASE rcu_task
  <2>1. UNCHANGED host
    BY <1>11 DEF rcu_task, dongle
  <2>2. PICK c \in Chords \union {""} : key_event_process(c) \/ key_hold_process(c)
    BY <1>11, TaskCases
  <2>3. CASE key_up_process
    <3>1. CASE "keyboard" \in down
      <4>1. Notify("UP") /\ lost' = (dEv' = dEv)
        BY <2>3, <3>1 DEF key_up_process, Release
      <4>2. dEv' = dEv \/ dEv' = Append(dEv, "UP")
        BY <1>1, <1>2, <4>1, Notified
      <4>3. Ended(Append(dEv, "UP"))
        BY <1>1, <1>2, ClearsAppend DEF Ended
      <4> QED BY <2>1, <4>1, <4>2, <4>3 DEF Ends, Ended
    <3>2. CASE "keyboard" \notin down
      BY <2>1, <2>3, <3>2 DEF Ends, key_up_process, Release
    <3> QED BY <3>1, <3>2
  <2>4. CASE KeyboardKey(c)
    BY <2>4 DEF Ends, KeyboardKey
  <2>5. CASE VoiceKey /\ UNCHANGED lost
    BY <2>1, <2>5 DEF Ends, VoiceKey
  <2>6. CASE (slp_key_proc \/ LeftKey) /\ UNCHANGED lost
    BY <2>1, <2>6 DEF Ends, slp_key_proc, LeftKey
  <2>7. CASE key_hold_process(c)
    BY <1>6, <2>1, <2>7 DEF key_hold_process, pair_start_func, unpair_start_func
  <2> QED BY <2>2, <2>3, <2>4, <2>5, <2>6, <2>7, KeyCases
<1>12. CASE Unpair
  <2>1. UNCHANGED <<host, lost, down>> /\ LinkCut(mEv, dEv)
    BY <1>12 DEF Unpair, dongle
  <2> QED BY <1>1, <1>4, <1>6, <2>1
<1>15. CASE Pair
  <2>1. UNCHANGED <<host, lost, down>> /\ (LinkCut(mEv, dEv) \/ dEv' = dEv)
    BY <1>15 DEF Pair, dongle
  <2> QED BY <1>1, <1>4, <1>6, <2>1
<1>13. CASE DongleSle
  <2> DEFINE e == Head(dEv) d == Tail(dEv)
  <2>1. UNCHANGED down /\ dEv # <<>> /\ d \in Seq(Words)
    BY <1>1, <1>13, DongleCases DEF DongleSle, keys
  <2>2. /\ Ended(dEv) /\ e = "UP" => Clears({}, d, Kinds, "UP")
        /\ Ended(dEv) /\ e \in Kinds => Clears(host \union {e}, d, Kinds, "UP")
        /\ Ended(dEv) /\ e # "UP" => Ended(d)
    BY <1>1, <1>2, <2>1, ClearsTail DEF Ended
  <2> HIDE DEF e, d
  <2>3. CASE e \in LinkEvents /\ (DongleConnected(d) \/ DongleDisconnected(d) \/ DonglePaired(d))
    <3>1. e # "UP" /\ UNCHANGED <<host, lost>> /\ dEv' = d
      BY <2>3 DEF LinkEvents, DongleConnected, DongleDisconnected, DonglePaired
    <3> QED BY <1>6, <2>1, <2>2, <3>1
  <2>4. CASE e \in LinkEvents /\ DonglePairFailed(d)
    <3>1. e # "UP" /\ UNCHANGED <<host, lost>> /\ LinkCut(mEv, d)
      BY <2>4 DEF LinkEvents, DonglePairFailed
    <3> QED BY <1>4, <1>6, <2>1, <2>2, <3>1
  <2>5. CASE e \in Kinds \union {"UP"} /\ ssapc_notification_cbk(e, d)
    <3>1. dEv' = d /\ lost' = lost /\ host' = (IF e = "UP" THEN {} ELSE host \union {e})
      BY <2>5 DEF ssapc_notification_cbk, HostSees
    <3>2. Ended(dEv) => Clears(host', dEv', Kinds, "UP")
      BY <2>2, <2>5, <3>1
    <3> QED BY <2>1, <3>1, <3>2 DEF Ends, Ended
  <2> QED BY <1>1, <1>13, <2>3, <2>4, <2>5, DongleCases DEF e, d
<1>14. CASE (\E c \in Chords \union {""} : keyscan_callback(c)) \/ key_hold_timer_callback
  BY <1>6, <1>14 DEF keyscan_callback, key_hold_timer_callback, link, dongle
<1> QED BY <1>5, <1>7, <1>8, <1>9, <1>10, <1>11, <1>12, <1>13, <1>14, <1>15, Frames
        DEF keys

-----------------------------------------------------------------------------
(* The theorems.                                                           *)

LEMMA Initially == Init => IInv
<1> SUFFICES ASSUME Init PROVE IInv
  OBVIOUS
<1>1. Types
  <2>1. KeyTypes
    <3>1. QueueLen \in Nat
      BY BoundAssumption
    <3>2. queue = <<>>
      BY DEF Init
    <3>3. queue \in Seq(Messages) /\ Len(queue) = 0
      BY <3>2, Empty
    <3>4. Len(queue) <= QueueLen
      BY <3>1, <3>3
    <3> QED BY <3>3, <3>4 DEF Init, KeyTypes
  <2>2. RadioTypes
    BY Empty, StoppingPlaces DEF Init, RadioTypes, Off, Radios
  <2>3. SearchTypes /\ LinkTypes
    BY Empty DEF Init, SearchTypes, LinkTypes
  <2> QED BY <2>1, <2>2, <2>3 DEF Types
<1>2. Silent /\ Blinks /\ Listens
  BY StoppingPlaces DEF Init, Silent, Blinks, Searching, Starting, StoppingOff, Light, Listens, Calls
<1>3. Seen /\ Ends
  BY Empty DEF Init, Seen, Told, Ends, Clears
<1> QED BY <1>1, <1>2, <1>3 DEF IInv

LEMMA Stepwise == IInv /\ [Next]_vars => IInv'
BY TypesStep, SilentStep, BlinksStep, ListensStep, SeenStep, EndsStep DEF IInv

LEMMA Invariance == Spec => []IInv
BY Initially, Stepwise, PTL DEF Spec

\* What is kept at both ends is in known states, and the queue holds at most QueueLen messages,
\* whatever the keypad, the radios and the link do.
THEOREM TypesCorrect == Spec => []TypeOK
<1>1. Types => TypeOK
  <2> SUFFICES ASSUME Types PROVE TypeOK
    OBVIOUS
  <2>1. \A i \in 1 .. Len(queue) : queue[i] \in Messages
    BY ElementOfSeq DEF Types, KeyTypes
  <2>2. /\ \A i \in 1 .. Len(slp.pend) : slp.pend[i] \in Reports
        /\ slp.st \in {"off", "on", "ranging", "paused", "asleep"}
    BY ElementOfSeq DEF Types, RadioTypes, Radios
  <2>3. \A i \in 1 .. Len(dEv) : dEv[i] \in Words
    BY ElementOfSeq DEF Types, LinkTypes
  <2>4. \A i \in 1 .. Len(mEv) : mEv[i] \in LinkEvents \union {"RESTART"}
    BY ElementOfSeq DEF Types, LinkTypes, MouseWords
  <2>5. /\ mic \in BOOLEAN /\ click \in BOOLEAN /\ pairTimer \in BOOLEAN /\ byKey \in BOOLEAN
        /\ pairStatus \in BOOLEAN /\ restart \in BOOLEAN /\ rcuSleep \in BOOLEAN
        /\ dozing \in BOOLEAN /\ awake \in BOOLEAN /\ air \in BOOLEAN /\ linked \in BOOLEAN
        /\ pairing \in BOOLEAN /\ paired \in BOOLEAN /\ pairedD \in BOOLEAN
        /\ missed \in BOOLEAN /\ lost \in BOOLEAN /\ unpaired \in BOOLEAN
        /\ crossed \in BOOLEAN /\ switched \in BOOLEAN /\ late \in BOOLEAN
    BY DEF Types, KeyTypes, RadioTypes, SearchTypes, LinkTypes
  <2>6. {mic, click, pairTimer, byKey, pairStatus, restart, rcuSleep, dozing, awake, air, linked,
         pairing, paired, pairedD, missed, lost, unpaired, crossed, switched, late} \subseteq BOOLEAN
    BY <2>5
  <2>7. /\ held \in Chords \union {""} /\ hold \in Combos \union {""}
        /\ Len(queue) <= QueueLen /\ down \subseteq {"keyboard", "left_key", "slp_pause"}
        /\ host \subseteq Kinds /\ led \in {"IDLE", "KEY", "PAIRING", "UNPAIRING"}
        /\ task \in {"ready", "unpair"} \union DOMAIN Then /\ sle \in Places
        /\ seek \in {"idle", "seeking", "stopping", "connecting"}
    BY PairCases DEF Types, KeyTypes, RadioTypes, SearchTypes, LinkTypes
  <2> QED BY <2>1, <2>2, <2>3, <2>4, <2>6, <2>7, Zenon DEF TypeOK, Messages
<1> QED BY <1>1, Invariance, PTL DEF IInv

\* After the unpairing chord the mouse stays off the air until it is told to pair, in every
\* order of the chord's two halves, the end of the link, its report and its announcement,
\* but one: the chord's second half comes between the report's test of the flag and the
\* announcement (crossed).
THEOREM UnpairedStaysSilent == Spec => []UnpairedIsSilent
<1>1. IInv => UnpairedIsSilent
  BY DEF IInv, Silent, UnpairedIsSilent
<1> QED BY <1>1, Invariance, PTL

\* A light that blinks for pairing is never left on: when nothing waits at the mouse, it
\* announces, is linked, or the pairing timer runs and will turn the light off.  The calls
\* of pair_start_func and pair_stop_func interleave as they may; where the one begins inside
\* the other so that the timer is lost and not the light (crossed), nothing is said.
THEOREM LightEnds == Spec => []LightMeansSearching
<1>1. IInv => LightMeansSearching
  <2> SUFFICES ASSUME Searching, mEv = <<>>, sle = "ready", Light PROVE air \/ linked \/ pairTimer
    BY DEF IInv, Blinks, Light, LightMeansSearching, MouseIdle
  <2>1. ~Has(mEv, "disc")
    BY Empty DEF Has
  <2> QED BY <2>1 DEF Searching
<1> QED BY <1>1, Invariance, PTL

\* However keys roll over each other, once the task has seen that none is down the microphone
\* is off, and once the reports are served the USB host sees no key down.
THEOREM KeysAreReleased == Spec => []KeysEnd
<1>1. IInv => KeysEnd
  <2> SUFFICES ASSUME Listens, Seen, Ends, held = "", queue = <<>>, ~missed
               PROVE  ~mic /\ ~click /\ (dEv = <<>> /\ ~lost => host = {})
    BY DEF IInv, KeysEnd, VoiceAndClickEnd, MouseIdle, Quiet
  <2>1. down = {}
    BY Empty DEF Seen, NoKeys
  <2>2. dEv = <<>> => ~Has(dEv, "UP")
    BY Empty DEF Has
  <2> QED BY <2>1, <2>2 DEF Listens, Ends, Clears
<1> QED BY <1>1, Invariance, PTL
=============================================================================
