--------------------------- MODULE OneToManyProofs --------------------------
(***************************************************************************)
(* Proofs about OneToMany, for every set of servers and every bound.       *)
(***************************************************************************)
EXTENDS OneToMany, SequenceTheorems, FiniteSetTheorems, TLAPS

\* What the client is told: a link's callback names a server it has sought.
Events == {c \in Callbacks : c.what # "seek disabled" => c.id \in Named}

\* No end of a seek is on its way.
NoSeekEnd(q) == \A i \in 1 .. Len(q) : q[i].what # "seek disabled"

\* The types of TypeOK, but for the queue's length; only servers of the name
\* are connected, and the address that is kept is one's once a seek is to end.
Kinds ==
  /\ num \in 0 .. Values - 1 /\ ids \in [0 .. MaxCon - 1 -> Servers \cup {0}]
  /\ remote \in Named \cup {0} /\ overrun \in BOOLEAN
  /\ enabled \in BOOLEAN /\ seeking \in BOOLEAN /\ stopping \in BOOLEAN
  /\ connecting \subseteq Named /\ link \subseteq Named /\ onair \subseteq Servers
  /\ cbs \in Seq(Events)
  /\ remote = 0 => ~stopping /\ NoSeekEnd(cbs)

ServerKinds ==
  /\ hdl \in [Servers -> Servers \cup {0}] /\ pair \in [Servers -> BOOLEAN]
  /\ msgs \in [Servers -> {0, 1}]
  /\ scbs \in [Servers -> Seq(Callbacks)]

Losses == leaves \in Nat /\ leaves <= MaxLeaves /\ fails \in Nat /\ fails <= MaxFails

\* The callbacks on their way to a server: what it has not been told of the
\* three of a link.
Made(s) == <<Cb("connected", s), Cb("paired", s)>>
Whole(s) == <<Cb("connected", s), Cb("paired", s), Cb("disconnected", s)>>
Paired(s) == <<Cb("paired", s)>>
PairedLost(s) == <<Cb("paired", s), Cb("disconnected", s)>>
Lost(s) == <<Cb("disconnected", s)>>

\* A server's handle and pairing are those of the callbacks it has served, and
\* the last callback tells of the link there is.
Told(s) ==
  /\ s \in link => scbs[s] \in {<<>>, Paired(s), Made(s)}
  /\ s \notin link => scbs[s] \in {<<>>, Lost(s), PairedLost(s), Whole(s)}
  /\ scbs[s] \in {Made(s), Whole(s)} => hdl[s] = 0 /\ ~pair[s]
  /\ scbs[s] \in {Paired(s), PairedLost(s)} => hdl[s] = s /\ ~pair[s]
  /\ scbs[s] = Lost(s) => hdl[s] = s /\ pair[s]
  /\ scbs[s] = <<>> /\ s \in link => hdl[s] = s /\ pair[s]
  /\ scbs[s] = <<>> /\ s \notin link => hdl[s] = 0 /\ ~pair[s]

\* The announcement, the message that asks for it, the callbacks of a link and
\* the link exclude each other, and one of them is there.
Turn(s) ==
  /\ s \in link \/ scbs[s] # <<>> => msgs[s] = 0 /\ s \notin onair
  /\ s \notin link /\ scbs[s] = <<>> => msgs[s] = IF s \in onair THEN 0 ELSE 1

\* On(q, L, i, s): for a client that has served the first i callbacks of q, with
\* the links L at the end, server s is linked.
Says(q, i, s, w) == q[i].what = w /\ q[i].id = s
Talks(q, i, s) == Says(q, i, s, "connected") \/ Says(q, i, s, "disconnected")
On(q, L, i, s) ==
  \/ s \in L /\ \A k \in i + 1 .. Len(q) : ~Talks(q, k, s)
  \/ \E j \in i + 1 .. Len(q) :
       Says(q, j, s, "disconnected") /\ \A k \in i + 1 .. j - 1 : ~Talks(q, k, s)

\* The callbacks about a server alternate.
Alternate(q, L) ==
  \A s \in Servers : \A i \in 1 .. Len(q) :
    /\ Says(q, i, s, "connected") => On(q, L, i, s)
    /\ Says(q, i, s, "disconnected") => ~On(q, L, i, s)

\* The links the client has been told of.
Known(q, L) == {s \in Servers : On(q, L, 0, s)}
K == Cardinality(Known(cbs, link))

Count(q, w) == Cardinality({i \in 1 .. Len(q) : q[i].what = w})

\* Callbacks on their way: ends of a seek, new links, losses, failures.
Ends == Count(cbs, "seek disabled")
Ups == Count(cbs, "connected")
Downs == Count(cbs, "disconnected")
Falls == Count(cbs, "failed")
Links == Cardinality(link)
Tries == Cardinality(connecting)

\* The known links are the links, but for those on their way.
Even == Alternate(cbs, link) /\ K + Ups = Links + Downs

\* The number counts the known links, less the failed attempts it was told of.
Wrap(n) == n % Values
Drift ==
  /\ Falls <= fails
  /\ ~overrun => Wrap(num + fails) = Wrap(K + Falls)
  /\ ~overrun /\ fails = 0 => num = K

Overran == overrun => fails > 0 \/ (leaves > 0 /\ Cardinality(Named) > MaxCon)

\* Before the first loss or failure one thing at a time is under way: a seek, its
\* end, an attempt or its success; the last three began with room in the table.
Seek == IF seeking THEN 1 ELSE 0
Begun == IF enabled THEN 1 ELSE 0
Pipeline ==
  leaves = 0 /\ fails = 0 =>
    /\ Seek + Ends + Tries + Ups <= Begun
    /\ stopping => seeking /\ num < MaxCon
    /\ Ends + Tries + Ups > 0 => num < MaxCon
    /\ Downs = 0 /\ Falls = 0

\* ... and the table has the known links, each once.
Table ==
  leaves = 0 /\ fails = 0 =>
    /\ ~overrun /\ num <= MaxCon
    /\ {ids[i] : i \in 0 .. num - 1} = Known(cbs, link)
    /\ \A i, j \in 0 .. num - 1 : ids[i] = ids[j] => i = j

IInv ==
  /\ Kinds /\ ServerKinds /\ Losses
  /\ \A s \in Servers : Told(s) /\ Turn(s)
  /\ Even /\ Drift /\ Overran /\ Pipeline /\ Table

-----------------------------------------------------------------------------
(* A server and its callbacks.                                             *)

\* The name of a callback tells it from the others.
LEMMA Names ==
  \A s : /\ Cb("connected", s).what = "connected" /\ Cb("connected", s).id = s
         /\ Cb("paired", s).what = "paired" /\ Cb("paired", s).id = s
         /\ Cb("disconnected", s).what = "disconnected" /\ Cb("disconnected", s).id = s
         /\ Cb("failed", s).what = "failed"
BY DEF Cb

\* What is left when the first callback is served.
LEMMA Rest ==
  \A s : /\ Head(Made(s)) = Cb("connected", s) /\ Tail(Made(s)) = Paired(s)
         /\ Head(Whole(s)) = Cb("connected", s) /\ Tail(Whole(s)) = PairedLost(s)
         /\ Head(Paired(s)) = Cb("paired", s) /\ Tail(Paired(s)) = <<>>
         /\ Head(PairedLost(s)) = Cb("paired", s) /\ Tail(PairedLost(s)) = Lost(s)
         /\ Head(Lost(s)) = Cb("disconnected", s) /\ Tail(Lost(s)) = <<>>
BY DEF Made, Whole, Paired, PairedLost, Lost

\* An element appended to a short queue.
LEMMA Short ==
  ASSUME NEW a, NEW b, NEW c
  PROVE  Append(<<a>>, b) = <<a, b>> /\ Append(<<a, b>>, c) = <<a, b, c>>
<1> DEFINE S == {a, b, c}
<1>1. <<a>> \in Seq(S) /\ <<a, b>> \in Seq(S) /\ <<a, b, c>> \in Seq(S)
  OBVIOUS
<1>2. /\ Len(<<a>>) = 1 /\ <<a>>[1] = a
      /\ Len(<<a, b>>) = 2 /\ <<a, b>>[1] = a /\ <<a, b>>[2] = b
      /\ Len(<<a, b, c>>) = 3 /\ <<a, b, c>>[1] = a /\ <<a, b, c>>[2] = b /\ <<a, b, c>>[3] = c
  OBVIOUS
<1>3. b \in S /\ c \in S
  OBVIOUS
<1> HIDE DEF S
<1>4. Append(<<a>>, b) = <<a, b>>
  <2> DEFINE t == Append(<<a>>, b)
  <2>1. t \in Seq(S) /\ Len(t) = 2 /\ t[1] = a /\ t[2] = b
    BY <1>1, <1>2, <1>3, AppendProperties
  <2> HIDE DEF t
  <2>2. t = <<a, b>>
    BY <2>1, <1>1, <1>2, SeqEqual
  <2> QED BY <2>2 DEF t
<1>5. Append(<<a, b>>, c) = <<a, b, c>>
  <2> DEFINE t == Append(<<a, b>>, c)
  <2>1. t \in Seq(S) /\ Len(t) = 3 /\ t[1] = a /\ t[2] = b /\ t[3] = c
    BY <1>1, <1>2, <1>3, AppendProperties
  <2> HIDE DEF t
  <2>2. t = <<a, b, c>>
    BY <2>1, <1>1, <1>2, SeqEqual
  <2> QED BY <2>2 DEF t
<1> QED BY <1>4, <1>5

\* What is there when a loss is reported.
LEMMA Grown ==
  \A s : /\ Append(<<>>, Cb("disconnected", s)) = Lost(s)
         /\ Append(Paired(s), Cb("disconnected", s)) = PairedLost(s)
         /\ Append(Made(s), Cb("disconnected", s)) = Whole(s)
         /\ <<>> \o <<Cb("connected", s), Cb("paired", s)>> = Made(s)
<1> TAKE s
<1>1. Append(<<>>, Cb("disconnected", s)) = Lost(s)
  BY DEF Lost
<1>2. Append(Paired(s), Cb("disconnected", s)) = PairedLost(s)
  BY Short DEF Paired, PairedLost
<1>3. Append(Made(s), Cb("disconnected", s)) = Whole(s)
  BY Short DEF Made, Whole
<1>4. <<>> \o <<Cb("connected", s), Cb("paired", s)>> = Made(s)
  BY DEF Made
<1> QED BY <1>1, <1>2, <1>3, <1>4

\* The queues differ.
LEMMA Differ ==
  \A s : /\ Made(s) \notin {<<>>, Whole(s), Paired(s), PairedLost(s), Lost(s)}
         /\ Whole(s) \notin {<<>>, Paired(s), PairedLost(s), Lost(s)}
         /\ Paired(s) \notin {<<>>, PairedLost(s), Lost(s)}
         /\ PairedLost(s) \notin {<<>>, Lost(s)} /\ Lost(s) # <<>>
<1> TAKE s
<1>1. /\ Len(Made(s)) = 2 /\ Len(Whole(s)) = 3 /\ Len(Paired(s)) = 1
      /\ Len(PairedLost(s)) = 2 /\ Len(Lost(s)) = 1
  BY DEF Made, Whole, Paired, PairedLost, Lost
<1>2. Made(s) # PairedLost(s) /\ Paired(s) # Lost(s)
  BY Rest, Names
<1>3. Len(<<>>) = 0
  OBVIOUS
<1>4. 0 # 1 /\ 0 # 2 /\ 0 # 3 /\ 1 # 2 /\ 1 # 3 /\ 2 # 3
  OBVIOUS
<1>5. Made(s) # <<>> /\ Whole(s) # <<>> /\ Paired(s) # <<>> /\ PairedLost(s) # <<>> /\ Lost(s) # <<>>
  BY <1>1, <1>3, <1>4
<1>6. Made(s) # Whole(s) /\ Made(s) # Paired(s) /\ Made(s) # Lost(s)
  BY <1>1, <1>4
<1>7. Whole(s) # Paired(s) /\ Whole(s) # PairedLost(s) /\ Whole(s) # Lost(s)
  BY <1>1, <1>4
<1>8. Paired(s) # PairedLost(s) /\ PairedLost(s) # Lost(s)
  BY <1>1, <1>4
<1> QED BY <1>2, <1>5, <1>6, <1>7, <1>8

\* A server whose part of the state does not change keeps what holds of it.
LEMMA Kept ==
  ASSUME NEW s \in Servers, Told(s), Turn(s),
         scbs'[s] = scbs[s], hdl'[s] = hdl[s], pair'[s] = pair[s], msgs'[s] = msgs[s],
         (s \in link' <=> s \in link), (s \in onair' <=> s \in onair)
  PROVE  Told(s)' /\ Turn(s)'
BY DEF Told, Turn

\* A server serves its callbacks and messages in turn.
LEMMA ServerStep ==
  ASSUME ServerKinds, NEW s \in Servers, Told(s), Turn(s), Server(s)
  PROVE  ServerKinds' /\ Told(s)' /\ Turn(s)'
<1> USE DEF ServerKinds, ServedBy
<1>1. CASE ServerConnected(s)
  <2>1. /\ scbs[s] # <<>> /\ Head(scbs[s]).what = "connected"
        /\ scbs' = [scbs EXCEPT ![s] = Tail(scbs[s])] /\ hdl' = [hdl EXCEPT ![s] = Head(scbs[s]).id]
        /\ UNCHANGED <<pair, msgs, link, onair>>
    BY <1>1 DEF ServerConnected
  <2>2. scbs[s] \in {Made(s), Whole(s)}
    BY <2>1, Rest, Names DEF Told
  <2>3. scbs'[s] = Tail(scbs[s]) /\ hdl'[s] = s
    BY <2>1, <2>2, Rest, Names
  <2>4. ServerKinds'
    BY <2>1, <2>2, Rest, Names, HeadTailProperties
  <2>5. CASE scbs[s] = Made(s)
    <3>1. scbs'[s] = Paired(s) /\ s \in link
      BY <2>3, <2>5, Rest, Differ DEF Told
    <3> QED BY <3>1, <2>1, <2>3, <2>4, <2>5, Differ DEF Told, Turn
  <2>6. CASE scbs[s] = Whole(s)
    <3>1. scbs'[s] = PairedLost(s) /\ s \notin link
      BY <2>3, <2>6, Rest, Differ DEF Told
    <3> QED BY <3>1, <2>1, <2>3, <2>4, <2>6, Differ DEF Told, Turn
  <2> QED BY <2>2, <2>5, <2>6
<1>2. CASE ServerPaired(s)
  <2>1. /\ scbs[s] # <<>> /\ Head(scbs[s]).what = "paired"
        /\ scbs' = [scbs EXCEPT ![s] = Tail(scbs[s])] /\ pair' = [pair EXCEPT ![s] = TRUE]
        /\ UNCHANGED <<hdl, msgs, link, onair>>
    BY <1>2 DEF ServerPaired
  <2>2. scbs[s] \in {Paired(s), PairedLost(s)}
    BY <2>1, Rest, Names DEF Told
  <2>3. scbs'[s] = Tail(scbs[s]) /\ pair'[s]
    BY <2>1
  <2>4. ServerKinds'
    BY <2>1, HeadTailProperties
  <2>5. CASE scbs[s] = Paired(s)
    <3>1. scbs'[s] = <<>> /\ s \in link
      BY <2>3, <2>5, Rest, Differ DEF Told
    <3> QED BY <3>1, <2>1, <2>3, <2>4, <2>5, Differ DEF Told, Turn
  <2>6. CASE scbs[s] = PairedLost(s)
    <3>1. scbs'[s] = Lost(s) /\ s \notin link
      BY <2>3, <2>6, Rest, Differ DEF Told
    <3> QED BY <3>1, <2>1, <2>3, <2>4, <2>6, Differ DEF Told, Turn
  <2> QED BY <2>2, <2>5, <2>6
<1>3. CASE ServerDisconnected(s)
  <2>1. /\ scbs[s] # <<>> /\ Head(scbs[s]).what = "disconnected"
        /\ scbs' = [scbs EXCEPT ![s] = Tail(scbs[s])]
        /\ hdl' = [hdl EXCEPT ![s] = 0] /\ pair' = [pair EXCEPT ![s] = FALSE]
        /\ msgs' = [msgs EXCEPT ![s] = IF msgs[s] < QueueLen THEN msgs[s] + 1 ELSE msgs[s]]
        /\ UNCHANGED <<link, onair>>
    BY <1>3 DEF ServerDisconnected
  <2>2. scbs[s] = Lost(s)
    BY <2>1, Rest, Names DEF Told
  <2>3. scbs'[s] = <<>> /\ s \notin link /\ s \notin onair /\ msgs[s] = 0
    BY <2>1, <2>2, Rest, Differ DEF Told, Turn
  <2>6. 0 < QueueLen /\ 0 + 1 = 1
    BY BoundAssumption DEF BoundAssumption
  <2>4. msgs' = [msgs EXCEPT ![s] = 1]
    BY <2>1, <2>3, <2>6
  <2>5. ServerKinds'
    BY <2>1, <2>4, HeadTailProperties
  <2> QED BY <2>1, <2>3, <2>4, <2>5, Differ DEF Told, Turn
<1>4. CASE ServerTask(s)
  <2>1. /\ msgs[s] > 0 /\ msgs' = [msgs EXCEPT ![s] = msgs[s] - 1] /\ onair' = onair \cup {s}
        /\ UNCHANGED <<hdl, pair, link, scbs>>
    BY <1>4 DEF ServerTask
  <2>2. msgs[s] = 1 /\ s \notin link /\ scbs[s] = <<>>
    BY <2>1 DEF Turn
  <2>3. msgs' = [msgs EXCEPT ![s] = 0]
    BY <2>1, <2>2
  <2> QED BY <2>1, <2>2, <2>3, Differ DEF Told, Turn
<1> QED BY <1>1, <1>2, <1>3, <1>4 DEF Server

\* A link is made for a server that has been told of the last one's loss.
LEMMA LinkMade ==
  ASSUME ServerKinds, NEW s \in Servers, Told(s), Turn(s), StackConnect(s)
  PROVE  ServerKinds' /\ Told(s)' /\ Turn(s)' /\ s \notin link
<1> USE DEF ServerKinds
<1>1. /\ s \in onair /\ link' = link \cup {s} /\ onair' = onair \ {s}
      /\ scbs' = [scbs EXCEPT ![s] = scbs[s] \o <<Cb("connected", s), Cb("paired", s)>>]
      /\ UNCHANGED <<hdl, pair, msgs>>
  BY DEF StackConnect, server
<1>2. s \notin link /\ scbs[s] = <<>> /\ msgs[s] = 0
  BY <1>1 DEF Turn
<1>3. scbs'[s] = Made(s) /\ scbs' = [scbs EXCEPT ![s] = Made(s)]
  BY <1>1, <1>2, Grown
<1>4. Made(s) \in Seq(Callbacks)
  <2>1. Cb("connected", s) \in Callbacks /\ Cb("paired", s) \in Callbacks
    BY DEF Cb, Callbacks, What
  <2> QED BY <2>1 DEF Made
<1>5. ServerKinds'
  BY <1>1, <1>3, <1>4
<1>6. hdl[s] = 0 /\ ~pair[s]
  BY <1>2 DEF Told
<1>7. s \in link' /\ s \notin onair'
  BY <1>1
<1> QED BY <1>1, <1>2, <1>3, <1>5, <1>6, <1>7, Differ DEF Told, Turn

\* A link is lost, before or after the server has been told that it was made.
LEMMA LinkLost ==
  ASSUME ServerKinds, NEW s \in Servers, Told(s), Turn(s), StackDisconnect(s)
  PROVE  ServerKinds' /\ Told(s)' /\ Turn(s)'
<1> USE DEF ServerKinds
<1>1. /\ s \in link /\ link' = link \ {s}
      /\ scbs' = [scbs EXCEPT ![s] = Append(scbs[s], Cb("disconnected", s))]
      /\ UNCHANGED <<hdl, pair, msgs, onair>>
  BY DEF StackDisconnect, server
<1>2. s \notin link' /\ msgs[s] = 0 /\ s \notin onair
  BY <1>1 DEF Turn
<1>3. scbs[s] \in {<<>>, Paired(s), Made(s)} /\ scbs'[s] = Append(scbs[s], Cb("disconnected", s))
  BY <1>1 DEF Told
<1>4. Cb("disconnected", s) \in Callbacks
  BY DEF Cb, Callbacks, What
<1>5. ServerKinds'
  BY <1>1, <1>4, AppendProperties
<1>6. CASE scbs[s] = <<>>
  <2>1. scbs'[s] = Lost(s) /\ hdl[s] = s /\ pair[s]
    BY <1>1, <1>3, <1>6, Grown DEF Told
  <2> QED BY <1>1, <1>2, <1>5, <2>1, Differ DEF Told, Turn
<1>7. CASE scbs[s] = Paired(s)
  <2>1. scbs'[s] = PairedLost(s) /\ hdl[s] = s /\ ~pair[s]
    BY <1>3, <1>7, Grown DEF Told
  <2> QED BY <1>1, <1>2, <1>5, <2>1, Differ DEF Told, Turn
<1>8. CASE scbs[s] = Made(s)
  <2>1. scbs'[s] = Whole(s) /\ hdl[s] = 0 /\ ~pair[s]
    BY <1>3, <1>8, Grown DEF Told
  <2> QED BY <1>1, <1>2, <1>5, <2>1, Differ DEF Told, Turn
<1> QED BY <1>3, <1>6, <1>7, <1>8

\* Every action keeps what holds of every server.
LEMMA ServersStep ==
  ASSUME ServerKinds, \A s \in Servers : Told(s) /\ Turn(s), [Next]_vars
  PROVE  ServerKinds' /\ \A s \in Servers : Told(s)' /\ Turn(s)'
<1>1. ASSUME NEW s \in Servers, Server(s) PROVE ServerKinds' /\ \A t \in Servers : Told(t)' /\ Turn(t)'
  <2>1. ServerKinds' /\ Told(s)' /\ Turn(s)'
    BY <1>1, ServerStep
  <2>2. ASSUME NEW t \in Servers, t # s
        PROVE  /\ scbs'[t] = scbs[t] /\ hdl'[t] = hdl[t] /\ pair'[t] = pair[t] /\ msgs'[t] = msgs[t]
               /\ (t \in link' <=> t \in link) /\ (t \in onair' <=> t \in onair)
    BY <1>1, <2>2 DEF ServerKinds, Server, ServerConnected, ServerPaired, ServerDisconnected, ServerTask,
       ServedBy
  <2>3. ASSUME NEW t \in Servers, t # s PROVE Told(t)' /\ Turn(t)'
    BY <2>2, <2>3, Kept
  <2> QED BY <2>1, <2>3
<1>2. ASSUME NEW s \in Servers, StackConnect(s) \/ StackDisconnect(s)
      PROVE  ServerKinds' /\ \A t \in Servers : Told(t)' /\ Turn(t)'
  <2>1. ServerKinds' /\ Told(s)' /\ Turn(s)'
    BY <1>2, LinkMade, LinkLost
  <2>2. ASSUME NEW t \in Servers, t # s
        PROVE  /\ scbs'[t] = scbs[t] /\ hdl'[t] = hdl[t] /\ pair'[t] = pair[t] /\ msgs'[t] = msgs[t]
               /\ (t \in link' <=> t \in link) /\ (t \in onair' <=> t \in onair)
    BY <1>2, <2>2 DEF ServerKinds, StackConnect, StackDisconnect, server
  <2>3. ASSUME NEW t \in Servers, t # s PROVE Told(t)' /\ Turn(t)'
    BY <2>2, <2>3, Kept
  <2> QED BY <2>1, <2>3
<1>3. CASE UNCHANGED <<hdl, pair, msgs, link, onair, scbs>>
  <2>1. ServerKinds'
    BY <1>3 DEF ServerKinds
  <2> QED BY <1>3, <2>1, Kept
<1>4. Client \/ StackSeekStop \/ UNCHANGED vars => UNCHANGED <<hdl, pair, msgs, link, onair, scbs>>
  BY DEF Client, EnableCbk, SeekDisabled, Connected, PairComplete, Disconnected, StackSeekStop,
     Parted, Served, client, server, stack, vars
<1>5. ASSUME NEW s \in Servers, SeekResult(s) PROVE UNCHANGED <<hdl, pair, msgs, link, onair, scbs>>
  BY <1>5 DEF SeekResult, server
<1>6. ASSUME NEW s \in Servers, StackConnectFails(s)
      PROVE  UNCHANGED <<hdl, pair, msgs, link, onair, scbs>>
  BY <1>6 DEF StackConnectFails, server
<1> QED BY <1>1, <1>2, <1>3, <1>4, <1>5, <1>6 DEF Next

-----------------------------------------------------------------------------
(* What the client has been told.                                          *)

\* A queue whose first element is taken is the same queue, one on.
LEMMA OneOn ==
  ASSUME NEW q \in Seq(Events), q # <<>>
  PROVE  /\ Len(q) \in Nat /\ Len(q) >= 1 /\ Len(Tail(q)) = Len(q) - 1
         /\ Tail(q) \in Seq(Events) /\ Head(q) = q[1] /\ q[1] \in Events
         /\ \A i \in 1 .. Len(q) - 1 : Tail(q)[i] = q[i + 1]
BY HeadTailProperties, LenProperties, EmptySeq

LEMMA OnTail ==
  ASSUME NEW q \in Seq(Events), q # <<>>, NEW L, NEW i \in 0 .. Len(q) - 1, NEW s
  PROVE  On(Tail(q), L, i, s) <=> On(q, L, i + 1, s)
<1> DEFINE r == Tail(q)
<1>1. /\ Len(q) \in Nat /\ Len(q) >= 1 /\ Len(r) = Len(q) - 1
      /\ \A k \in 1 .. Len(q) - 1 : r[k] = q[k + 1]
  BY OneOn
<1> HIDE DEF r
<1>2. \A k \in 1 .. Len(q) - 1 : /\ Talks(r, k, s) <=> Talks(q, k + 1, s)
                                 /\ Says(r, k, s, "disconnected") <=> Says(q, k + 1, s, "disconnected")
  BY <1>1 DEF Talks, Says
<1>3. ASSUME NEW a \in 1 .. Len(q), NEW b \in 0 .. Len(q) - 1
      PROVE  (\A k \in a .. b : ~Talks(r, k, s)) <=> (\A k \in a + 1 .. b + 1 : ~Talks(q, k, s))
  <2>1. ASSUME \A k \in a .. b : ~Talks(r, k, s), NEW k \in a + 1 .. b + 1 PROVE ~Talks(q, k, s)
    <3>1. k - 1 \in a .. b /\ k - 1 \in 1 .. Len(q) - 1 /\ (k - 1) + 1 = k
      BY <1>1
    <3> QED BY <3>1, <2>1, <1>2
  <2>2. ASSUME \A k \in a + 1 .. b + 1 : ~Talks(q, k, s), NEW k \in a .. b PROVE ~Talks(r, k, s)
    <3>1. k + 1 \in a + 1 .. b + 1 /\ k \in 1 .. Len(q) - 1
      BY <1>1
    <3> QED BY <3>1, <2>2, <1>2
  <2> QED BY <2>1, <2>2
<1>4. On(r, L, i, s) => On(q, L, i + 1, s)
  <2>1. CASE s \in L /\ \A k \in i + 1 .. Len(r) : ~Talks(r, k, s)
    <3>1. i + 1 \in 1 .. Len(q) /\ Len(r) \in 0 .. Len(q) - 1 /\ Len(r) + 1 = Len(q)
      BY <1>1
    <3>2. \A k \in (i + 1) + 1 .. Len(q) : ~Talks(q, k, s)
      BY <2>1, <3>1, <1>3
    <3> QED BY <2>1, <3>2 DEF On
  <2>2. ASSUME NEW j \in i + 1 .. Len(r), Says(r, j, s, "disconnected"),
               \A k \in i + 1 .. j - 1 : ~Talks(r, k, s)
        PROVE  On(q, L, i + 1, s)
    <3>1. /\ i + 1 \in 1 .. Len(q) /\ j - 1 \in 0 .. Len(q) - 1 /\ (j - 1) + 1 = (j + 1) - 1
          /\ j \in 1 .. Len(q) - 1 /\ j + 1 \in (i + 1) + 1 .. Len(q)
      BY <1>1
    <3>2. \A k \in (i + 1) + 1 .. (j + 1) - 1 : ~Talks(q, k, s)
      BY <2>2, <3>1, <1>3
    <3>3. Says(q, j + 1, s, "disconnected")
      BY <2>2, <3>1, <1>2
    <3> QED BY <3>1, <3>2, <3>3 DEF On
  <2> QED BY <2>1, <2>2 DEF On
<1>5. On(q, L, i + 1, s) => On(r, L, i, s)
  <2>1. CASE s \in L /\ \A k \in (i + 1) + 1 .. Len(q) : ~Talks(q, k, s)
    <3>1. i + 1 \in 1 .. Len(q) /\ Len(r) \in 0 .. Len(q) - 1 /\ Len(r) + 1 = Len(q)
      BY <1>1
    <3>2. \A k \in i + 1 .. Len(r) : ~Talks(r, k, s)
      BY <2>1, <3>1, <1>3
    <3> QED BY <2>1, <3>2 DEF On
  <2>2. ASSUME NEW j \in (i + 1) + 1 .. Len(q), Says(q, j, s, "disconnected"),
               \A k \in (i + 1) + 1 .. j - 1 : ~Talks(q, k, s)
        PROVE  On(r, L, i, s)
    <3>1. /\ i + 1 \in 1 .. Len(q) /\ j - 2 \in 0 .. Len(q) - 1 /\ (j - 2) + 1 = j - 1
          /\ j - 1 \in 1 .. Len(q) - 1 /\ (j - 1) + 1 = j /\ (j - 1) - 1 = j - 2
          /\ j - 1 \in i + 1 .. Len(r)
      BY <1>1
    <3>2. \A k \in i + 1 .. (j - 1) - 1 : ~Talks(r, k, s)
      BY <2>2, <3>1, <1>3
    <3>3. Says(r, j - 1, s, "disconnected")
      BY <2>2, <3>1, <1>2
    <3> QED BY <3>1, <3>2, <3>3 DEF On
  <2> QED BY <2>1, <2>2 DEF On
<1> QED BY <1>4, <1>5 DEF r

\* The first callback decides, if it is about the server.
LEMMA OnHead ==
  ASSUME NEW q \in Seq(Events), q # <<>>, NEW L, NEW s
  PROVE  /\ Says(q, 1, s, "disconnected") => On(q, L, 0, s)
         /\ Says(q, 1, s, "connected") => ~On(q, L, 0, s)
         /\ ~Talks(q, 1, s) => (On(q, L, 0, s) <=> On(q, L, 1, s))
<1>1. Len(q) \in Nat /\ Len(q) >= 1
  BY OneOn
<1>2. ASSUME Says(q, 1, s, "disconnected") PROVE On(q, L, 0, s)
  <2>1. 1 \in 0 + 1 .. Len(q) /\ \A k \in 0 + 1 .. 1 - 1 : ~Talks(q, k, s)
    BY <1>1
  <2> QED BY <1>2, <2>1 DEF On
<1>3. ASSUME Says(q, 1, s, "connected"), On(q, L, 0, s) PROVE FALSE
  <2>1. Talks(q, 1, s) /\ 1 \in 0 + 1 .. Len(q) /\ ~Says(q, 1, s, "disconnected")
    BY <1>1, <1>3 DEF Talks, Says
  <2>2. PICK j \in 0 + 1 .. Len(q) :
          Says(q, j, s, "disconnected") /\ \A k \in 0 + 1 .. j - 1 : ~Talks(q, k, s)
    BY <2>1, <1>3 DEF On
  <2>3. j # 1
    BY <2>1, <2>2
  <2>4. 1 \in 0 + 1 .. j - 1
    BY <2>3, <1>1
  <2> QED BY <2>1, <2>2, <2>4
<1>4. ASSUME ~Talks(q, 1, s) PROVE On(q, L, 0, s) <=> On(q, L, 1, s)
  <2>1. ASSUME NEW b \in 0 .. Len(q)
        PROVE  (\A k \in 0 + 1 .. b : ~Talks(q, k, s)) <=> (\A k \in 1 + 1 .. b : ~Talks(q, k, s))
    <3>1. \A k \in 0 + 1 .. b : k = 1 \/ k \in 1 + 1 .. b
      BY <1>1
    <3>2. \A k \in 1 + 1 .. b : k \in 0 + 1 .. b
      BY <1>1
    <3> QED BY <3>1, <3>2, <1>4
  <2>2. Len(q) \in 0 .. Len(q) /\ \A j \in 0 + 1 .. Len(q) : j - 1 \in 0 .. Len(q)
    BY <1>1
  <2>3. \A j \in 0 + 1 .. Len(q) : j = 1 \/ j \in 1 + 1 .. Len(q)
    BY <1>1
  <2>4. \A j \in 1 + 1 .. Len(q) : j \in 0 + 1 .. Len(q)
    BY <1>1
  <2>5. ~Says(q, 1, s, "disconnected")
    BY <1>4 DEF Talks
  <2> QED BY <2>1, <2>2, <2>3, <2>4, <2>5 DEF On
<1> QED BY <1>2, <1>3, <1>4

\* The link after the callback e, which reports what became of it.
Fits(e, L, M) ==
  \A s \in Servers :
    /\ e = Cb("connected", s) => s \notin L /\ s \in M
    /\ e = Cb("disconnected", s) => s \in L /\ s \notin M
    /\ e # Cb("connected", s) /\ e # Cb("disconnected", s) => (s \in L <=> s \in M)

\* What a callback says is what it is.
LEMMA SaysCb ==
  ASSUME NEW q \in Seq(Events), NEW i \in 1 .. Len(q), NEW s
  PROVE  /\ Says(q, i, s, "connected") <=> q[i] = Cb("connected", s)
         /\ Says(q, i, s, "disconnected") <=> q[i] = Cb("disconnected", s)
<1>1. q[i] \in Events
  OBVIOUS
<1>2. q[i] \in Callbacks
  BY <1>1 DEF Events
<1> QED BY <1>2 DEF Says, Cb, Callbacks

\* A callback that fits changes nothing for who has not served it.
LEMMA OnAppend ==
  ASSUME NEW q \in Seq(Events), NEW e \in Events, NEW L, NEW M, Fits(e, L, M), NEW s \in Servers
  PROVE  /\ \A i \in 0 .. Len(q) : On(Append(q, e), M, i, s) <=> On(q, L, i, s)
         /\ e = Cb("connected", s) => On(Append(q, e), M, Len(q) + 1, s)
         /\ e = Cb("disconnected", s) => ~On(Append(q, e), M, Len(q) + 1, s)
<1> DEFINE r == Append(q, e)
           n == Len(q)
<1>1. /\ n \in Nat /\ r \in Seq(Events) /\ Len(r) = n + 1 /\ r[n + 1] = e
      /\ \A k \in 1 .. n : r[k] = q[k]
  BY AppendProperties, LenProperties
<1> HIDE DEF r, n
<1>2. \A k \in 1 .. n : /\ Talks(r, k, s) <=> Talks(q, k, s)
                        /\ Says(r, k, s, "disconnected") <=> Says(q, k, s, "disconnected")
  BY <1>1 DEF Talks, Says
<1>e. /\ Says(r, n + 1, s, "connected") <=> e = Cb("connected", s)
      /\ Says(r, n + 1, s, "disconnected") <=> e = Cb("disconnected", s)
  <2>1. n + 1 \in 1 .. Len(r)
    BY <1>1
  <2> QED BY <2>1, <1>1, SaysCb
<1>3. ASSUME NEW i \in 0 .. n PROVE On(r, M, i, s) <=> On(q, L, i, s)
  <2> DEFINE Quiet == \A k \in i + 1 .. n : ~Talks(q, k, s)
             Leaves == \E j \in i + 1 .. n :
                       Says(q, j, s, "disconnected") /\ \A k \in i + 1 .. j - 1 : ~Talks(q, k, s)
  <2>1. \A k : k \in i + 1 .. n + 1 <=> k \in i + 1 .. n \/ k = n + 1
    BY <1>1
  <2>2. \A k \in i + 1 .. n : k \in 1 .. n
    BY <1>1
  <2>3. (\A k \in i + 1 .. n + 1 : ~Talks(r, k, s)) <=> Quiet /\ ~Talks(r, n + 1, s)
    BY <2>1, <2>2, <1>2
  <2>4. \A j \in i + 1 .. n : \A k \in i + 1 .. j - 1 : k \in 1 .. n
    BY <1>1
  <2>5. (n + 1) - 1 = n
    BY <1>1
  <2>6. (\E j \in i + 1 .. n + 1 :
           Says(r, j, s, "disconnected") /\ \A k \in i + 1 .. j - 1 : ~Talks(r, k, s))
        <=> Leaves \/ (Says(r, n + 1, s, "disconnected") /\ Quiet)
    BY <2>1, <2>2, <2>4, <2>5, <1>2
  <2>7. On(r, M, i, s) <=> \/ s \in M /\ Quiet /\ ~Talks(r, n + 1, s)
                           \/ Leaves \/ (Says(r, n + 1, s, "disconnected") /\ Quiet)
    BY <2>3, <2>6, <1>1 DEF On
  <2>8. On(q, L, i, s) <=> (s \in L /\ Quiet) \/ Leaves
    BY DEF On, n
  <2> HIDE DEF Quiet, Leaves
  <2>9. Cb("connected", s) # Cb("disconnected", s)
    BY Names
  <2> QED BY <2>7, <2>8, <2>9, <1>e DEF Talks, Fits
<1>4. ASSUME e = Cb("connected", s) PROVE On(r, M, n + 1, s)
  <2>1. \A k \in (n + 1) + 1 .. Len(r) : ~Talks(r, k, s)
    BY <1>1
  <2> QED BY <2>1, <1>4 DEF On, Fits
<1>5. ASSUME e = Cb("disconnected", s) PROVE ~On(r, M, n + 1, s)
  <2>1. \A j \in (n + 1) + 1 .. Len(r) : FALSE
    BY <1>1
  <2> QED BY <2>1, <1>5 DEF On, Fits
<1> QED BY <1>3, <1>4, <1>5 DEF r, n

\* A callback that fits keeps the callbacks alternating, and what is known.
LEMMA Reported ==
  ASSUME NEW q \in Seq(Events), NEW e \in Events, NEW L, NEW M, Fits(e, L, M), Alternate(q, L)
  PROVE  Alternate(Append(q, e), M) /\ Known(Append(q, e), M) = Known(q, L)
<1> DEFINE r == Append(q, e)
<1>1. /\ Len(q) \in Nat /\ r \in Seq(Events) /\ Len(r) = Len(q) + 1 /\ r[Len(q) + 1] = e
      /\ \A k \in 1 .. Len(q) : r[k] = q[k]
  BY AppendProperties, LenProperties
<1>2. ASSUME NEW s \in Servers, NEW i \in 1 .. Len(r)
      PROVE  /\ Says(r, i, s, "connected") => On(r, M, i, s)
             /\ Says(r, i, s, "disconnected") => ~On(r, M, i, s)
  <2>1. CASE i \in 1 .. Len(q)
    <3>1. i \in 0 .. Len(q)
      BY <1>1, <2>1
    <3>2. On(r, M, i, s) <=> On(q, L, i, s)
      BY <3>1, OnAppend
    <3>3. \A w : Says(r, i, s, w) <=> Says(q, i, s, w)
      BY <2>1, <1>1 DEF Says
    <3> QED BY <3>2, <3>3, <2>1 DEF Alternate
  <2>2. CASE i = Len(q) + 1
    <3>1. /\ Says(r, i, s, "connected") => e = Cb("connected", s)
          /\ Says(r, i, s, "disconnected") => e = Cb("disconnected", s)
      BY <2>2, <1>1, SaysCb
    <3> QED BY <3>1, <2>2, OnAppend
  <2> QED BY <2>1, <2>2, <1>1
<1>3. \A s \in Servers : On(r, M, 0, s) <=> On(q, L, 0, s)
  <2>1. 0 \in 0 .. Len(q)
    BY <1>1
  <2> QED BY <2>1, OnAppend
<1> HIDE DEF r
<1>4. Alternate(r, M) /\ Known(r, M) = Known(q, L)
  BY <1>2, <1>3 DEF Alternate, Known
<1> QED BY <1>4 DEF r

\* Serving a callback keeps the rest alternating and tells the client of a link.
LEMMA ServedOne ==
  ASSUME NEW q \in Seq(Events), q # <<>>, NEW L, Alternate(q, L)
  PROVE  /\ Alternate(Tail(q), L)
         /\ \A s \in Servers : Head(q) = Cb("connected", s) =>
              s \notin Known(q, L) /\ Known(Tail(q), L) = Known(q, L) \cup {s}
         /\ \A s \in Servers : Head(q) = Cb("disconnected", s) =>
              s \in Known(q, L) /\ Known(Tail(q), L) = Known(q, L) \ {s}
         /\ Head(q).what \notin {"connected", "disconnected"} => Known(Tail(q), L) = Known(q, L)
<1> DEFINE r == Tail(q)
<1>1. /\ Len(q) \in Nat /\ Len(q) >= 1 /\ Len(r) = Len(q) - 1 /\ r \in Seq(Events)
      /\ Head(q) = q[1] /\ q[1] \in Events
      /\ \A k \in 1 .. Len(q) - 1 : r[k] = q[k + 1]
  BY OneOn
<1>2. ASSUME NEW s \in Servers, NEW i \in 1 .. Len(r)
      PROVE  /\ Says(r, i, s, "connected") => On(r, L, i, s)
             /\ Says(r, i, s, "disconnected") => ~On(r, L, i, s)
  <2>1. i \in 0 .. Len(q) - 1 /\ i \in 1 .. Len(q) - 1 /\ i + 1 \in 1 .. Len(q)
    BY <1>1
  <2>2. On(r, L, i, s) <=> On(q, L, i + 1, s)
    BY <2>1, OnTail
  <2>3. \A w : Says(r, i, s, w) <=> Says(q, i + 1, s, w)
    BY <2>1, <1>1 DEF Says
  <2> QED BY <2>1, <2>2, <2>3 DEF Alternate
<1>3. \A s : On(r, L, 0, s) <=> On(q, L, 1, s)
  <2>1. 0 \in 0 .. Len(q) - 1 /\ 0 + 1 = 1
    BY <1>1
  <2> QED BY <2>1, OnTail
<1>4. \A s : /\ Says(q, 1, s, "disconnected") => On(q, L, 0, s)
             /\ Says(q, 1, s, "connected") => ~On(q, L, 0, s)
             /\ ~Talks(q, 1, s) => (On(q, L, 0, s) <=> On(q, L, 1, s))
  BY OnHead
<1>5. 1 \in 1 .. Len(q)
  BY <1>1
<1>6. \A s \in Servers : /\ Says(q, 1, s, "connected") => On(q, L, 1, s)
                         /\ Says(q, 1, s, "disconnected") => ~On(q, L, 1, s)
  BY <1>5 DEF Alternate
<1> HIDE DEF r
<1>7. ASSUME NEW s \in Servers, q[1] = Cb("connected", s)
      PROVE  s \notin Known(q, L) /\ Known(r, L) = Known(q, L) \cup {s}
  <2>1. Says(q, 1, s, "connected") /\ \A t : t # s => ~Talks(q, 1, t)
    BY <1>7 DEF Says, Talks, Cb
  <2> QED BY <2>1, <1>3, <1>4, <1>6 DEF Known
<1>8. ASSUME NEW s \in Servers, q[1] = Cb("disconnected", s)
      PROVE  s \in Known(q, L) /\ Known(r, L) = Known(q, L) \ {s}
  <2>1. Says(q, 1, s, "disconnected") /\ \A t : t # s => ~Talks(q, 1, t)
    BY <1>8 DEF Says, Talks, Cb
  <2> QED BY <2>1, <1>3, <1>4, <1>6 DEF Known
<1>9. ASSUME q[1].what \notin {"connected", "disconnected"} PROVE Known(r, L) = Known(q, L)
  <2>1. \A t : ~Talks(q, 1, t)
    BY <1>9 DEF Says, Talks
  <2> QED BY <2>1, <1>3, <1>4 DEF Known
<1>10. Alternate(r, L)
  BY <1>2 DEF Alternate
<1> QED BY <1>1, <1>7, <1>8, <1>9, <1>10 DEF r

-----------------------------------------------------------------------------
(* How many callbacks of a kind are on their way.                          *)

\* There are finitely many.
LEMMA CountType ==
  ASSUME NEW q \in Seq(Events), NEW w
  PROVE  IsFiniteSet({i \in 1 .. Len(q) : q[i].what = w}) /\ Count(q, w) \in Nat
<1>1. IsFiniteSet(1 .. Len(q))
  BY LenProperties, FS_Interval
<1>2. {i \in 1 .. Len(q) : q[i].what = w} \in SUBSET (1 .. Len(q))
  OBVIOUS
<1> QED BY <1>1, <1>2, FS_Subset, FS_CardinalityType DEF Count

\* One that is appended counts.
LEMMA CountAppend ==
  ASSUME NEW q \in Seq(Events), NEW e \in Events, NEW w
  PROVE  Count(Append(q, e), w) = IF e.what = w THEN Count(q, w) + 1 ELSE Count(q, w)
<1> DEFINE r == Append(q, e)
           A == {i \in 1 .. Len(q) : q[i].what = w}
           B == {i \in 1 .. Len(r) : r[i].what = w}
<1>1. /\ Len(q) \in Nat /\ Len(r) = Len(q) + 1 /\ r[Len(q) + 1] = e
      /\ \A k \in 1 .. Len(q) : r[k] = q[k]
  BY AppendProperties, LenProperties
<1>2. IsFiniteSet(A)
  BY CountType
<1> HIDE DEF r
<1>3. \A i : i \in 1 .. Len(r) <=> i \in 1 .. Len(q) \/ i = Len(q) + 1
  BY <1>1
<1>4. Len(q) + 1 \notin A
  BY <1>1
<1>5. CASE e.what = w
  <2>1. B = A \cup {Len(q) + 1}
    BY <1>1, <1>3, <1>5
  <2>2. Cardinality(B) = Cardinality(A) + 1
    BY <2>1, <1>2, <1>4, FS_AddElement
  <2> QED BY <2>2, <1>5 DEF Count, r
<1>6. CASE e.what # w
  <2>1. B = A
    BY <1>1, <1>3, <1>6
  <2> QED BY <2>1, <1>6 DEF Count, r
<1> QED BY <1>5, <1>6

\* One that is served does not count any more.
LEMMA CountTail ==
  ASSUME NEW q \in Seq(Events), q # <<>>, NEW w
  PROVE  Count(Tail(q), w) = IF Head(q).what = w THEN Count(q, w) - 1 ELSE Count(q, w)
<1> DEFINE r == Tail(q)
           A == {i \in 1 .. Len(q) : q[i].what = w}
           B == {i \in 1 .. Len(r) : r[i].what = w}
           f == [i \in A \ {1} |-> i - 1]
<1>1. /\ Len(q) \in Nat /\ Len(q) >= 1 /\ Len(r) = Len(q) - 1 /\ Head(q) = q[1]
      /\ \A k \in 1 .. Len(q) - 1 : r[k] = q[k + 1]
  BY OneOn
<1>a. IsFiniteSet(A)
  BY CountType
<1>b. IsFiniteSet(A \ {1})
  BY <1>a, FS_RemoveElement
<1>2. IsFiniteSet(A) /\ IsFiniteSet(A \ {1})
  BY <1>a, <1>b
<1> HIDE DEF r
<1>3. Cardinality(A \ {1}) = IF 1 \in A THEN Cardinality(A) - 1 ELSE Cardinality(A)
  BY <1>2, FS_RemoveElement
<1>4. ExistsBijection(A \ {1}, B)
  <2>1. \A i \in A \ {1} : i - 1 \in B
    BY <1>1
  <2>2. \A i \in B : i + 1 \in A \ {1} /\ (i + 1) - 1 = i
    BY <1>1
  <2>3. \A i, j \in A \ {1} : i - 1 = j - 1 => i = j
    BY <1>1
  <2>4. f \in Bijection(A \ {1}, B)
    BY <2>1, <2>2, <2>3 DEF Bijection, Injection, Surjection, IsInjective
  <2> QED BY <2>4 DEF ExistsBijection
<1>5. Cardinality(B) = Cardinality(A \ {1})
  BY <1>2, <1>4, FS_Bijection
<1>6. 1 \in A <=> Head(q).what = w
  BY <1>1
<1> QED BY <1>3, <1>5, <1>6 DEF Count, r

-----------------------------------------------------------------------------
(* The client.                                                             *)

\* A link that is known is one of a server that bears the name.
LEMMA KnownNamed ==
  ASSUME NEW q \in Seq(Events), NEW L, L \subseteq Named
  PROVE  Known(q, L) \subseteq Named
<1> SUFFICES ASSUME NEW s \in Servers, On(q, L, 0, s) PROVE s \in Named
  BY DEF Known
<1>1. CASE s \in L
  BY <1>1
<1>2. ASSUME NEW j \in 0 + 1 .. Len(q), Says(q, j, s, "disconnected") PROVE s \in Named
  <2>1. j \in 1 .. Len(q)
    BY LenProperties
  <2>2. q[j] \in Events
    BY <2>1
  <2> QED BY <2>2, <1>2 DEF Says, Events
<1> QED BY <1>1, <1>2 DEF On

\* There are finitely many servers, links, attempts, known links and callbacks.
LEMMA Finite ==
  ASSUME Kinds
  PROVE  /\ IsFiniteSet(Named) /\ IsFiniteSet(link) /\ IsFiniteSet(connecting)
         /\ IsFiniteSet(Known(cbs, link))
         /\ Cardinality(Named) \in Nat /\ Links \in Nat /\ Tries \in Nat /\ K \in Nat
         /\ Ends \in Nat /\ Ups \in Nat /\ Downs \in Nat /\ Falls \in Nat
<1>1. IsFiniteSet(Servers) /\ Named \in SUBSET Servers
  BY ServersAssumption DEF ServersAssumption
<1>2. IsFiniteSet(Named)
  BY <1>1, FS_Subset
<1>3. link \in SUBSET Named /\ connecting \in SUBSET Named /\ Known(cbs, link) \in SUBSET Named
  BY KnownNamed DEF Kinds
<1>4. Ends \in Nat /\ Ups \in Nat /\ Downs \in Nat /\ Falls \in Nat
  BY CountType DEF Kinds, Ends, Ups, Downs, Falls
<1> QED BY <1>2, <1>3, <1>4, FS_Subset, FS_CardinalityType DEF K, Links, Tries

\* Two elements are appended one after the other.
LEMMA AppendTwo ==
  ASSUME NEW S, NEW q \in Seq(S), NEW a \in S, NEW b \in S
  PROVE  q \o <<a, b>> = Append(Append(q, a), b)
<1> DEFINE t == Append(Append(q, a), b)
           u == q \o <<a, b>>
<1>1. /\ Len(q) \in Nat /\ t \in Seq(S) /\ Len(t) = Len(q) + 2
      /\ t[Len(q) + 1] = a /\ t[Len(q) + 2] = b /\ \A i \in 1 .. Len(q) : t[i] = q[i]
  BY AppendProperties, LenProperties
<1>2. <<a, b>> \in Seq(S) /\ Len(<<a, b>>) = 2 /\ <<a, b>>[1] = a /\ <<a, b>>[2] = b
  OBVIOUS
<1>3. /\ u \in Seq(S) /\ Len(u) = Len(q) + 2
      /\ \A i \in 1 .. Len(q) + 2 : u[i] = IF i <= Len(q) THEN q[i] ELSE <<a, b>>[i - Len(q)]
  BY <1>2, ConcatProperties
<1> HIDE DEF t, u
<1>4. u[Len(q) + 1] = a /\ u[Len(q) + 2] = b /\ \A i \in 1 .. Len(q) : u[i] = q[i]
  BY <1>1, <1>2, <1>3
<1>5. \A i \in 1 .. Len(u) : i \in 1 .. Len(q) \/ i = Len(q) + 1 \/ i = Len(q) + 2
  BY <1>1, <1>3
<1>6. \A i \in 1 .. Len(u) : u[i] = t[i]
  BY <1>1, <1>4, <1>5
<1>7. u = t
  BY <1>1, <1>3, <1>6, SeqEqual
<1> QED BY <1>7 DEF t, u

\* The callbacks are events.
LEMMA EventTypes ==
  /\ Cb("seek disabled", 0) \in Events /\ Cb("seek disabled", 0).what = "seek disabled"
  /\ \A s \in Named : /\ Cb("connected", s) \in Events /\ Cb("paired", s) \in Events
                      /\ Cb("disconnected", s) \in Events
                      /\ Cb("failed", s) \in Events /\ Cb("failed", s).what = "failed"
BY ServersAssumption DEF ServersAssumption, Cb, Events, Callbacks, What

\* The two callbacks of a new link, one after the other.
LEMMA StackConnectQueue ==
  ASSUME cbs \in Seq(Events), NEW s \in Named, StackConnect(s)
  PROVE  cbs' = Append(Append(cbs, Cb("connected", s)), Cb("paired", s))
<1>1. Cb("connected", s) \in Events /\ Cb("paired", s) \in Events
  BY EventTypes
<1>2. cbs \o <<Cb("connected", s), Cb("paired", s)>> = Append(Append(cbs, Cb("connected", s)), Cb("paired", s))
  BY <1>1, AppendTwo
<1>3. cbs' = cbs \o <<Cb("connected", s), Cb("paired", s)>>
  BY DEF StackConnect
<1> QED BY <1>2, <1>3

\* What is in a queue with one more element.
LEMMA Added ==
  ASSUME NEW q \in Seq(Events), NEW e \in Events
  PROVE  \A i \in 1 .. Len(Append(q, e)) :
           (Append(q, e)[i] = q[i] /\ i \in 1 .. Len(q)) \/ Append(q, e)[i] = e
<1> DEFINE r == Append(q, e)
<1>1. /\ Len(q) \in Nat /\ r \in Seq(Events) /\ Len(r) = Len(q) + 1 /\ r[Len(q) + 1] = e
      /\ \A i \in 1 .. Len(q) : r[i] = q[i]
  BY AppendProperties, LenProperties
<1> HIDE DEF r
<1>2. \A i : i \in 1 .. Len(r) <=> i \in 1 .. Len(q) \/ i = Len(q) + 1
  BY <1>1
<1>3. \A i \in 1 .. Len(r) : (r[i] = q[i] /\ i \in 1 .. Len(q)) \/ r[i] = e
  BY <1>1, <1>2
<1> QED BY <1>3 DEF r

\* A queue with no end of a seek keeps none when a callback is served or
\* another one is added.
LEMMA NoSeekEndEmpty == NoSeekEnd(<<>>)
<1>1. \A i \in 1 .. Len(<<>>) : FALSE
  OBVIOUS
<1> QED BY <1>1 DEF NoSeekEnd

LEMMA NoSeekEndServed ==
  ASSUME NEW q \in Seq(Events), q # <<>>, NoSeekEnd(q)
  PROVE  Head(q).what # "seek disabled" /\ NoSeekEnd(Tail(q))
<1> DEFINE r == Tail(q)
<1>1. /\ Len(q) \in Nat /\ Len(q) >= 1 /\ Len(r) = Len(q) - 1 /\ Head(q) = q[1]
      /\ \A i \in 1 .. Len(q) - 1 : r[i] = q[i + 1]
  BY OneOn
<1> HIDE DEF r
<1>2. 1 \in 1 .. Len(q) /\ \A i \in 1 .. Len(r) : i \in 1 .. Len(q) - 1 /\ i + 1 \in 1 .. Len(q)
  BY <1>1
<1>3. NoSeekEnd(r) /\ Head(q).what # "seek disabled"
  BY <1>1, <1>2 DEF NoSeekEnd
<1> QED BY <1>3 DEF r

LEMMA NoSeekEndAdded ==
  ASSUME NEW q \in Seq(Events), NoSeekEnd(q), NEW e \in Events, e.what # "seek disabled"
  PROVE  NoSeekEnd(Append(q, e))
<1>1. \A i \in 1 .. Len(Append(q, e)) :
         (Append(q, e)[i] = q[i] /\ i \in 1 .. Len(q)) \/ Append(q, e)[i] = e
  BY Added
<1> QED BY <1>1 DEF NoSeekEnd

\* What the first callback, once it is served, changes.
LEMMA ServedFacts ==
  ASSUME Kinds, Even, cbs # <<>>, cbs' = Tail(cbs), link' = link
  PROVE  /\ Alternate(cbs', link') /\ cbs' \in Seq(Events) /\ Head(cbs) \in Events
         /\ Head(cbs).what = "seek disabled" => Ends' = Ends - 1 /\ UNCHANGED <<Ups, Downs, Falls>>
         /\ Head(cbs).what = "connected" => Ups' = Ups - 1 /\ UNCHANGED <<Ends, Downs, Falls>>
         /\ Head(cbs).what = "disconnected" => Downs' = Downs - 1 /\ UNCHANGED <<Ends, Ups, Falls>>
         /\ Head(cbs).what = "failed" => Falls' = Falls - 1 /\ UNCHANGED <<Ends, Ups, Downs>>
         /\ Head(cbs).what = "paired" => UNCHANGED <<Ends, Ups, Downs, Falls>>
         /\ Ends' \in Nat /\ Ups' \in Nat /\ Downs' \in Nat /\ Falls' \in Nat
         /\ Head(cbs).what = "connected" =>
              /\ Head(cbs).id \in Named /\ Head(cbs).id \notin Known(cbs, link)
              /\ Known(cbs, link)' = Known(cbs, link) \cup {Head(cbs).id} /\ K' = K + 1
         /\ Head(cbs).what = "disconnected" => K' = K - 1 /\ K > 0
         /\ Head(cbs).what \notin {"connected", "disconnected"} =>
              Known(cbs, link)' = Known(cbs, link) /\ K' = K
<1>1. cbs \in Seq(Events) /\ Alternate(cbs, link)
  BY DEF Kinds, Even
<1>2. cbs' \in Seq(Events) /\ Head(cbs) \in Events
  BY <1>1, OneOn
<1>c. \A w : Count(cbs', w) = IF Head(cbs).what = w THEN Count(cbs, w) - 1 ELSE Count(cbs, w)
  BY <1>1, CountTail
<1>3. /\ Head(cbs).what = "seek disabled" => Ends' = Ends - 1 /\ UNCHANGED <<Ups, Downs, Falls>>
      /\ Head(cbs).what = "connected" => Ups' = Ups - 1 /\ UNCHANGED <<Ends, Downs, Falls>>
      /\ Head(cbs).what = "disconnected" => Downs' = Downs - 1 /\ UNCHANGED <<Ends, Ups, Falls>>
      /\ Head(cbs).what = "failed" => Falls' = Falls - 1 /\ UNCHANGED <<Ends, Ups, Downs>>
      /\ Head(cbs).what = "paired" => UNCHANGED <<Ends, Ups, Downs, Falls>>
  BY <1>c DEF Ends, Ups, Downs, Falls
<1>4. Ends' \in Nat /\ Ups' \in Nat /\ Downs' \in Nat /\ Falls' \in Nat
  BY <1>2, CountType DEF Ends, Ups, Downs, Falls
<1>5. IsFiniteSet(Known(cbs, link)) /\ K \in Nat
  BY Finite
<1>6. ASSUME Head(cbs).what = "connected"
      PROVE  /\ Head(cbs).id \in Named /\ Head(cbs).id \notin Known(cbs, link)
             /\ Known(cbs, link)' = Known(cbs, link) \cup {Head(cbs).id} /\ K' = K + 1
  <2>1. PICK s \in Named : Head(cbs) = Cb("connected", s) /\ Head(cbs).id = s
    BY <1>2, <1>6 DEF Events, Callbacks, Cb
  <2>2. s \in Servers
    BY ServersAssumption DEF ServersAssumption
  <2>3. s \notin Known(cbs, link) /\ Known(Tail(cbs), link) = Known(cbs, link) \cup {s}
    BY <1>1, <2>1, <2>2, ServedOne
  <2>4. Cardinality(Known(cbs, link) \cup {s}) = K + 1
    BY <1>5, <2>3, FS_AddElement DEF K
  <2> QED BY <2>1, <2>3, <2>4 DEF K
<1>7. ASSUME Head(cbs).what = "disconnected" PROVE K' = K - 1 /\ K > 0
  <2>1. PICK s \in Named : Head(cbs) = Cb("disconnected", s)
    BY <1>2, <1>7 DEF Events, Callbacks, Cb
  <2>2. s \in Servers
    BY ServersAssumption DEF ServersAssumption
  <2>3. s \in Known(cbs, link) /\ Known(Tail(cbs), link) = Known(cbs, link) \ {s}
    BY <1>1, <2>1, <2>2, ServedOne
  <2>4. Cardinality(Known(cbs, link) \ {s}) = K - 1
    BY <1>5, <2>3, FS_RemoveElement DEF K
  <2>5. K # 0
    <3>1. Known(cbs, link) # {}
      BY <2>3
    <3> QED BY <3>1, <1>5, FS_EmptySet DEF K
  <2>6. K' = K - 1
    BY <2>3, <2>4 DEF K
  <2> QED BY <1>5, <2>5, <2>6
<1>8. ASSUME Head(cbs).what \notin {"connected", "disconnected"}
      PROVE  Known(cbs, link)' = Known(cbs, link) /\ K' = K
  <2>1. Known(Tail(cbs), link) = Known(cbs, link)
    BY <1>1, <1>8, ServedOne
  <2> QED BY <2>1 DEF K
<1>9. Alternate(Tail(cbs), link)
  BY <1>1, ServedOne
<1> QED BY <1>2, <1>3, <1>4, <1>6, <1>7, <1>8, <1>9

\* What one more callback changes.
LEMMA AddedFacts ==
  ASSUME Kinds, Even, NEW e \in Events, cbs' = Append(cbs, e), Fits(e, link, link')
  PROVE  /\ Alternate(cbs', link') /\ cbs' \in Seq(Events)
         /\ e.what = "seek disabled" => Ends' = Ends + 1 /\ UNCHANGED <<Ups, Downs, Falls>>
         /\ e.what = "disconnected" => Downs' = Downs + 1 /\ UNCHANGED <<Ends, Ups, Falls>>
         /\ e.what = "failed" => Falls' = Falls + 1 /\ UNCHANGED <<Ends, Ups, Downs>>
         /\ Known(cbs, link)' = Known(cbs, link) /\ K' = K
<1>1. cbs \in Seq(Events) /\ Alternate(cbs, link)
  BY DEF Kinds, Even
<1>2. cbs' \in Seq(Events)
  BY <1>1, AppendProperties
<1>c. \A w : Count(cbs', w) = IF e.what = w THEN Count(cbs, w) + 1 ELSE Count(cbs, w)
  BY <1>1, CountAppend
<1>3. /\ e.what = "seek disabled" => Ends' = Ends + 1 /\ UNCHANGED <<Ups, Downs, Falls>>
      /\ e.what = "disconnected" => Downs' = Downs + 1 /\ UNCHANGED <<Ends, Ups, Falls>>
      /\ e.what = "failed" => Falls' = Falls + 1 /\ UNCHANGED <<Ends, Ups, Downs>>
  BY <1>c DEF Ends, Ups, Downs, Falls
<1>4. Alternate(cbs', link') /\ Known(cbs', link') = Known(cbs, link)
  BY <1>1, Reported
<1> QED BY <1>2, <1>3, <1>4 DEF K

\* What a new link changes: it is not known yet.
LEMMA StackConnectFacts ==
  ASSUME Kinds, Even, \A s \in Servers : Turn(s), NEW s \in Servers, StackConnect(s)
  PROVE  /\ Alternate(cbs', link') /\ cbs' \in Seq(Events) /\ Known(cbs, link)' = Known(cbs, link) /\ K' = K
         /\ Ups' = Ups + 1
         /\ UNCHANGED <<Ends, Downs, Falls>>
         /\ Links' = Links + 1
         /\ Tries' = Tries - 1
<1> DEFINE q == Append(cbs, Cb("connected", s))
<1>0. cbs \in Seq(Events) /\ Alternate(cbs, link)
  BY DEF Kinds, Even
<1>n. s \in Named
  BY DEF StackConnect, Kinds
<1>1. cbs' = Append(q, Cb("paired", s)) /\ link' = link \cup {s} /\ s \notin link
  <2>1. cbs' = Append(q, Cb("paired", s))
    BY <1>0, <1>n, StackConnectQueue
  <2> HIDE DEF q
  <2>2. link' = link \cup {s} /\ s \in onair
    BY DEF StackConnect
  <2> QED BY <2>1, <2>2 DEF Turn
<1>e. Cb("connected", s) \in Events /\ Cb("paired", s) \in Events
  BY <1>n, EventTypes
<1>w. Cb("connected", s).what = "connected" /\ Cb("paired", s).what = "paired"
  BY Names
<1>2. q \in Seq(Events)
  BY <1>0, <1>e, AppendProperties
<1>3. Fits(Cb("connected", s), link, link') /\ Fits(Cb("paired", s), link', link')
  BY <1>1 DEF Fits, Cb
<1>4. Alternate(q, link') /\ Known(q, link') = Known(cbs, link)
  BY <1>0, <1>3, <1>e, Reported
<1>5. \A w : Count(q, w) = IF w = "connected" THEN Count(cbs, w) + 1 ELSE Count(cbs, w)
  BY <1>0, <1>e, <1>w, CountAppend
<1> HIDE DEF q
<1>6. Alternate(cbs', link') /\ Known(cbs', link') = Known(q, link')
  BY <1>1, <1>2, <1>3, <1>4, <1>e, Reported
<1>7. \A w : Count(cbs', w) = IF w = "paired" THEN Count(q, w) + 1 ELSE Count(q, w)
  BY <1>1, <1>2, <1>e, <1>w, CountAppend
<1>8. /\ Ups' = Ups + 1
      /\ UNCHANGED <<Ends, Downs, Falls>>
  BY <1>5, <1>7 DEF Ends, Ups, Downs, Falls
<1>9. Links' = Links + 1
  BY <1>1, Finite, FS_AddElement DEF Links
<1>10. Tries' = Tries - 1
  <2>1. s \in connecting /\ connecting' = connecting \ {s}
    BY DEF StackConnect
  <2> QED BY <2>1, Finite, FS_RemoveElement DEF Tries
<1>11. cbs' \in Seq(Events)
  BY <1>1, <1>2, <1>e, AppendProperties
<1> QED BY <1>4, <1>6, <1>8, <1>9, <1>10, <1>11 DEF K

\* What the end of a seek, a loss and a failure change.
LEMMA SeekStopFacts ==
  ASSUME Kinds, Even, StackSeekStop
  PROVE  /\ Alternate(cbs', link') /\ Known(cbs, link)' = Known(cbs, link) /\ K' = K
         /\ Ends' = Ends + 1
         /\ UNCHANGED <<Ups, Downs, Falls>>
<1>1. cbs' = Append(cbs, Cb("seek disabled", 0)) /\ link' = link
  BY DEF StackSeekStop
<1>2. Cb("seek disabled", 0) \in Events /\ Cb("seek disabled", 0).what = "seek disabled"
  BY EventTypes
<1>3. Fits(Cb("seek disabled", 0), link, link')
  BY <1>1 DEF Fits, Cb
<1> QED BY <1>1, <1>2, <1>3, AddedFacts

LEMMA StackDisconnectFacts ==
  ASSUME Kinds, Even, NEW s \in Servers, StackDisconnect(s)
  PROVE  /\ Alternate(cbs', link') /\ Known(cbs, link)' = Known(cbs, link) /\ K' = K
         /\ Downs' = Downs + 1
         /\ UNCHANGED <<Ends, Ups, Falls>>
         /\ Links' = Links - 1
<1>1. cbs' = Append(cbs, Cb("disconnected", s)) /\ s \in link /\ link' = link \ {s} /\ s \in Named
  BY DEF StackDisconnect, Kinds
<1>2. Cb("disconnected", s) \in Events /\ Cb("disconnected", s).what = "disconnected"
  BY <1>1, EventTypes, Names
<1>3. Fits(Cb("disconnected", s), link, link')
  BY <1>1 DEF Fits, Cb
<1>4. Links' = Links - 1
  BY <1>1, Finite, FS_RemoveElement DEF Links
<1> QED BY <1>1, <1>2, <1>3, <1>4, AddedFacts

LEMMA StackConnectFailsFacts ==
  ASSUME Kinds, Even, NEW s \in Servers, StackConnectFails(s)
  PROVE  /\ Alternate(cbs', link') /\ Known(cbs, link)' = Known(cbs, link) /\ K' = K
         /\ Falls' = Falls + 1
         /\ UNCHANGED <<Ends, Ups, Downs>>
<1>1. cbs' = Append(cbs, Cb("failed", s)) /\ link' = link /\ s \in Named
  BY DEF StackConnectFails, Kinds
<1>2. Cb("failed", s) \in Events /\ Cb("failed", s).what = "failed"
  BY <1>1, EventTypes
<1>3. Fits(Cb("failed", s), link, link')
  BY <1>1 DEF Fits, Cb
<1> QED BY <1>1, <1>2, <1>3, AddedFacts

\* The actions that leave the client's callbacks and the links alone.
Still == UNCHANGED <<num, ids, overrun, cbs, link, connecting, leaves, fails>>
LEMMA StillSteps ==
  ASSUME EnableCbk \/ (\E s \in Servers : SeekResult(s) \/ Server(s)) \/ UNCHANGED vars
  PROVE  Still
<1>1. EnableCbk \/ UNCHANGED vars => Still
  BY DEF Still, EnableCbk, vars, client, stack
<1>2. ASSUME NEW s \in Servers, SeekResult(s) \/ Server(s) PROVE Still
  BY <1>2 DEF Still, SeekResult, Server, ServerConnected, ServerPaired, ServerDisconnected, ServerTask,
     client
<1> QED BY <1>1, <1>2

\* The values of the number.
LEMMA ValueRange ==
  /\ Values \in Nat /\ Values - 1 \in Nat
  /\ \A n \in Nat : n < Values => n \in 0 .. Values - 1
  /\ \A n \in 0 .. Values - 1 : n \in Nat /\ n < Values
<1>1. Values \in Nat /\ Values > 1
  BY DEF Values
<1> QED BY <1>1

\* A number that wraps, one more and one less.
LEMMA Wraps ==
  /\ \A n \in Nat : Wrap(n) \in 0 .. Values - 1 /\ Wrap(n) \in Nat
  /\ \A n \in Nat : n >= 1 /\ n < 65536 => Wrap(n + (Values - 1)) = n - 1
  /\ \A a, b, c \in Nat : Wrap(a) = Wrap(b) => Wrap(a + c) = Wrap(b + c)
  /\ \A a, f, b \in Nat : Wrap(a + f) = Wrap(b + 1) => Wrap(Wrap(a + (Values - 1)) + f) = Wrap(b)
<1>1. \A n \in Nat : Wrap(n) \in 0 .. Values - 1 /\ Wrap(n) \in Nat
  <2>1. \A n \in Nat : n % Values \in Nat /\ n % Values < Values
    BY DEF Values
  <2> QED BY <2>1, ValueRange DEF Wrap
<1>2. \A n \in Nat : n >= 1 /\ n < 65536 => Wrap(n + (Values - 1)) = n - 1
  BY DEF Wrap, Values
<1>3. \A a, b, c \in Nat : Wrap(a) = Wrap(b) => Wrap(a + c) = Wrap(b + c)
  BY DEF Wrap, Values
<1>4. \A a, f, b \in Nat : Wrap(a + f) = Wrap(b + 1) => Wrap(Wrap(a + (Values - 1)) + f) = Wrap(b)
  BY DEF Wrap, Values
<1> QED BY <1>1, <1>2, <1>3, <1>4

LEMMA WrapRange == \A n \in Nat : Wrap(n) \in 0 .. Values - 1
BY Wraps

\* Every action keeps the client's types.
LEMMA KindsStep == ASSUME Kinds, [Next]_vars PROVE Kinds'
<1> USE ServersAssumption DEF Kinds, ServersAssumption
<1>0. cbs \in Seq(Events) /\ link \subseteq Named
  OBVIOUS
<1>1. CASE EnableCbk
  BY <1>1 DEF EnableCbk, client, server
<1>2. ASSUME NEW s \in Servers, SeekResult(s) PROVE Kinds'
  <2>1. s # 0 /\ s \in Named
    BY <1>2 DEF SeekResult
  <2> QED BY <1>2, <2>1 DEF SeekResult, server
<1>3. CASE SeekDisabled \/ Connected \/ PairComplete \/ Disconnected
  <2>1. cbs # <<>> /\ cbs' = Tail(cbs)
    BY <1>3 DEF SeekDisabled, Connected, PairComplete, Disconnected, Parted, Served
  <2>2. cbs' \in Seq(Events) /\ Head(cbs) \in Events
    BY <2>1, <1>0, OneOn
  <2>3. NoSeekEnd(cbs) => Head(cbs).what # "seek disabled" /\ NoSeekEnd(cbs')
    BY <2>1, <1>0, NoSeekEndServed
  <2>4. CASE SeekDisabled
    <3>1. remote # 0
      BY <2>3, <2>4 DEF SeekDisabled, Served
    <3>2. connecting' \subseteq Named
      BY <2>4, <3>1 DEF SeekDisabled
    <3> QED BY <2>2, <2>4, <3>1, <3>2 DEF SeekDisabled, client, server
  <2>5. CASE Connected
    <3>1. Head(cbs).what = "connected" /\ Head(cbs).id \in Servers
      BY <2>5, <2>2 DEF Connected, Served, Events
    <3>2. ids' \in [0 .. MaxCon - 1 -> Servers \cup {0}]
      BY <2>5, <3>1 DEF Connected, Enter
    <3>3. num' \in 0 .. Values - 1
      <4>1. num \in Nat /\ num + 1 \in Nat
        BY ValueRange
      <4>5. Head(cbs).id \in Nat
        BY <3>1
      <4>2. CASE num < MaxCon
        <5>1. num' = num + 1
          BY <2>5, <4>2 DEF Connected, Enter
        <5>2. MaxCon \in Nat /\ MaxCon < Values
          BY BoundAssumption, ValueRange DEF BoundAssumption
        <5>3. Values \in Nat
          BY ValueRange, Zenon
        <5>4. num + 1 < Values
          BY <4>1, <4>2, <5>2, <5>3
        <5> QED BY <5>1, <5>4, <4>1, ValueRange
      <4>3. CASE ~(num < MaxCon)
        <5>1. num' \in {Wrap(num + 1), Wrap(Head(cbs).id + 1)}
          BY <2>5, <4>3 DEF Connected, Enter, Wrap
        <5>2. Wrap(num + 1) \in 0 .. Values - 1
          BY <4>1, WrapRange, Zenon
        <5>4. Head(cbs).id + 1 \in Nat
          BY <4>5
        <5>3. Wrap(Head(cbs).id + 1) \in 0 .. Values - 1
          BY <5>4, WrapRange, Zenon
        <5> QED BY <5>1, <5>2, <5>3
      <4> QED BY <4>2, <4>3
    <3>4. overrun' \in BOOLEAN
      BY <2>5 DEF Connected, Enter
    <3> QED BY <2>2, <2>3, <2>5, <3>2, <3>3, <3>4 DEF Connected, server
  <2>6. CASE PairComplete
    BY <2>2, <2>3, <2>6 DEF PairComplete, client, server
  <2>7. CASE Disconnected
    <3>1. num' \in 0 .. Values - 1
      <4>1. num' = Wrap(num + (Values - 1))
        BY <2>7 DEF Disconnected, Wrap
      <4>2. num + (Values - 1) \in Nat
        BY ValueRange
      <4> QED BY <4>1, <4>2, Wraps
    <3> QED BY <2>2, <2>3, <2>7, <3>1 DEF Disconnected, server
  <2> QED BY <1>3, <2>4, <2>5, <2>6, <2>7
<1>4. ASSUME NEW s \in Servers, Server(s) PROVE Kinds'
  <2>1. UNCHANGED <<num, ids, remote, overrun, enabled, seeking, stopping, connecting, link, cbs>>
    BY <1>4 DEF Server, ServerConnected, ServerPaired, ServerDisconnected, ServerTask, client
  <2>2. onair' \in {onair, onair \cup {s}}
    BY <1>4 DEF Server, ServerConnected, ServerPaired, ServerDisconnected, ServerTask
  <2> QED BY <2>1, <2>2
<1>5. CASE StackSeekStop
  <2>1. cbs' = Append(cbs, Cb("seek disabled", 0)) /\ stopping
    BY <1>5 DEF StackSeekStop
  <2>2. cbs' \in Seq(Events)
    BY <2>1, EventTypes, AppendProperties
  <2> QED BY <1>5, <2>1, <2>2 DEF StackSeekStop, client, server
<1>6. ASSUME NEW e \in Events, e.what # "seek disabled", NEW q \in Seq(Events)
      PROVE  Append(q, e) \in Seq(Events) /\ (NoSeekEnd(q) => NoSeekEnd(Append(q, e)))
  BY <1>6, AppendProperties, NoSeekEndAdded
<1>7. ASSUME NEW s \in Servers, StackConnect(s) PROVE Kinds'
  <2>n. s \in Named
    BY <1>7 DEF StackConnect
  <2>1. cbs' = Append(Append(cbs, Cb("connected", s)), Cb("paired", s))
    BY <1>7, <1>0, <2>n, StackConnectQueue
  <2>3. /\ Cb("connected", s) \in Events /\ Cb("connected", s).what # "seek disabled"
        /\ Cb("paired", s) \in Events /\ Cb("paired", s).what # "seek disabled"
    BY <2>n, EventTypes, Names
  <2> DEFINE q == Append(cbs, Cb("connected", s))
  <2>4. q \in Seq(Events) /\ (NoSeekEnd(cbs) => NoSeekEnd(q))
    BY <2>3, <1>0, <1>6
  <2> HIDE DEF q
  <2>5. cbs' = Append(q, Cb("paired", s))
    BY <2>1 DEF q
  <2>2. cbs' \in Seq(Events) /\ (NoSeekEnd(cbs) => NoSeekEnd(cbs'))
    BY <2>3, <2>4, <2>5, <1>6
  <2> QED BY <1>7, <2>n, <2>2 DEF StackConnect, client, server
<1>8. ASSUME NEW s \in Servers, StackDisconnect(s) \/ StackConnectFails(s) PROVE Kinds'
  <2>1. s \in Named
    BY <1>8 DEF StackDisconnect, StackConnectFails
  <2>2. PICK e \in {Cb("disconnected", s), Cb("failed", s)} : cbs' = Append(cbs, e)
    BY <1>8 DEF StackDisconnect, StackConnectFails
  <2>3. e \in Events /\ e.what # "seek disabled"
    <3>1. CASE e = Cb("disconnected", s)
      <4>1. e \in Events /\ e.what = "disconnected"
        BY <3>1, <2>1, EventTypes, Names, Zenon
      <4> QED BY <4>1
    <3>2. CASE e = Cb("failed", s)
      <4>1. e \in Events /\ e.what = "failed"
        BY <3>2, <2>1, EventTypes, Zenon
      <4> QED BY <4>1
    <3> QED BY <2>2, <3>1, <3>2
  <2>4. cbs' \in Seq(Events) /\ (NoSeekEnd(cbs) => NoSeekEnd(cbs'))
    BY <2>2, <2>3, <1>0, <1>6
  <2>5. link' \subseteq Named /\ connecting' \subseteq Named
    BY <1>8 DEF StackDisconnect, StackConnectFails
  <2>6. UNCHANGED <<num, ids, remote, overrun, enabled, seeking, stopping, onair>>
    BY <1>8 DEF StackDisconnect, StackConnectFails, client
  <2> QED BY <2>4, <2>5, <2>6
<1>9. CASE UNCHANGED vars
  BY <1>9 DEF vars, client, server, stack
<1> QED BY <1>1, <1>2, <1>3, <1>4, <1>5, <1>7, <1>8, <1>9 DEF Next, Client

\* Every action keeps the known links even with the links there are.
LEMMA EvenStep ==
  ASSUME Kinds, Even, \A s \in Servers : Turn(s), [Next]_vars
  PROVE  Even'
<1>t. Links \in Nat /\ K \in Nat /\ Ups \in Nat /\ Downs \in Nat /\ K + Ups = Links + Downs
  BY Finite DEF Even
<1>e. ASSUME Alternate(cbs, link)', K' + Ups' = Links' + Downs' PROVE Even'
  BY <1>e DEF Even
<1>1. Still => Even'
  BY DEF Even, Still, K, Ups, Downs, Links
<1>2. CASE SeekDisabled \/ Connected \/ PairComplete \/ Disconnected
  <2>1. cbs # <<>> /\ cbs' = Tail(cbs) /\ link' = link
    BY <1>2 DEF SeekDisabled, Connected, PairComplete, Disconnected, Parted, Served
  <2>2. Alternate(cbs', link') /\ Head(cbs) \in Events
    BY <2>1, ServedFacts
  <2>3. \/ Ups' = Ups - 1 /\ Downs' = Downs /\ K' = K + 1
        \/ Downs' = Downs - 1 /\ Ups' = Ups /\ K' = K - 1
        \/ Downs' = Downs /\ Ups' = Ups /\ K' = K
    <3>1. CASE Head(cbs).what = "connected"
      BY <3>1, <2>1, ServedFacts
    <3>2. CASE Head(cbs).what = "disconnected"
      BY <3>2, <2>1, ServedFacts
    <3>3. CASE Head(cbs).what \notin {"connected", "disconnected"}
      <4>1. Head(cbs).what \in {"seek disabled", "paired", "failed"}
        BY <3>3, <2>2 DEF Events, Callbacks, What
      <4> QED BY <3>3, <4>1, <2>1, ServedFacts
    <3> QED BY <3>1, <3>2, <3>3
  <2>4. Links' = Links
    BY <2>1 DEF Links
  <2>5. K' + Ups' = Links' + Downs'
    BY <2>3, <2>4, <1>t
  <2> QED BY <2>2, <2>5, <1>e
<1>3. CASE StackSeekStop
  <2>1. Links' = Links
    BY <1>3 DEF StackSeekStop, Links
  <2>2. Alternate(cbs', link') /\ K' = K /\ Ups' = Ups /\ Downs' = Downs
    BY <1>3, SeekStopFacts
  <2> QED BY <2>1, <2>2, <1>t, <1>e
<1>4. ASSUME NEW s \in Servers, StackConnect(s) PROVE Even'
  <2>1. Alternate(cbs', link') /\ K' = K /\ Ups' = Ups + 1 /\ Downs' = Downs /\ Links' = Links + 1
    BY <1>4, StackConnectFacts
  <2>2. K' + Ups' = Links' + Downs'
    BY <2>1, <1>t
  <2> QED BY <2>1, <2>2, <1>e
<1>5. ASSUME NEW s \in Servers, StackDisconnect(s) PROVE Even'
  <2>1. Alternate(cbs', link') /\ K' = K /\ Ups' = Ups /\ Downs' = Downs + 1 /\ Links' = Links - 1
    BY <1>5, StackDisconnectFacts
  <2>2. K' + Ups' = Links' + Downs'
    BY <2>1, <1>t
  <2> QED BY <2>1, <2>2, <1>e
<1>6. ASSUME NEW s \in Servers, StackConnectFails(s) PROVE Even'
  <2>1. Links' = Links
    BY <1>6 DEF StackConnectFails, Links
  <2>2. Alternate(cbs', link') /\ K' = K /\ Ups' = Ups /\ Downs' = Downs
    BY <1>6, StackConnectFailsFacts
  <2> QED BY <2>1, <2>2, <1>t, <1>e
<1> QED BY <1>1, <1>2, <1>3, <1>4, <1>5, <1>6, StillSteps DEF Next, Client

-----------------------------------------------------------------------------
(* The number, modulo 2^16.                                                *)

\* Every action keeps the number's drift.
LEMMA DriftStep ==
  ASSUME Kinds, Even, \A s \in Servers : Turn(s), Losses, Drift, [Next]_vars
  PROVE  Drift'
<1>v. num \in 0 .. Values - 1
  BY DEF Kinds
<1>n. num \in Nat /\ num < 65536
  BY <1>v DEF Values
<1>f. fails \in Nat /\ Falls <= fails
  BY DEF Losses, Drift
<1>t. num \in Nat /\ num < 65536 /\ fails \in Nat /\ Falls \in Nat /\ K \in Nat /\ Falls <= fails
  BY Finite, <1>n, <1>f
<1>d. ASSUME UNCHANGED <<num, overrun, fails, K, Falls>> PROVE Drift'
  BY <1>d DEF Drift
<1>1. Still => Drift'
  BY <1>d DEF Still, K, Falls
<1>2. CASE SeekDisabled \/ PairComplete
  <2>1. /\ cbs # <<>> /\ cbs' = Tail(cbs) /\ link' = link /\ UNCHANGED <<num, overrun, fails>>
        /\ Head(cbs).what \in {"seek disabled", "paired"}
    BY <1>2 DEF SeekDisabled, PairComplete, Served, client
  <2>2. K' = K /\ Falls' = Falls
    BY <2>1, ServedFacts
  <2> QED BY <2>1, <2>2, <1>d
<1>3. CASE Connected
  <2>1. /\ cbs # <<>> /\ cbs' = Tail(cbs) /\ link' = link /\ fails' = fails
        /\ Head(cbs).what = "connected"
    BY <1>3 DEF Connected, Served
  <2>2. K' = K + 1 /\ Falls' = Falls
    BY <2>1, ServedFacts
  <2>3. ~overrun' => ~overrun /\ num' = num + 1
    BY <1>3 DEF Connected, Enter
  <2>4. ASSUME ~overrun' PROVE Wrap(num' + fails') = Wrap(K' + Falls')
    <3>1. Wrap(num + fails) = Wrap(K + Falls) /\ num + fails \in Nat /\ K + Falls \in Nat
      BY <2>3, <2>4, <1>t DEF Drift
    <3>2. Wrap((num + fails) + 1) = Wrap((K + Falls) + 1)
      BY <3>1, Wraps
    <3>3. num' + fails' = (num + fails) + 1 /\ K' + Falls' = (K + Falls) + 1
      BY <2>1, <2>2, <2>3, <2>4, <1>t
    <3> QED BY <3>2, <3>3
  <2>5. ~overrun' /\ fails' = 0 => num' = K'
    BY <2>1, <2>2, <2>3, <1>t DEF Drift
  <2>6. Falls' <= fails'
    BY <2>1, <2>2, <1>t
  <2> QED BY <2>4, <2>5, <2>6 DEF Drift
<1>4. CASE Disconnected
  <2>1. /\ cbs # <<>> /\ cbs' = Tail(cbs) /\ link' = link /\ fails' = fails /\ overrun' = overrun
        /\ num' = Wrap(num + (Values - 1)) /\ Head(cbs).what \in {"disconnected", "failed"}
    BY <1>4 DEF Disconnected, Parted, Served, Wrap
  <2>2. \/ K' = K - 1 /\ K > 0 /\ Falls' = Falls
        \/ K' = K /\ Falls' = Falls - 1 /\ Falls' \in Nat
    BY <2>1, ServedFacts
  <2>3. Falls' <= fails' /\ K' + Falls' \in Nat /\ (K' + Falls') + 1 = K + Falls
    BY <2>1, <2>2, <1>t
  <2>4. ASSUME ~overrun PROVE Wrap(num' + fails') = Wrap(K' + Falls')
    <3>1. Wrap(num + fails) = Wrap((K' + Falls') + 1)
      BY <2>3, <2>4 DEF Drift
    <3>2. Wrap(Wrap(num + (Values - 1)) + fails) = Wrap(K' + Falls')
      BY <3>1, <2>3, <1>t, Wraps
    <3> QED BY <3>2, <2>1
  <2>5. ASSUME ~overrun, fails = 0 PROVE num' = K'
    <3>1. num = K
      BY <2>5 DEF Drift
    <3>2. num >= 1 /\ K' = num - 1
      BY <3>1, <2>2, <2>5, <1>t
    <3>3. Wrap(num + (Values - 1)) = num - 1
      BY <3>2, <1>t, Wraps
    <3> QED BY <2>1, <3>2, <3>3
  <2> QED BY <2>1, <2>3, <2>4, <2>5 DEF Drift
<1>5. CASE StackSeekStop
  <2>1. UNCHANGED <<num, overrun, fails>>
    BY <1>5 DEF StackSeekStop, client
  <2> QED BY <1>5, <2>1, <1>d, SeekStopFacts
<1>6. ASSUME NEW s \in Servers, StackConnect(s) PROVE Drift'
  <2>1. UNCHANGED <<num, overrun, fails>>
    BY <1>6 DEF StackConnect, client
  <2> QED BY <1>6, <2>1, <1>d, StackConnectFacts
<1>7. ASSUME NEW s \in Servers, StackDisconnect(s) PROVE Drift'
  <2>1. UNCHANGED <<num, overrun, fails>>
    BY <1>7 DEF StackDisconnect, client
  <2> QED BY <1>7, <2>1, <1>d, StackDisconnectFacts
<1>8. ASSUME NEW s \in Servers, StackConnectFails(s) PROVE Drift'
  <2>1. num' = num /\ overrun' = overrun /\ fails' = fails + 1
    BY <1>8 DEF StackConnectFails, client
  <2>2. K' = K /\ Falls' = Falls + 1
    BY <1>8, StackConnectFailsFacts
  <2>3. fails' # 0 /\ Falls' <= fails'
    BY <2>1, <2>2, <1>t
  <2>4. ASSUME ~overrun PROVE Wrap(num' + fails') = Wrap(K' + Falls')
    <3>1. Wrap(num + fails) = Wrap(K + Falls) /\ num + fails \in Nat /\ K + Falls \in Nat
      BY <2>4, <1>t DEF Drift
    <3>2. Wrap((num + fails) + 1) = Wrap((K + Falls) + 1)
      BY <3>1, Wraps
    <3>3. num' + fails' = (num + fails) + 1 /\ K' + Falls' = (K + Falls) + 1
      BY <2>1, <2>2, <1>t
    <3> QED BY <3>2, <3>3
  <2> QED BY <2>1, <2>3, <2>4 DEF Drift
<1> QED
  BY <1>1, <1>2, <1>3, <1>4, <1>5, <1>6, <1>7, <1>8, StillSteps DEF Next, Client

-----------------------------------------------------------------------------
(* The table before the first loss or failure, and its end after it.       *)

\* A loss or a failure is not forgotten.
LEMMA LossesStay ==
  ASSUME Losses, [Next]_vars
  PROVE  (leaves > 0 => leaves' > 0) /\ (fails > 0 => fails' > 0)
<1>1. leaves' \in {leaves, leaves + 1} /\ fails' \in {fails, fails + 1}
  BY DEF Next, Client, EnableCbk, SeekDisabled, Connected, PairComplete, Disconnected, StackSeekStop,
     SeekResult, Server, ServerConnected, ServerPaired, ServerDisconnected, ServerTask, StackConnect,
     StackDisconnect, StackConnectFails, vars, stack
<1> QED BY <1>1 DEF Losses

\* Every action keeps one thing at a time under way before the first loss.
LEMMA PipelineStep ==
  ASSUME Kinds, Even, \A s \in Servers : Turn(s), Losses, Pipeline, [Next]_vars
  PROVE  Pipeline'
<1> SUFFICES ASSUME leaves' = 0 /\ fails' = 0 PROVE Pipeline'
  BY DEF Pipeline
<1>0. leaves = 0 /\ fails = 0 /\ leaves \in Nat /\ fails \in Nat
  BY LossesStay DEF Losses
<1>k. num \in Nat /\ Ends \in Nat /\ Tries \in Nat /\ Ups \in Nat /\ Downs \in Nat /\ Falls \in Nat
  BY Finite DEF Kinds
<1>p. /\ Seek + Ends + Tries + Ups <= Begun
      /\ stopping => seeking /\ num < MaxCon
      /\ Ends + Tries + Ups > 0 => num < MaxCon
      /\ Downs = 0 /\ Falls = 0
  BY <1>0 DEF Pipeline
<1>q. ASSUME Seek' + Ends' + Tries' + Ups' <= Begun', stopping' => seeking' /\ num' < MaxCon,
             Ends' + Tries' + Ups' > 0 => num' < MaxCon, Downs' = 0, Falls' = 0
      PROVE  Pipeline'
  BY <1>q DEF Pipeline
<1>s. Seek \in {0, 1} /\ (seeking => Seek = 1) /\ (~seeking => Seek = 0)
  BY DEF Seek
<1>s1. Seek' \in {0, 1} /\ (seeking' => Seek' = 1) /\ (~seeking' => Seek' = 0) /\ (seeking' = seeking => Seek' = Seek)
  BY DEF Seek
<1>b. Begun \in {0, 1} /\ (enabled => Begun = 1) /\ (~enabled => Begun = 0)
  BY DEF Begun
<1>b1. (enabled' => Begun' = 1) /\ (enabled' = enabled => Begun' = Begun)
  BY DEF Begun
<1>1. ASSUME UNCHANGED <<num, seeking, stopping, enabled, Ends, Ups, Downs, Falls, Tries>> PROVE Pipeline'
  BY <1>1, <1>s1, <1>b1, <1>p, <1>q
<1>2. Still => UNCHANGED <<num, Ends, Ups, Downs, Falls, Tries>>
  BY DEF Still, Ends, Ups, Downs, Falls, Tries
<1>3. CASE EnableCbk
  <2>1. UNCHANGED <<num, Ends, Ups, Downs, Falls, Tries>>
    BY <1>3, <1>2, StillSteps
  <2>2. ~enabled /\ enabled' /\ seeking' /\ stopping' = stopping
    BY <1>3 DEF EnableCbk
  <2>3. Ends = 0 /\ Tries = 0 /\ Ups = 0 /\ Seek = 0
    BY <2>2, <1>b, <1>p, <1>k, <1>s
  <2>4. Seek' = 1 /\ Begun' = 1
    BY <2>2, <1>s1, <1>b1
  <2>5. Seek' + Ends' + Tries' + Ups' <= Begun' /\ Ends' + Tries' + Ups' = 0
    BY <2>1, <2>3, <2>4
  <2>6. ~stopping'
    BY <2>2, <2>3, <1>s, <1>p
  <2>7. Ends' + Tries' + Ups' > 0 => num' < MaxCon
    BY <2>5
  <2> QED BY <2>1, <2>5, <2>6, <2>7, <1>p, <1>q
<1>4. ASSUME NEW s \in Servers, SeekResult(s) PROVE Pipeline'
  <2>1. UNCHANGED <<num, Ends, Ups, Downs, Falls, Tries>>
    BY <1>4, <1>2, StillSteps
  <2>2. seeking /\ seeking' = seeking /\ enabled' = enabled /\ num < MaxCon
    BY <1>4 DEF SeekResult
  <2>3. Seek' = Seek /\ Begun' = Begun
    BY <2>2, <1>s1, <1>b1
  <2> QED BY <2>1, <2>2, <2>3, <1>p, <1>q
<1>5. CASE SeekDisabled
  <2>1. /\ cbs # <<>> /\ cbs' = Tail(cbs) /\ Head(cbs).what = "seek disabled"
        /\ UNCHANGED <<num, link, enabled, seeking, stopping>>
        /\ connecting' = connecting \cup ({remote} \ link)
    BY <1>5 DEF SeekDisabled, Served, client
  <2>2. Ends' = Ends - 1 /\ Ends' \in Nat /\ Ups' = Ups /\ Downs' = Downs /\ Falls' = Falls
    BY <2>1, ServedFacts
  <2>3. Ends = 1 /\ Tries = 0 /\ Ups = 0 /\ Seek = 0 /\ Begun = 1 /\ num < MaxCon
    BY <2>2, <1>b, <1>p, <1>k, <1>s
  <2>4. connecting = {}
    BY <2>3, Finite, FS_EmptySet DEF Tries
  <2>5. Tries' \in {0, 1}
    <3>1. connecting' = {} \/ connecting' = {remote}
      BY <2>1, <2>4
    <3>2. Cardinality({}) = 0 /\ Cardinality({remote}) = 1
      BY FS_EmptySet, FS_Singleton
    <3> QED BY <3>1, <3>2 DEF Tries
  <2>6. Seek' = 0 /\ Begun' = 1
    BY <2>1, <2>3, <1>s1, <1>b1
  <2>8. Ends' = 0 /\ Ups' = 0
    BY <2>2, <2>3
  <2>7. Seek' + Ends' + Tries' + Ups' <= Begun'
    <3>1. CASE Tries' = 0
      BY <3>1, <2>6, <2>8
    <3>2. CASE Tries' = 1
      BY <3>2, <2>6, <2>8
    <3> QED BY <2>5, <3>1, <3>2
  <2> QED BY <2>1, <2>2, <2>3, <2>7, <1>p, <1>q
<1>6. CASE PairComplete
  <2>1. /\ cbs # <<>> /\ cbs' = Tail(cbs) /\ Head(cbs).what = "paired"
        /\ UNCHANGED <<num, link, enabled, seeking, stopping, connecting>>
    BY <1>6 DEF PairComplete, Served, client
  <2>2. UNCHANGED <<Ends, Ups, Downs, Falls>>
    BY <2>1, ServedFacts
  <2>3. Tries' = Tries
    BY <2>1 DEF Tries
  <2> QED BY <2>1, <2>2, <2>3, <1>1
<1>7. CASE Connected
  <2>1. /\ cbs # <<>> /\ cbs' = Tail(cbs) /\ Head(cbs).what = "connected"
        /\ UNCHANGED <<link, enabled, stopping, connecting>> /\ seeking'
    BY <1>7 DEF Connected, Served
  <2>2. Ups' = Ups - 1 /\ Ups' \in Nat /\ Ends' = Ends /\ Downs' = Downs /\ Falls' = Falls
    BY <2>1, ServedFacts
  <2>3. Ups = 1 /\ Tries = 0 /\ Ends = 0 /\ Seek = 0 /\ Begun = 1
    BY <2>2, <1>b, <1>p, <1>k, <1>s
  <2>4. ~stopping'
    BY <2>1, <2>3, <1>s, <1>p
  <2>5. Seek' = 1 /\ Begun' = Begun /\ Tries' = Tries
    BY <2>1, <1>s1, <1>b1 DEF Tries
  <2>6. Seek' + Ends' + Tries' + Ups' <= Begun' /\ Ends' + Tries' + Ups' = 0
    BY <2>2, <2>3, <2>5
  <2>7. Ends' + Tries' + Ups' > 0 => num' < MaxCon
    BY <2>6
  <2> QED BY <2>2, <2>4, <2>6, <2>7, <1>p, <1>q
<1>8. ~Disconnected
  <2> SUFFICES ASSUME Disconnected PROVE FALSE
    OBVIOUS
  <2>1. /\ cbs # <<>> /\ cbs' = Tail(cbs) /\ Head(cbs).what \in {"disconnected", "failed"} /\ link' = link
    BY DEF Disconnected, Parted, Served
  <2>2. \/ Downs' = Downs - 1 /\ Downs' \in Nat
        \/ Falls' = Falls - 1 /\ Falls' \in Nat
    BY <2>1, ServedFacts
  <2> QED BY <2>2, <1>p
<1>9. CASE StackSeekStop
  <2>1. stopping /\ ~stopping' /\ ~seeking' /\ UNCHANGED <<num, connecting, enabled>>
    BY <1>9 DEF StackSeekStop, client
  <2>2. Ends' = Ends + 1 /\ Ups' = Ups /\ Downs' = Downs /\ Falls' = Falls
    BY <1>9, SeekStopFacts
  <2>3. Tries' = Tries /\ Begun' = Begun /\ Seek' = 0
    BY <2>1, <1>b1, <1>s1 DEF Tries
  <2>4. Seek = 1 /\ num < MaxCon
    BY <2>1, <1>p, <1>s
  <2>5. Seek' + Ends' + Tries' + Ups' <= Begun'
    BY <2>2, <2>3, <2>4, <1>p, <1>k, <1>b
  <2> QED BY <2>1, <2>2, <2>4, <2>5, <1>p, <1>q
<1>10. ASSUME NEW s \in Servers, StackConnect(s) PROVE Pipeline'
  <2>1. UNCHANGED <<num, enabled, seeking, stopping>>
    BY <1>10 DEF StackConnect, client
  <2>2. Ups' = Ups + 1 /\ Ends' = Ends /\ Downs' = Downs /\ Falls' = Falls /\ Tries' = Tries - 1
    BY <1>10, StackConnectFacts
  <2>3. Tries # 0
    <3>1. connecting # {} /\ IsFiniteSet(connecting)
      BY <1>10, Finite DEF StackConnect
    <3> QED BY <3>1, FS_EmptySet DEF Tries
  <2>4. Seek' = Seek /\ Begun' = Begun
    BY <2>1, <1>s1, <1>b1
  <2>5. Seek' + Ends' + Tries' + Ups' <= Begun' /\ Ends + Tries + Ups > 0
    BY <2>2, <2>3, <2>4, <1>p, <1>k, <1>s, <1>b
  <2> QED BY <2>1, <2>2, <2>5, <1>p, <1>q
<1>11. ASSUME NEW s \in Servers PROVE ~StackDisconnect(s) /\ ~StackConnectFails(s)
  BY <1>0 DEF StackDisconnect, StackConnectFails
<1>12. ASSUME NEW s \in Servers, Server(s) PROVE Pipeline'
  <2>1. UNCHANGED <<seeking, stopping, enabled>>
    BY <1>12 DEF Server, ServerConnected, ServerPaired, ServerDisconnected, ServerTask, stack
  <2> QED BY <2>1, <1>12, <1>1, <1>2, StillSteps
<1>13. CASE UNCHANGED vars
  BY <1>13, <1>1, <1>2, StillSteps DEF vars, stack
<1> QED
  BY <1>3, <1>4, <1>5, <1>6, <1>7, <1>8, <1>9, <1>10, <1>11, <1>12, <1>13 DEF Next, Client

\* Every action keeps the known links in the table before the first loss.
LEMMA TableStep ==
  ASSUME Kinds, Even, \A s \in Servers : Turn(s), Losses, Drift, Pipeline, Table, [Next]_vars
  PROVE  Table'
<1> SUFFICES ASSUME leaves' = 0 /\ fails' = 0 PROVE Table'
  BY DEF Table
<1>0. leaves = 0 /\ fails = 0
  BY LossesStay DEF Losses
<1> USE <1>0
<1>1. CASE UNCHANGED <<num, ids, overrun, Known(cbs, link)>>
  BY <1>1 DEF Table
<1>2. Still => UNCHANGED <<num, ids, overrun, Known(cbs, link)>>
  BY DEF Still
<1>3. SeekDisabled \/ PairComplete => UNCHANGED <<num, ids, overrun, Known(cbs, link)>>
  <2> SUFFICES ASSUME SeekDisabled \/ PairComplete PROVE UNCHANGED <<num, ids, overrun, Known(cbs, link)>>
    OBVIOUS
  <2>1. /\ cbs # <<>> /\ cbs' = Tail(cbs) /\ link' = link /\ UNCHANGED <<num, ids, overrun>>
        /\ Head(cbs).what \in {"seek disabled", "paired"}
    BY DEF SeekDisabled, PairComplete, Served, client
  <2> QED BY <2>1, ServedFacts
<1>4. CASE Connected
  <2>1. /\ cbs # <<>> /\ cbs' = Tail(cbs) /\ Head(cbs).what = "connected" /\ link' = link
        /\ Enter(Head(cbs).id)
    BY <1>4 DEF Connected, Served
  <2>2. /\ Head(cbs).id \notin Known(cbs, link)
        /\ Known(cbs, link)' = Known(cbs, link) \cup {Head(cbs).id}
        /\ Ups' = Ups - 1 /\ Ups' \in Nat
    BY <2>1, ServedFacts
  <2>3. num < MaxCon /\ num \in Nat
    <3>1. Ends \in Nat /\ Tries \in Nat /\ Ups \in Nat
      BY Finite
    <3>2. Ends + Tries + Ups > 0
      BY <3>1, <2>2
    <3> QED BY <3>2 DEF Pipeline, Kinds
  <2>4. /\ ids' = [ids EXCEPT ![num] = Head(cbs).id] /\ num' = num + 1 /\ overrun' = overrun
        /\ num \in 0 .. MaxCon - 1
    BY <2>1, <2>3, BoundAssumption DEF Enter, BoundAssumption
  <2>5. \A i \in 0 .. num - 1 : ids'[i] = ids[i] /\ ids[i] \in Known(cbs, link)
    BY <2>3, <2>4 DEF Kinds, Table
  <2>6. ids'[num] = Head(cbs).id
    BY <2>4 DEF Kinds
  <2>7. \A i : i \in 0 .. num' - 1 <=> i \in 0 .. num - 1 \/ i = num
    BY <2>3, <2>4
  <2>8. {ids'[i] : i \in 0 .. num' - 1} = Known(cbs, link)'
    <3>1. {ids[i] : i \in 0 .. num - 1} = Known(cbs, link)
      BY DEF Table
    <3> QED BY <3>1, <2>2, <2>5, <2>6, <2>7
  <2>9. \A i, j \in 0 .. num' - 1 : ids'[i] = ids'[j] => i = j
    BY <2>2, <2>5, <2>6, <2>7 DEF Table
  <2>10. ~overrun' /\ num' <= MaxCon
    BY <2>3, <2>4, BoundAssumption DEF Table, BoundAssumption
  <2> QED BY <2>8, <2>9, <2>10 DEF Table
<1>5. ~Disconnected
  <2> SUFFICES ASSUME Disconnected PROVE FALSE
    OBVIOUS
  <2>1. /\ cbs # <<>> /\ cbs' = Tail(cbs) /\ Head(cbs).what \in {"disconnected", "failed"} /\ link' = link
    BY DEF Disconnected, Parted, Served
  <2>2. \/ Downs' = Downs - 1 /\ Downs' \in Nat
        \/ Falls' = Falls - 1 /\ Falls' \in Nat
    BY <2>1, ServedFacts
  <2> QED BY <2>2 DEF Pipeline
<1>6. StackSeekStop => UNCHANGED <<num, ids, overrun, Known(cbs, link)>>
  BY SeekStopFacts DEF StackSeekStop, client
<1>7. ASSUME NEW s \in Servers, StackConnect(s) PROVE UNCHANGED <<num, ids, overrun, Known(cbs, link)>>
  BY <1>7, StackConnectFacts DEF StackConnect, client
<1>8. ASSUME NEW s \in Servers PROVE ~StackDisconnect(s) /\ ~StackConnectFails(s)
  BY DEF StackDisconnect, StackConnectFails, Losses
<1> QED BY <1>1, <1>2, <1>3, <1>4, <1>5, <1>6, <1>7, <1>8, StillSteps DEF Next, Client

\* The table's end is passed only after a loss or a failure.
LEMMA OverranStep ==
  ASSUME Kinds, Even, Losses, Drift, Pipeline, Table, Overran, [Next]_vars
  PROVE  Overran'
<1>s. (leaves > 0 => leaves' > 0) /\ (fails > 0 => fails' > 0)
  BY LossesStay
<1>1. ASSUME overrun' = overrun PROVE Overran'
  BY <1>1, <1>s DEF Overran
<1>2. CASE Connected /\ ~overrun
  <2>1. /\ cbs # <<>> /\ cbs' = Tail(cbs) /\ Head(cbs).what = "connected" /\ link' = link
        /\ Enter(Head(cbs).id) /\ UNCHANGED <<leaves, fails>>
    BY <1>2 DEF Connected, Served
  <2> SUFFICES ASSUME overrun', fails = 0
               PROVE  leaves > 0 /\ Cardinality(Named) > MaxCon
    BY <2>1 DEF Overran, Losses
  <2>2. ~(num < MaxCon) /\ num = K /\ num \in Nat /\ MaxCon \in Nat
    <3>1. ~(num < MaxCon)
      BY <1>2, <2>1 DEF Enter
    <3>2. num = K
      BY <1>2 DEF Drift
    <3> QED BY <3>1, <3>2, BoundAssumption DEF Kinds, BoundAssumption
  <2>3. /\ K' = K + 1 /\ cbs' \in Seq(Events)
        /\ Ups' = Ups - 1 /\ Ups' \in Nat
    BY <2>1, ServedFacts
  <2>4. K' <= Cardinality(Named)
    <3>1. Known(cbs', link') \in SUBSET Named
      BY <2>1, <2>3, KnownNamed DEF Kinds
    <3> QED BY <3>1, Finite, FS_Subset DEF K
  <2>5. leaves # 0
    <3>1. Ends \in Nat /\ Tries \in Nat /\ Ups \in Nat
      BY Finite
    <3>2. Ends + Tries + Ups > 0
      BY <3>1, <2>3
    <3> QED BY <3>2, <2>2 DEF Pipeline
  <2>6. Cardinality(Named) \in Nat /\ leaves \in Nat
    BY Finite DEF Losses
  <2>7. K + 1 <= Cardinality(Named)
    BY <2>3, <2>4
  <2> QED BY <2>2, <2>5, <2>6, <2>7
<1>3. ASSUME EnableCbk \/ SeekDisabled \/ PairComplete \/ Disconnected \/ StackSeekStop \/ UNCHANGED vars
      PROVE  Overran'
  BY <1>1, <1>3 DEF EnableCbk, SeekDisabled, PairComplete, Disconnected, StackSeekStop, vars, client
<1>4. ASSUME NEW s \in Servers,
             SeekResult(s) \/ Server(s) \/ StackConnect(s) \/ StackDisconnect(s) \/ StackConnectFails(s)
      PROVE  Overran'
  BY <1>1, <1>4 DEF SeekResult, Server, ServerConnected, ServerPaired, ServerDisconnected, ServerTask,
     StackConnect, StackDisconnect, StackConnectFails, client
<1>6. CASE Connected /\ overrun
  BY <1>6, <1>s DEF Overran
<1>7. Connected => Overran'
  BY <1>2, <1>6
<1> QED BY <1>3, <1>4, <1>7 DEF Next, Client

-----------------------------------------------------------------------------
(* Theorems.                                                               *)

\* Links are lost, and attempts fail, only up to the bounds.
LEMMA LossesStep == ASSUME Losses, [Next]_vars PROVE Losses'
<1>1. UNCHANGED leaves \/ (leaves < MaxLeaves /\ leaves' = leaves + 1)
  BY DEF Next, Client, EnableCbk, SeekDisabled, Connected, PairComplete, Disconnected, StackSeekStop,
     SeekResult, Server, ServerConnected, ServerPaired, ServerDisconnected, ServerTask, StackConnect,
     StackDisconnect, StackConnectFails, vars, stack
<1>2. UNCHANGED fails \/ (fails < MaxFails /\ fails' = fails + 1)
  BY DEF Next, Client, EnableCbk, SeekDisabled, Connected, PairComplete, Disconnected, StackSeekStop,
     SeekResult, Server, ServerConnected, ServerPaired, ServerDisconnected, ServerTask, StackConnect,
     StackDisconnect, StackConnectFails, vars, stack
<1> QED BY <1>1, <1>2, BoundAssumption DEF Losses, BoundAssumption

\* IInv holds when every server announces and no client has started.
LEMMA InitIInv == ASSUME Init PROVE IInv
<1> USE DEF Init
<1>1. Kinds /\ ServerKinds
  <2>1. <<>> \in Seq(Events) /\ <<>> \in Seq(Callbacks) /\ Len(<<>>) = 0
    OBVIOUS
  <2>2. NoSeekEnd(cbs)
    BY NoSeekEndEmpty
  <2>6. num \in 0 .. Values - 1
    BY DEF Values
  <2>7. ids \in [0 .. MaxCon - 1 -> Servers \cup {0}]
    OBVIOUS
  <2>3. Kinds
    BY <2>1, <2>2, <2>6, <2>7 DEF Kinds
  <2>4. scbs \in [Servers -> Seq(Callbacks)]
    BY <2>1
  <2>5. ServerKinds
    BY <2>4 DEF ServerKinds
  <2> QED BY <2>3, <2>5
<1>2. \A s \in Servers : Told(s) /\ Turn(s)
  BY Differ DEF Told, Turn
<1>3. Len(cbs) = 0
  OBVIOUS
<1>4. Alternate(cbs, link) /\ Known(cbs, link) = {} /\ \A w : {i \in 1 .. Len(cbs) : cbs[i].what = w} = {}
  BY <1>3 DEF Alternate, Known, On
<1>5. Cardinality({}) = 0
  BY FS_EmptySet
<1>6. K = 0 /\ Ends = 0 /\ Ups = 0 /\ Downs = 0 /\ Falls = 0 /\ Links = 0 /\ Tries = 0
  BY <1>4, <1>5 DEF Count, K, Ends, Ups, Downs, Falls, Links, Tries
<1>7. Even
  BY <1>4, <1>5, <1>6 DEF Even
<1>8. Losses
  BY BoundAssumption DEF Losses, BoundAssumption
<1>9. Drift /\ Overran
  BY <1>6 DEF Drift, Overran
<1>10. Pipeline
  BY <1>6 DEF Pipeline, Seek, Begun
<1>11. Table
  <2>1. 0 .. num - 1 = {}
    OBVIOUS
  <2> QED BY <2>1, <1>4, BoundAssumption DEF Table, BoundAssumption
<1> QED BY <1>1, <1>2, <1>7, <1>8, <1>9, <1>10, <1>11 DEF IInv

\* Every action keeps IInv.
LEMMA NextIInv == ASSUME IInv, [Next]_vars PROVE IInv'
<1> USE DEF IInv
<1>1. Kinds' /\ Losses' /\ ServerKinds' /\ \A s \in Servers : Told(s)' /\ Turn(s)'
  BY KindsStep, LossesStep, ServersStep
<1>2. Even' /\ Drift' /\ Pipeline' /\ Table' /\ Overran'
  BY EvenStep, DriftStep, PipelineStep, TableStep, OverranStep
<1> QED BY <1>1, <1>2

\* IInv holds in every run.
THEOREM Invariance == Spec => []IInv
BY InitIInv, NextIInv, PTL DEF Spec

\* A link is known, if none was lost, as soon as its callback was served.
LEMMA KnownIsTold ==
  ASSUME Kinds, Downs = 0
  PROVE  Known(cbs, link) = ToldLinks
<1>1. cbs \in Seq(Events) /\ DOMAIN cbs = 1 .. Len(cbs) /\ Len(cbs) \in Nat
  BY LenProperties DEF Kinds
<1>2. {i \in 1 .. Len(cbs) : cbs[i].what = "disconnected"} = {}
  BY <1>1, CountType, FS_EmptySet DEF Downs, Count
<1>3. \A i \in 1 .. Len(cbs) : \A s : ~Says(cbs, i, s, "disconnected")
  BY <1>2 DEF Says
<1>4. \A s : On(cbs, link, 0, s) <=> s \in link /\ \A i \in 1 .. Len(cbs) : ~Says(cbs, i, s, "connected")
  BY <1>1, <1>3 DEF On, Talks
<1>5. \A s : \A i \in 1 .. Len(cbs) : Says(cbs, i, s, "connected") <=> cbs[i] = Cb("connected", s)
  BY <1>1, SaysCb
<1>6. link \subseteq Servers
  BY ServersAssumption DEF Kinds, ServersAssumption
<1> QED BY <1>1, <1>4, <1>5, <1>6 DEF Known, ToldLinks

\* For every number of servers, losses and failed attempts: the number counts
\* the links, less the failed attempts, modulo 2^16; the table is overrun only
\* after a failed attempt, or a loss with more servers than places; and before
\* the first of either it has the links, each once.
THEOREM IdsCorrect == Spec => []IdsAreLinks
<1>1. ASSUME IInv PROVE IdsAreLinks
  <2> USE <1>1 DEF IInv
  <2>1. DOMAIN cbs = 1 .. Len(cbs)
    BY LenProperties DEF Kinds
  <2>2. /\ Waiting("connected") = Ups /\ Waiting("disconnected") = Downs
        /\ Waiting("failed") = Falls /\ Cardinality(link) = Links
    BY <2>1 DEF Waiting, Quantify, Count, Ups, Downs, Falls, Links
  <2>3. ~overrun =>
          (num + Ups + fails) % Values
            = (Links + Downs + Falls) % Values
    <3> SUFFICES ASSUME ~overrun
                 PROVE  (num + Ups + fails) % Values
                          = (Links + Downs + Falls) % Values
      OBVIOUS
    <3>1. /\ num \in Nat /\ K \in Nat /\ Ups \in Nat /\ Downs \in Nat /\ Falls \in Nat
          /\ Links \in Nat /\ fails \in Nat /\ K + Ups = Links + Downs
      BY Finite DEF Kinds, Losses, Even
    <3>2. Wrap(num + fails) = Wrap(K + Falls)
      BY DEF Drift
    <3>3. num + fails \in Nat /\ K + Falls \in Nat
      BY <3>1
    <3>4. Wrap((num + fails) + Ups) = Wrap((K + Falls) + Ups)
      BY <3>1, <3>2, <3>3, Wraps
    <3>5. num + Ups + fails = (num + fails) + Ups /\ Links + Downs + Falls = (K + Falls) + Ups
      BY <3>1
    <3> QED BY <3>4, <3>5 DEF Wrap
  <2>4. leaves = 0 /\ fails = 0 => Known(cbs, link) = ToldLinks
    BY KnownIsTold DEF Pipeline
  <2> QED BY <2>2, <2>3, <2>4 DEF IdsAreLinks, Overran, Table
<1> QED BY <1>1, Invariance, PTL

\* A server that takes bytes from its UART for a client has that client's link
\* as its handle, and the link is there or its loss is on the way.
THEOREM PairedCorrect == Spec => []PairedIsLinked
<1>1. ASSUME IInv PROVE PairedIsLinked
  <2> SUFFICES ASSUME NEW s \in Servers, pair[s], s \notin link
               PROVE  hdl[s] = s /\ \E i \in DOMAIN scbs[s] : scbs[s][i].what = "disconnected"
    BY <1>1, Differ DEF IInv, Told, PairedIsLinked
  <2>1. scbs[s] = Lost(s) /\ hdl[s] = s
    BY <1>1, Differ DEF IInv, Told
  <2>2. 1 \in DOMAIN Lost(s) /\ Lost(s)[1].what = "disconnected"
    BY Names DEF Lost
  <2> QED BY <2>1, <2>2
<1> QED BY <1>1, Invariance, PTL

\* Every variable keeps its type, for every number of servers.
THEOREM TypeCorrect == Spec => []TypeOK
<1>1. ASSUME IInv PROVE TypeOK
  <2>1. Named \subseteq Servers
    BY ServersAssumption DEF ServersAssumption
  <2>2. msgs \in [Servers -> 0 .. QueueLen]
    <3>1. {0, 1} \subseteq 0 .. QueueLen
      BY BoundAssumption DEF BoundAssumption
    <3>2. msgs \in [Servers -> {0, 1}]
      BY <1>1 DEF IInv, ServerKinds
    <3> QED BY <3>1, <3>2
  <2>3. onair \subseteq Servers \ link
    BY <1>1 DEF IInv, Kinds, Turn
  <2>4. cbs \in Seq(Callbacks)
    <3>1. Events \subseteq Callbacks /\ cbs \in Seq(Events)
      BY <1>1 DEF IInv, Kinds, Events
    <3> QED BY <3>1
  <2>5. leaves \in 0 .. MaxLeaves /\ fails \in 0 .. MaxFails
    BY <1>1, BoundAssumption DEF IInv, Losses, BoundAssumption
  <2> QED BY <1>1, <2>1, <2>2, <2>3, <2>4, <2>5 DEF IInv, Kinds, ServerKinds, TypeOK
<1> QED BY <1>1, Invariance, PTL

=============================================================================
