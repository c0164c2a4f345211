----------------------------- MODULE OneToMany ------------------------------
(***************************************************************************)
(* One client and many servers (samples/peripheral/sle_one_to_many): the   *)
(* client seeks servers by name and connects them one after the other; a   *)
(* server that loses its client announces itself again.                    *)
(*                                                                         *)
(* The stack is external.  It makes and loses links and reports to both    *)
(* ends by callbacks, which wait in a queue per device until its SLE task  *)
(* serves them, and carries out the end of a seek later than it is asked   *)
(* for.  An attempt to connect waits until the device announces, or fails  *)
(* and is reported as a disconnection; one to a device already linked does *)
(* nothing.  A link's id is its server's.                                  *)
(*                                                                         *)
(* Abstracted: the name a server announces is the client's or another one. *)
(* Left out: the service database, requests for an exchange of             *)
(* information, the text the UART carries, and calls that fail.            *)
(***************************************************************************)
EXTENDS Naturals, Sequences, FiniteSets, FiniteSetsExt

CONSTANTS
  Servers,    \* the servers in range, numbered as their links are
  Named,      \* those that announce themselves as SLE_UART_SERVER_NAME
  MaxCon,     \* SLE_UART_CLIENT_MAX_CON
  QueueLen,   \* SLE_UART_SERVER_MSG_QUEUE_LEN
  MaxLeaves,  \* bound: links that are lost
  MaxFails    \* bound: attempts to connect that fail

\* How many values a uint16_t has.
Values == 65536

ASSUME ServersAssumption ==
  Servers \subseteq Nat \ {0} /\ IsFiniteSet(Servers) /\ Named \subseteq Servers
ASSUME BoundAssumption ==
  /\ MaxCon \in 1 .. Values - 1 /\ QueueLen \in Nat \ {0}
  /\ MaxLeaves \in Nat /\ MaxFails \in Nat

VARIABLES
  (* client *)
  num, ids,      \* g_sle_uart_conn_num, g_sle_uart_conn_id
  remote,        \* g_sle_uart_remote_addr
  overrun,       \* an id was written past the end of the table
  (* server *)
  hdl, pair,     \* g_sle_conn_hdl; g_sle_pair_hdl # 0
  msgs,          \* messages in the queue of the server's task
  (* stack *)
  enabled,       \* the client's stack has called sle_enable_cb
  seeking, stopping, connecting,  \* client: a seek runs, is to end; attempts to connect
  link,          \* the servers that are linked
  onair,         \* the servers that announce
  cbs, scbs,     \* callbacks on their way to the client, to each server
  leaves, fails  \* links lost, attempts failed so far

client == <<num, ids, remote, overrun>>
server == <<hdl, pair, msgs>>
stack == <<enabled, seeking, stopping, connecting, link, onair, cbs, scbs, leaves, fails>>
vars == <<client, server, stack>>

Cb(what, s) == [what |-> what, id |-> s]

\* Every server has initialized: it announces and has no client.
Init ==
  /\ num = 0 /\ ids = [i \in 0 .. MaxCon - 1 |-> 0]
  /\ remote = 0 /\ overrun = FALSE
  /\ hdl = [s \in Servers |-> 0] /\ pair = [s \in Servers |-> FALSE]
  /\ msgs = [s \in Servers |-> 0]
  /\ enabled = FALSE
  /\ seeking = FALSE /\ stopping = FALSE /\ connecting = {}
  /\ link = {} /\ onair = Servers
  /\ cbs = <<>> /\ scbs = [s \in Servers |-> <<>>]
  /\ leaves = 0 /\ fails = 0

-----------------------------------------------------------------------------
(* The client.                                                             *)

\* sle_enable_cb starts the first scan.
EnableCbk ==
  /\ ~enabled
  /\ enabled' = TRUE /\ seeking' = TRUE
  /\ UNCHANGED <<client, server, stopping, connecting, link, onair, cbs, scbs, leaves, fails>>

\* seek_result_info_cbk: of a device with the name, unless the table is full,
\* keep the address and end the seek.
SeekResult(s) ==
  /\ seeking /\ s \in onair
  /\ num < MaxCon /\ s \in Named
  /\ remote' = s /\ stopping' = TRUE
  /\ UNCHANGED <<num, ids, overrun, server, enabled, seeking, connecting, link, onair, cbs, scbs, leaves, fails>>

Served(what) == cbs # <<>> /\ Head(cbs).what = what /\ cbs' = Tail(cbs)

\* seek_disable_cbk connects the address kept last.
SeekDisabled ==
  /\ Served("seek disabled")
  /\ connecting' = connecting \cup ({remote} \ link)
  /\ UNCHANGED <<client, server, enabled, seeking, stopping, link, onair, scbs, leaves, fails>>

\* The id goes to the end of the table, wherever that is: what lies behind the
\* table, the count itself perhaps, is overwritten when the table is full.
Enter(id) ==
  IF num < MaxCon
  THEN /\ ids' = [ids EXCEPT ![num] = id]
       /\ num' = num + 1
       /\ UNCHANGED overrun
  ELSE /\ overrun' = TRUE
       /\ num' \in {(num + 1) % Values, (id + 1) % Values}
       /\ UNCHANGED ids

\* Mutant: a new connection does not resume the seek.
ConnectedNoSeek ==
  /\ Served("connected")
  /\ Enter(Head(cbs).id)
  /\ UNCHANGED <<remote, server, enabled, seeking, stopping, connecting, link, onair, scbs, leaves, fails>>

\* connect_state_changed_cbk, CONNECTED: the seek is resumed.
Connected ==
  /\ Served("connected")
  /\ Enter(Head(cbs).id)
  /\ seeking' = TRUE
  /\ UNCHANGED <<remote, server, enabled, stopping, connecting, link, onair, scbs, leaves, fails>>

\* pair_complete_cbk only asks for an exchange of information.
PairComplete ==
  /\ Served("paired")
  /\ UNCHANGED <<client, server, enabled, seeking, stopping, connecting, link, onair, scbs, leaves, fails>>

\* A link is lost or an attempt has failed: the client cannot tell.
Parted == Served("disconnected") \/ Served("failed")

\* Mutant: the count is left alone.
DisconnectedKeeps ==
  /\ Parted
  /\ seeking' = TRUE
  /\ UNCHANGED <<client, server, enabled, stopping, connecting, link, onair, scbs, leaves, fails>>

\* ... DISCONNECTED: only the count changes, whichever link it was; it wraps.
Disconnected ==
  /\ Parted
  /\ num' = (num + (Values - 1)) % Values
  /\ seeking' = TRUE
  /\ UNCHANGED <<ids, remote, overrun, server, enabled, stopping, connecting, link, onair, scbs, leaves, fails>>

-----------------------------------------------------------------------------
(* A server.                                                               *)

ServedBy(s, what) ==
  scbs[s] # <<>> /\ Head(scbs[s]).what = what /\ scbs' = [scbs EXCEPT ![s] = Tail(scbs[s])]

ServerConnected(s) ==
  /\ ServedBy(s, "connected")
  /\ hdl' = [hdl EXCEPT ![s] = Head(scbs[s]).id]
  /\ UNCHANGED <<client, pair, msgs, enabled, seeking, stopping, connecting, link, onair, cbs, leaves, fails>>

\* pair_complete_cbk, or mtu_changed_cbk when that comes first.
ServerPaired(s) ==
  /\ ServedBy(s, "paired")
  /\ pair' = [pair EXCEPT ![s] = TRUE]
  /\ UNCHANGED <<client, hdl, msgs, enabled, seeking, stopping, connecting, link, onair, cbs, leaves, fails>>

\* Mutant: the pairing survives the link.
ServerDisconnectedPaired(s) ==
  /\ ServedBy(s, "disconnected")
  /\ hdl' = [hdl EXCEPT ![s] = 0]
  /\ msgs' = [msgs EXCEPT ![s] = IF @ < QueueLen THEN @ + 1 ELSE @]
  /\ UNCHANGED <<client, pair, enabled, seeking, stopping, connecting, link, onair, cbs, leaves, fails>>

\* The task is told to announce; a message that finds the queue full is lost.
ServerDisconnected(s) ==
  /\ ServedBy(s, "disconnected")
  /\ hdl' = [hdl EXCEPT ![s] = 0] /\ pair' = [pair EXCEPT ![s] = FALSE]
  /\ msgs' = [msgs EXCEPT ![s] = IF @ < QueueLen THEN @ + 1 ELSE @]
  /\ UNCHANGED <<client, enabled, seeking, stopping, connecting, link, onair, cbs, leaves, fails>>

\* Mutant: the message is taken, the announcement is not started.
ServerTaskIgnores(s) ==
  /\ msgs[s] > 0
  /\ msgs' = [msgs EXCEPT ![s] = @ - 1]
  /\ UNCHANGED <<client, hdl, pair, stack>>

\* sle_uart_server_task: every message starts the announcement.
ServerTask(s) ==
  /\ msgs[s] > 0
  /\ msgs' = [msgs EXCEPT ![s] = @ - 1]
  /\ onair' = onair \cup {s}
  /\ UNCHANGED <<client, hdl, pair, enabled, seeking, stopping, connecting, link, cbs, scbs, leaves, fails>>

-----------------------------------------------------------------------------
(* The stack.                                                              *)

StackSeekStop ==
  /\ stopping
  /\ stopping' = FALSE /\ seeking' = FALSE
  /\ cbs' = Append(cbs, Cb("seek disabled", 0))
  /\ UNCHANGED <<client, server, enabled, connecting, link, onair, scbs, leaves, fails>>

\* The link ends the server's announcement; pairing completes on both sides.
StackConnect(s) ==
  /\ s \in connecting /\ s \in onair
  /\ connecting' = connecting \ {s}
  /\ link' = link \cup {s} /\ onair' = onair \ {s}
  /\ cbs' = cbs \o <<Cb("connected", s), Cb("paired", s)>>
  /\ scbs' = [scbs EXCEPT ![s] = @ \o <<Cb("connected", s), Cb("paired", s)>>]
  /\ UNCHANGED <<client, server, enabled, seeking, stopping, leaves, fails>>

StackDisconnect(s) ==
  /\ s \in link /\ leaves < MaxLeaves
  /\ leaves' = leaves + 1
  /\ link' = link \ {s}
  /\ cbs' = Append(cbs, Cb("disconnected", s))
  /\ scbs' = [scbs EXCEPT ![s] = Append(@, Cb("disconnected", s))]
  /\ UNCHANGED <<client, server, enabled, seeking, stopping, connecting, onair, fails>>

StackConnectFails(s) ==
  /\ s \in connecting /\ fails < MaxFails
  /\ fails' = fails + 1
  /\ connecting' = connecting \ {s}
  /\ cbs' = Append(cbs, Cb("failed", s))
  /\ UNCHANGED <<client, server, enabled, seeking, stopping, link, onair, scbs, leaves>>

Client == EnableCbk \/ SeekDisabled \/ Connected \/ PairComplete \/ Disconnected

Server(s) == ServerConnected(s) \/ ServerPaired(s) \/ ServerDisconnected(s) \/ ServerTask(s)

Next ==
  \/ Client \/ StackSeekStop
  \/ \E s \in Servers :
       \/ SeekResult(s) \/ Server(s)
       \/ StackConnect(s) \/ StackDisconnect(s) \/ StackConnectFails(s)

\* Tasks run, the stack does what it is asked, and a seek that lasts hears
\* every announcement.  Links need not be lost, and attempts need not fail.
Fairness ==
  /\ WF_vars(Client) /\ WF_vars(StackSeekStop)
  /\ \A s \in Servers : WF_vars(Server(s)) /\ WF_vars(StackConnect(s)) /\ SF_vars(SeekResult(s))

Spec == Init /\ [][Next]_vars /\ Fairness

-----------------------------------------------------------------------------
(* Properties.                                                             *)

What == {"seek disabled", "connected", "paired", "disconnected", "failed"}
Callbacks == [what : What, id : Servers \cup {0}]

\* Every variable has its type.
TypeOK ==
  /\ num \in 0 .. Values - 1 /\ ids \in [0 .. MaxCon - 1 -> Servers \cup {0}]
  /\ remote \in Servers \cup {0} /\ overrun \in BOOLEAN
  /\ hdl \in [Servers -> Servers \cup {0}] /\ pair \in [Servers -> BOOLEAN]
  /\ msgs \in [Servers -> 0 .. QueueLen]
  /\ enabled \in BOOLEAN /\ seeking \in BOOLEAN /\ stopping \in BOOLEAN
  /\ connecting \subseteq Servers /\ link \subseteq Servers /\ onair \subseteq Servers \ link
  /\ cbs \in Seq(Callbacks) /\ scbs \in [Servers -> Seq(Callbacks)]
  /\ leaves \in 0 .. MaxLeaves /\ fails \in 0 .. MaxFails

Waiting(what) == Quantify(DOMAIN cbs, LAMBDA i : cbs[i].what = what)

\* The links the client has been told of, if none is ever lost.
ToldLinks == {s \in link : \A i \in DOMAIN cbs : cbs[i] # Cb("connected", s)}

\* The number that the client compares with the size of its table counts the
\* links, up to the callbacks it has still to serve; every attempt that failed
\* has taken one off it for good, modulo 2^16.  Past the end of the table an id
\* is written only after a failed attempt, or when a link was lost and there
\* are more servers than places.  Before the first loss or failure the table
\* has the links, each once, however many servers there are.
IdsAreLinks ==
  /\ ~overrun =>
       (num + Waiting("connected") + fails) % Values
         = (Cardinality(link) + Waiting("disconnected") + Waiting("failed")) % Values
  /\ overrun => fails > 0 \/ (leaves > 0 /\ Cardinality(Named) > MaxCon)
  /\ leaves = 0 /\ fails = 0 =>
       /\ {ids[i] : i \in 0 .. num - 1} = ToldLinks
       /\ \A i, j \in 0 .. num - 1 : ids[i] = ids[j] => i = j

\* A server that takes bytes from its UART for a client sends them on the link
\* there is, or on one whose loss it has not been told of.
PairedIsLinked ==
  \A s \in Servers : pair[s] =>
    /\ hdl[s] = s
    /\ s \in link \/ \E i \in DOMAIN scbs[s] : scbs[s][i].what = "disconnected"

\* A server that has lost its client can be found again, however its callbacks
\* and its task interleave.
ServerReturns == \A s \in Servers : []<>(s \in onair \cup link)

\* As long as no link is lost and no attempt fails, the client goes on seeking
\* until it has every server that bears the name, or its table is full: neither
\* a device seen twice nor a late end of the seek stops it.
ClientCollectsAll ==
  <>(leaves > 0 \/ fails > 0 \/ link = Named \/ Cardinality(link) = MaxCon)

=============================================================================
