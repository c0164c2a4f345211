---------------------------- MODULE CommandPath ----------------------------
(***************************************************************************)
(* How commands reach My_project_2x.                                       *)
(*                                                                         *)
(* A client writes a frame to the SSAP property; the SLE task parses and   *)
(* runs it in the write callback.  The UART test console has no frames:    *)
(* the receive interrupt appends what the driver hands it to g_uart_rx_buf *)
(* and the main loop takes what is there, in three steps the interrupt may *)
(* come between: read the length, copy, clear the length.                  *)
(*                                                                         *)
(* A byte in a console buffer is its position in all the console heard, so *)
(* that what becomes of every single byte can be told.  Abstracted: bursts *)
(* the driver reports with an error, which the interrupt leaves alone.     *)
(***************************************************************************)
EXTENDS SharedProto

CONSTANTS
  Sent,          \* commands the clients send
  Noise,         \* frames clients write that are no commands
  Bursts,        \* what the driver may hand to the receive interrupt at once
  RX_BUF_SIZE,   \* UART_SELFTEST_RX_BUF_SIZE
  MaxHeard       \* bound: bytes the console hears

ASSUME SentAssumption == Sent \subseteq Commands
ASSUME NoiseAssumption ==
  \A d \in Noise :
    /\ d \in Seq(Byte)
    /\ Len(d) = 1 => d[1] \notin {0, 1, 2}
    /\ Len(d) >= 3 => d[1] \notin {16, 32}
ASSUME BurstAssumption == Bursts \subseteq Seq(Byte) \ {<<>>}
ASSUME BufAssumption == RX_BUF_SIZE \in Nat \ {0}

VARIABLES
  asked,       \* the command the last SLE write was to carry, NoCommand for noise
  obeyed,      \* the command the write callback ran, NoCommand for none
  heard,       \* every byte the console was sent, in order
  rx_buf,      \* g_uart_rx_buf
  rx_len,      \* g_uart_rx_len
  pc,          \* main loop: "poll", "copy", "clear" or "exec"
  len,         \* main loop: its copy of the length
  local_buf,   \* main loop: its copy of the buffer
  frame,       \* the last frame given to my_project_2x_uart_selftest_exec
  spent,       \* the last byte of the frame before
  typed        \* the command it was, NoCommand if it did not parse

client == <<asked, obeyed>>
console == <<heard, rx_buf, rx_len, pc, len, local_buf, frame, spent, typed>>
commandVars == <<client, console>>

CommandInit ==
  /\ asked = NoCommand /\ obeyed = NoCommand
  /\ heard = <<>>
  /\ rx_buf = [i \in 1 .. RX_BUF_SIZE |-> 0] /\ rx_len = 0
  /\ pc = "poll" /\ len = 0 /\ local_buf = <<>>
  /\ frame = <<>> /\ spent = 0 /\ typed = NoCommand

-----------------------------------------------------------------------------
(* ssaps_server_write_request_cbk.                                         *)

SleWrite(c) ==
  /\ asked' = c
  /\ obeyed' = ParseUnicastCmd(CommandFrame(c))
  /\ UNCHANGED console

\* An empty frame is not even parsed.
SleWriteNoise(d) ==
  /\ asked' = NoCommand
  /\ obeyed' = IF d = <<>> THEN NoCommand ELSE ParseUnicastCmd(d)
  /\ UNCHANGED console

-----------------------------------------------------------------------------
(* The test console.                                                       *)

\* A burst is copied in after the first `from' bytes; the length becomes `upto'.
Received(burst, from, upto) ==
  /\ Len(heard) + Len(burst) <= MaxHeard
  /\ heard' = heard \o burst
  /\ rx_buf' = [i \in 1 .. RX_BUF_SIZE |->
                  IF i > from /\ i <= from + Len(burst) THEN Len(heard) + (i - from)
                  ELSE rx_buf[i]]
  /\ rx_len' = upto
  /\ UNCHANGED <<client, pc, len, local_buf, frame, spent, typed>>

\* Mutant: a burst that does not fit is written over the oldest bytes.
UartRxCallbackWraps(burst) ==
  \/ rx_len + Len(burst) <= RX_BUF_SIZE /\ Received(burst, rx_len, rx_len + Len(burst))
  \/ rx_len + Len(burst) > RX_BUF_SIZE /\ Received(burst, 0, IF Len(burst) > rx_len THEN Len(burst) ELSE rx_len)

\* Mutant: the length counts what did not fit, too.
UartRxCallbackCountsAll(burst) == Received(burst, rx_len, rx_len + Len(burst))

\* What does not fit is lost.
UartRxCallback(burst) ==
  Received(burst, rx_len,
           IF rx_len + Len(burst) > RX_BUF_SIZE THEN RX_BUF_SIZE ELSE rx_len + Len(burst))

\* Mutant: the loop waits for three bytes, the longest command.
PollWaits ==
  /\ pc = "poll" /\ rx_len >= 3
  /\ len' = rx_len
  /\ pc' = "copy"
  /\ UNCHANGED <<client, heard, rx_buf, rx_len, local_buf, frame, spent, typed>>

Poll ==
  /\ pc = "poll" /\ rx_len > 0
  /\ len' = rx_len
  /\ pc' = "copy"
  /\ UNCHANGED <<client, heard, rx_buf, rx_len, local_buf, frame, spent, typed>>

Copy ==
  /\ pc = "copy"
  /\ local_buf' = [i \in 1 .. len |-> rx_buf[i]]
  /\ pc' = "clear"
  /\ UNCHANGED <<client, heard, rx_buf, rx_len, len, frame, spent, typed>>

\* Mutant: bytes that came after the copy stay, at the end of the buffer.
ClearKeepsRest ==
  /\ pc = "clear"
  /\ rx_len' = rx_len - len
  /\ pc' = "exec"
  /\ UNCHANGED <<client, heard, rx_buf, len, local_buf, frame, spent, typed>>

\* Bytes that came after the length was read are lost.
Clear ==
  /\ pc = "clear"
  /\ rx_len' = 0
  /\ pc' = "exec"
  /\ UNCHANGED <<client, heard, rx_buf, len, local_buf, frame, spent, typed>>

Exec ==
  /\ pc = "exec"
  /\ frame' = local_buf
  /\ spent' = IF frame = <<>> THEN 0 ELSE frame[Len(frame)]
  /\ typed' = ParseUnicastCmd([i \in 1 .. len |-> heard[local_buf[i]]])
  /\ pc' = "poll"
  /\ UNCHANGED <<client, heard, rx_buf, rx_len, len, local_buf>>

MainLoop == Poll \/ Copy \/ Clear \/ Exec

CommandNext ==
  \/ \E c \in Sent : SleWrite(c)
  \/ \E d \in Noise : SleWriteNoise(d)
  \/ \E burst \in Bursts : UartRxCallback(burst)
  \/ MainLoop

\* The main loop sleeps fifty milliseconds at a time and is scheduled again.
CommandSpec == CommandInit /\ [][CommandNext]_commandVars /\ WF_commandVars(MainLoop)

-----------------------------------------------------------------------------
(* Properties.                                                             *)

Positions == 0 .. Len(heard)

\* Every variable has its type; the length never passes the buffer's.
CommandTypeOK ==
  /\ asked \in Commands \cup {NoCommand} /\ obeyed \in Commands \cup {NoCommand}
  /\ heard \in Seq(Byte)
  /\ rx_buf \in [1 .. RX_BUF_SIZE -> Positions] /\ rx_len \in 0 .. RX_BUF_SIZE
  /\ pc \in {"poll", "copy", "clear", "exec"}
  /\ len \in 0 .. RX_BUF_SIZE
  /\ local_buf \in Seq(Positions) /\ frame \in Seq(Positions)
  /\ spent \in Positions
  /\ typed \in Commands \cup {NoCommand}

\* What the client sends is what the tag runs, argument and all; the CCCD
\* write of docs/ws63_cooperation_spec.md:181 and frames that are too short
\* run nothing.
ObeysWhatWasAsked == obeyed = asked

\* A frame of the console is one piece of what it was sent: bytes are lost at
\* the end of a piece, never out of its middle, and never mixed with older ones.
FrameIsPiece == \A i \in 1 .. Len(frame) : frame[i] = frame[1] + (i - 1)

\* No byte is run twice, and later bytes are run later.
FrameIsNew == frame # <<>> => frame[1] > spent

\* The console never stops taking bytes, even when its buffer was full.
BufferIsTaken == (rx_len > 0) ~> (rx_len = 0)

=============================================================================
