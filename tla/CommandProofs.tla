--------------------------- MODULE CommandProofs ----------------------------
(***************************************************************************)
(* Proofs about SharedProto, CommandPath and FindMe: what is written can   *)
(* be read, what a client asks for is what the tag runs, and what a        *)
(* FIND_ME starts is ended.                                                *)
(*                                                                         *)
(* SharedProto, for every value of every field: the commands, the answers  *)
(* and the announcement of My_project_2x.                                  *)
(*                                                                         *)
(* CommandPath, for every buffer size, every set of bursts, commands and   *)
(* noise: CommandInv tells, for each point of the main loop, how the bytes *)
(* in the buffers lie in all that was heard: what is in rx_buf is one      *)
(* piece, it ends with the last byte heard unless the buffer is full, and  *)
(* it is newer than the frame that is being or was run last.               *)
(*                                                                         *)
(* FindMe, for every set of contexts that give commands, every choice of   *)
(* calls that fail and every number of commands: FindInv tells what a task *)
(* may have left of a handler, and that a record that says FINDING has a   *)
(* timer that will end it or a task that will end it or start that timer.  *)
(***************************************************************************)
EXTENDS CommandPath, FindMe, Integers, SequenceTheorems, TLAPS

-----------------------------------------------------------------------------
(* SharedProto.                                                            *)

\* A word is its two bytes.
LEMMA WordBytes ==
  ASSUME NEW v \in Word
  PROVE  /\ Hi(v) \in Byte /\ Lo(v) \in Byte
         /\ (Hi(v) * 256) + Lo(v) = v
<1>0. v \in Int /\ 0 <= v /\ v < 65536 BY DEF Word
<1>1. v % 256 \in 0 .. 255 BY <1>0
<1>2. v \div 256 \in Int BY <1>0
<1>3. v = (256 * (v \div 256)) + (v % 256) BY <1>0
<1>4. v \div 256 < 256 /\ v \div 256 >= 0 BY <1>0
<1> QED BY <1>1, <1>2, <1>3, <1>4 DEF Byte, Hi, Lo

\* shared_proto_parse_unicast_cmd inverts what the client does.
LEMMA CommandsParse ==
  ASSUME NEW c \in Commands
  PROVE  ParseUnicastCmd(CommandFrame(c)) = c
<1>1. CASE c.action \in {"STOP_FIND", "FIND_ME", "INVENTORY"}
  <2>1. c = [action |-> c.action, qty |-> 0, tag_id |-> 0]
    BY <1>1 DEF Commands
  <2> QED BY <1>1, <2>1 DEF ParseUnicastCmd, CommandFrame, NoCommand
<1>2. CASE c.action = "UPDATE_QTY"
  <2>1. c.qty \in Word /\ c = [action |-> "UPDATE_QTY", qty |-> c.qty, tag_id |-> 0]
    BY <1>2 DEF Commands
  <2> DEFINE d == <<16, Hi(c.qty), Lo(c.qty)>>
  <2>2. CommandFrame(c) = d
    BY <1>2 DEF CommandFrame
  <2>3. d # <<0>> /\ d # <<1>> /\ d # <<2>>
    OBVIOUS
  <2>4. Len(d) = 3 /\ d[1] = 16 /\ ReadU16(d, 2) = c.qty
    BY <2>1, WordBytes DEF ReadU16
  <2>5. ParseUnicastCmd(d) = [NoCommand EXCEPT !.action = "UPDATE_QTY", !.qty = ReadU16(d, 2)]
    <3> HIDE DEF d
    <3> QED BY <2>3, <2>4 DEF ParseUnicastCmd
  <2> QED BY <2>1, <2>2, <2>4, <2>5 DEF NoCommand
<1>3. CASE c.action = "BIND_TAG"
  <2>1. c.tag_id \in Word /\ c = [action |-> "BIND_TAG", qty |-> 0, tag_id |-> c.tag_id]
    BY <1>3 DEF Commands
  <2> DEFINE d == <<32, Hi(c.tag_id), Lo(c.tag_id)>>
  <2>2. CommandFrame(c) = d
    BY <1>3 DEF CommandFrame
  <2>3. d # <<0>> /\ d # <<1>> /\ d # <<2>>
    OBVIOUS
  <2>4. Len(d) = 3 /\ d[1] = 32 /\ ReadU16(d, 2) = c.tag_id
    BY <2>1, WordBytes DEF ReadU16
  <2>5. ParseUnicastCmd(d) = [NoCommand EXCEPT !.action = "BIND_TAG", !.tag_id = ReadU16(d, 2)]
    <3> HIDE DEF d
    <3> QED BY <2>3, <2>4 DEF ParseUnicastCmd
  <2> QED BY <2>1, <2>2, <2>4, <2>5 DEF NoCommand
<1> QED BY <1>1, <1>2, <1>3 DEF Commands, Actions

\* Two bytes make a word.
LEMMA BytesWord ==
  ASSUME NEW x \in Byte, NEW y \in Byte
  PROVE  (x * 256) + y \in Word
<1> DEFINE w == (x * 256) + y
<1>1. x \in 0 .. 255 /\ y \in 0 .. 255
  BY DEF Byte
<1>2. w \in Int /\ 0 <= w /\ w < 65536
  BY <1>1
<1> HIDE DEF w
<1>3. w \in Word
  BY <1>2 DEF Word
<1> QED BY <1>3 DEF w

\* What the parser returns are commands.
LEMMA CommandsMake ==
  /\ \A a \in {"STOP_FIND", "FIND_ME", "INVENTORY"} : [NoCommand EXCEPT !.action = a] \in Commands
  /\ \A w \in Word : [NoCommand EXCEPT !.action = "UPDATE_QTY", !.qty = w] \in Commands
  /\ \A w \in Word : [NoCommand EXCEPT !.action = "BIND_TAG", !.tag_id = w] \in Commands
<1>1. 0 \in Word
  BY DEF Word
<1>2. ASSUME NEW a \in Actions, NEW q \in Word, NEW t \in Word,
             a # "UPDATE_QTY" => q = 0, a # "BIND_TAG" => t = 0
      PROVE  [action |-> a, qty |-> q, tag_id |-> t] \in Commands
  <2> DEFINE c == [action |-> a, qty |-> q, tag_id |-> t]
  <2>1. c \in [action : Actions, qty : Word, tag_id : Word]
    OBVIOUS
  <2>2. c.action = a /\ c.qty = q /\ c.tag_id = t
    OBVIOUS
  <2> HIDE DEF c
  <2>3. c \in Commands
    BY <1>2, <2>1, <2>2, Zenon DEF Commands
  <2> QED BY <2>3 DEF c
<1>3. ASSUME NEW a \in {"STOP_FIND", "FIND_ME", "INVENTORY"}
      PROVE  [NoCommand EXCEPT !.action = a] \in Commands
  <2>1. [NoCommand EXCEPT !.action = a] = [action |-> a, qty |-> 0, tag_id |-> 0]
    BY DEF NoCommand
  <2>2. a \in Actions /\ a # "UPDATE_QTY" /\ a # "BIND_TAG"
    BY DEF Actions
  <2>3. [action |-> a, qty |-> 0, tag_id |-> 0] \in Commands
    BY <1>1, <1>2, <2>2
  <2> QED BY <2>1, <2>3, Zenon
<1>4. ASSUME NEW w \in Word
      PROVE  [NoCommand EXCEPT !.action = "UPDATE_QTY", !.qty = w] \in Commands
  <2>1. [NoCommand EXCEPT !.action = "UPDATE_QTY"] = [action |-> "UPDATE_QTY", qty |-> 0, tag_id |-> 0]
    BY DEF NoCommand
  <2>2. [[action |-> "UPDATE_QTY", qty |-> 0, tag_id |-> 0] EXCEPT !.qty = w] = [action |-> "UPDATE_QTY", qty |-> w, tag_id |-> 0]
    OBVIOUS
  <2>3. [NoCommand EXCEPT !.action = "UPDATE_QTY", !.qty = w] = [action |-> "UPDATE_QTY", qty |-> w, tag_id |-> 0]
    BY <2>1, <2>2, Zenon
  <2>4. "UPDATE_QTY" \in Actions
    BY DEF Actions
  <2>5. [action |-> "UPDATE_QTY", qty |-> w, tag_id |-> 0] \in Commands
    BY <1>1, <1>2, <2>4
  <2> QED BY <2>3, <2>5, Zenon
<1>5. ASSUME NEW w \in Word
      PROVE  [NoCommand EXCEPT !.action = "BIND_TAG", !.tag_id = w] \in Commands
  <2>1. [NoCommand EXCEPT !.action = "BIND_TAG"] = [action |-> "BIND_TAG", qty |-> 0, tag_id |-> 0]
    BY DEF NoCommand
  <2>2. [[action |-> "BIND_TAG", qty |-> 0, tag_id |-> 0] EXCEPT !.tag_id = w] = [action |-> "BIND_TAG", qty |-> 0, tag_id |-> w]
    OBVIOUS
  <2>3. [NoCommand EXCEPT !.action = "BIND_TAG", !.tag_id = w] = [action |-> "BIND_TAG", qty |-> 0, tag_id |-> w]
    BY <2>1, <2>2, Zenon
  <2>4. "BIND_TAG" \in Actions
    BY DEF Actions
  <2>5. [action |-> "BIND_TAG", qty |-> 0, tag_id |-> w] \in Commands
    BY <1>1, <1>2, <2>4
  <2> QED BY <2>3, <2>5, Zenon
<1> QED BY <1>3, <1>4, <1>5, Zenon

\* Whatever the bytes, parsing gives a command or none.
LEMMA ParseType ==
  ASSUME NEW d \in Seq(Byte)
  PROVE  ParseUnicastCmd(d) \in Commands \cup {NoCommand}
<1>1. Len(d) >= 3 => ReadU16(d, 2) \in Word
  <2>1. ASSUME Len(d) >= 3 PROVE d[2] \in Byte /\ d[3] \in Byte
    BY <2>1
  <2>2. ReadU16(d, 2) = (d[2] * 256) + d[3]
    BY DEF ReadU16
  <2>3. ASSUME Len(d) >= 3 PROVE (d[2] * 256) + d[3] \in Word
    BY <2>1, <2>3, BytesWord
  <2> QED BY <2>2, <2>3, Zenon
<1> DEFINE stop == [NoCommand EXCEPT !.action = "STOP_FIND"]
           find == [NoCommand EXCEPT !.action = "FIND_ME"]
           inventory == [NoCommand EXCEPT !.action = "INVENTORY"]
           qty == [NoCommand EXCEPT !.action = "UPDATE_QTY", !.qty = ReadU16(d, 2)]
           bind == [NoCommand EXCEPT !.action = "BIND_TAG", !.tag_id = ReadU16(d, 2)]
<1>2. stop \in Commands /\ find \in Commands /\ inventory \in Commands
  BY CommandsMake
<1>3. Len(d) >= 3 => qty \in Commands /\ bind \in Commands
  BY <1>1, CommandsMake
<1>4. ParseUnicastCmd(d) =
        CASE d = <<0>> -> stop
          [] d = <<1>> -> find
          [] d = <<2>> -> inventory
          [] Len(d) >= 3 /\ d[1] = 16 -> qty
          [] Len(d) >= 3 /\ d[1] = 32 -> bind
          [] OTHER -> NoCommand
  BY Zenon DEF ParseUnicastCmd
<1> HIDE DEF stop, find, inventory, qty, bind
<1> QED BY <1>2, <1>3, <1>4, Zenon

\* shared_proto_deserialize_adv_field inverts shared_proto_serialize_adv_field.
THEOREM AdvRoundTrip ==
  ASSUME NEW f \in AdvField
  PROVE  DeserializeAdvField(SerializeAdvField(f)) = f
BY WordBytes DEF AdvField, DeserializeAdvField, SerializeAdvField, ReadU16

\* The client reads from a 0x82 answer what the tag put in.
THEOREM InventoryReadable ==
  ASSUME NEW r \in InventoryRsp
  PROVE  ReadInventoryRsp(SerializeInventoryRsp(r)) = r
BY WordBytes DEF InventoryRsp, ReadInventoryRsp, SerializeInventoryRsp, ReadU16

\* Concatenation, place by place.
LEMMA Prepend ==
  \A s, t \in Seq(Byte) :
    /\ s \o t \in Seq(Byte) /\ Len(s \o t) = Len(s) + Len(t)
    /\ \A i \in 1 .. Len(s) : (s \o t)[i] = s[i]
    /\ \A i \in 1 .. Len(t) : (s \o t)[Len(s) + i] = t[i]
<1> TAKE s, t \in Seq(Byte)
<1> DEFINE c == s \o t
<1>1. /\ c \in Seq(Byte) /\ Len(c) = Len(s) + Len(t)
      /\ \A i \in 1 .. Len(s) + Len(t) : c[i] = IF i <= Len(s) THEN s[i] ELSE t[i - Len(s)]
  BY ConcatProperties
<1> HIDE DEF c
<1>2. ASSUME NEW i \in 1 .. Len(t) PROVE c[Len(s) + i] = t[i]
  <2>1. /\ Len(s) + i \in 1 .. Len(s) + Len(t)
        /\ ~(Len(s) + i <= Len(s)) /\ (Len(s) + i) - Len(s) = i
    OBVIOUS
  <2> QED BY <2>1, <1>1
<1>3. ASSUME NEW i \in 1 .. Len(s) PROVE c[i] = s[i]
  BY <1>1
<1> QED BY <1>1, <1>2, <1>3 DEF c

\* A scanner that steps through the elements of the announcement finds the
\* manufacturer's, complete, and in it the record of the tag.
THEOREM AnnouncementReadable ==
  ASSUME NEW f \in AdvField
  PROVE  ScannedField(AnnounceData(EncodeManufacturerAdv(f)))
           = [complete |-> TRUE, own |-> TRUE, field |-> f]
<1> DEFINE r == SerializeAdvField(f)
           d == AnnounceData(EncodeManufacturerAdv(f))
<1>1. r \in Seq(Byte) /\ Len(r) = 12
  BY WordBytes, SMTT(20) DEF AdvField, SerializeAdvField, Byte
<1>2. /\ d \in Seq(Byte) /\ Len(d) = 22
      /\ d[1] = 2 /\ d[4] = 2 /\ d[7] = 15
      /\ d[8] = 255 /\ d[9] = 90 /\ d[10] = 165
      /\ \A k \in 1 .. 12 : d[10 + k] = r[k]
  <2> DEFINE h == ManufacturerHeader
             p == h \o r
             q == <<2, 1, 1, 2, 2, 0>>
  <2>1. h \in Seq(Byte) /\ Len(h) = 4 /\ h[1] = 15 /\ h[2] = 255 /\ h[3] = 90 /\ h[4] = 165
    BY DEF ManufacturerHeader, Byte
  <2>2. q \in Seq(Byte) /\ Len(q) = 6 /\ q[1] = 2 /\ q[4] = 2
    BY DEF Byte
  <2>3. p = h \o r /\ d = q \o p
    BY DEF AnnounceData, EncodeManufacturerAdv
  <2> HIDE DEF d, h, p, q, r
  <2>4. /\ p \in Seq(Byte) /\ Len(p) = 16
        /\ \A i \in 1 .. 4 : p[i] = h[i]
        /\ \A k \in 1 .. 12 : p[4 + k] = r[k]
    <3>0. h \in Seq(Byte) /\ r \in Seq(Byte) /\ p = h \o r
      BY <1>1, <2>1, <2>3
    <3>1. /\ p \in Seq(Byte) /\ Len(p) = Len(h) + Len(r)
          /\ \A i \in 1 .. Len(h) : p[i] = h[i]
          /\ \A i \in 1 .. Len(r) : p[Len(h) + i] = r[i]
      BY <3>0, Prepend, Zenon
    <3> QED BY <3>1, <2>1, <1>1
  <2>5. /\ d \in Seq(Byte) /\ Len(d) = 22
        /\ \A i \in 1 .. 6 : d[i] = q[i]
        /\ \A k \in 1 .. 16 : d[6 + k] = p[k]
    <3>1. /\ d \in Seq(Byte) /\ Len(d) = Len(q) + Len(p)
          /\ \A i \in 1 .. Len(q) : d[i] = q[i]
          /\ \A i \in 1 .. Len(p) : d[Len(q) + i] = p[i]
      BY <2>2, <2>3, <2>4, Prepend, ZenonT(30)
    <3> QED BY <3>1, <2>2, <2>4
  <2>6. \A k \in 1 .. 12 : d[10 + k] = r[k]
    <3> TAKE k \in 1 .. 12
    <3>1. 4 + k \in 1 .. 16 /\ 6 + (4 + k) = 10 + k
      OBVIOUS
    <3>2. d[6 + (4 + k)] = p[4 + k] /\ p[4 + k] = r[k]
      BY <3>1, <2>4, <2>5
    <3> QED BY <3>1, <3>2
  <2>7. d[6 + 1] = 15 /\ d[6 + 2] = 255 /\ d[6 + 3] = 90 /\ d[6 + 4] = 165
    BY <2>1, <2>4, <2>5
  <2> QED BY <2>2, <2>5, <2>6, <2>7
<1>3. ElementAfter(d, ElementAfter(d, 1)) = 7
  <2> HIDE DEF d
  <2> QED BY <1>2 DEF ElementAfter
<1>4. [k \in 1 .. d[7] - 3 |-> d[7 + 3 + k]] = r
  <2> HIDE DEF d, r
  <2> QED BY <1>1, <1>2
<1>5. DeserializeAdvField(r) = f
  BY AdvRoundTrip
<1>6. ScannedField(d) = [complete |-> TRUE, own |-> TRUE, field |-> f]
  <2> HIDE DEF d, r
  <2>1. Len(d) = 7 + d[7] /\ <<d[7], d[7 + 1], d[7 + 2], d[7 + 3]>> = ManufacturerHeader
    BY <1>2 DEF ManufacturerHeader
  <2> QED BY <2>1, <1>3, <1>4, <1>5 DEF ScannedField
<1> QED BY <1>6

-----------------------------------------------------------------------------
(* CommandPath.                                                            *)

LastRun == IF frame = <<>> THEN 0 ELSE frame[Len(frame)]

\* s holds a piece of what was heard in its first n places.
Piece(s, n) ==
  \A i \in 1 .. n : s[i] = s[1] + (i - 1) /\ s[i] \in 1 .. Len(heard)

BufferInv ==
  /\ Piece(rx_buf, rx_len)
  /\ 0 < rx_len /\ rx_len < RX_BUF_SIZE => rx_buf[rx_len] = Len(heard)

LoopInv ==
  /\ pc # "exec" /\ rx_len > 0 => rx_buf[1] > LastRun
  /\ pc \in {"copy", "clear"} => 0 < len /\ len <= rx_len
  /\ pc = "clear" => local_buf = [i \in 1 .. len |-> rx_buf[i]]
  /\ pc = "exec" =>
       /\ 0 < len /\ Len(local_buf) = len /\ Piece(local_buf, len)
       /\ local_buf[1] > LastRun
       /\ rx_len > 0 => rx_buf[1] > local_buf[len]

FrameInv ==
  /\ Piece(frame, Len(frame))
  /\ FrameIsNew

CommandInv == CommandTypeOK /\ BufferInv /\ LoopInv /\ FrameInv

-----------------------------------------------------------------------------

\* The invariant holds when the buffers are empty.
LEMMA CommandInvInit == CommandInit => CommandInv
BY BufAssumption DEF CommandInit, CommandInv, CommandTypeOK, BufferInv, LoopInv, FrameInv, Piece, FrameIsNew, Positions, LastRun

\* The console's part of the invariant, without the command that was typed.
Shape ==
  /\ heard \in Seq(Byte)
  /\ rx_buf \in [1 .. RX_BUF_SIZE -> Positions] /\ rx_len \in 0 .. RX_BUF_SIZE
  /\ pc \in {"poll", "copy", "clear", "exec"}
  /\ len \in 0 .. RX_BUF_SIZE
  /\ local_buf \in Seq(Positions) /\ frame \in Seq(Positions)
  /\ spent \in Positions

\* The receive interrupt, at any point of the main loop.
LEMMA RxPreserves ==
  ASSUME CommandInv, NEW burst \in Bursts, UartRxCallback(burst)
  PROVE  Shape' /\ BufferInv' /\ LoopInv' /\ FrameInv'
<1> DEFINE h == Len(heard)
           b == Len(burst)
           n == rx_len
<1>1. /\ burst \in Seq(Byte) /\ b \in Nat \ {0} /\ h \in Nat /\ heard' \in Seq(Byte) /\ Len(heard') = h + b
  BY BurstAssumption, ConcatProperties DEF UartRxCallback, Received, CommandInv, CommandTypeOK
<1>2. /\ n \in 0 .. RX_BUF_SIZE /\ RX_BUF_SIZE \in Nat
      /\ n' \in n .. RX_BUF_SIZE /\ n' <= n + b
      /\ n' = RX_BUF_SIZE \/ n' = n + b
  BY <1>1, BufAssumption DEF UartRxCallback, Received, CommandInv, CommandTypeOK
<1>3. \A i \in 1 .. RX_BUF_SIZE :
        rx_buf'[i] = IF i > n /\ i <= n + b THEN h + (i - n) ELSE rx_buf[i]
  BY DEF UartRxCallback, Received
<1>4. rx_buf' \in [1 .. RX_BUF_SIZE -> 0 .. h + b]
  BY <1>1, <1>2 DEF UartRxCallback, Received, CommandInv, CommandTypeOK, Positions
<1>5. Shape'
  <2>1. local_buf \in Seq(0 .. h + b) /\ frame \in Seq(0 .. h + b) /\ spent \in 0 .. h + b
    BY <1>1 DEF CommandInv, CommandTypeOK, Positions
  <2> QED BY <1>1, <1>2, <1>4, <2>1 DEF UartRxCallback, Received, CommandInv, CommandTypeOK, Shape, Positions
<1>6. BufferInv'
  <2>1. ASSUME NEW i \in 1 .. n'
        PROVE  rx_buf'[i] = rx_buf'[1] + (i - 1) /\ rx_buf'[i] \in 1 .. h + b
    <3>1. i \in 1 .. RX_BUF_SIZE /\ 1 \in 1 .. RX_BUF_SIZE /\ i <= n + b
      BY <1>2
    <3> DEFINE x == rx_buf[1]
               y == rx_buf'[i]
               z == rx_buf'[1]
    <3>2. i > n => y = h + (i - n)
      BY <1>3, <3>1
    <3>3. i <= n => y = rx_buf[i]
      BY <1>2, <1>3, <3>1
    <3>4. z = IF n = 0 THEN h + 1 ELSE x
      BY <1>1, <1>2, <1>3, <3>1
    <3>5. i <= n => rx_buf[i] = x + (i - 1) /\ rx_buf[i] \in 1 .. h
      BY <1>2 DEF CommandInv, BufferInv, Piece
    <3>6. n > 0 => x \in 1 .. h
      BY <1>2 DEF CommandInv, BufferInv, Piece
    <3>7. n > 0 /\ i > n => h = x + (n - 1)
      BY <1>1, <1>2, <3>1 DEF CommandInv, BufferInv, Piece
    <3> HIDE DEF h, b, n, x, y, z
    <3>8. i \in Int /\ 1 <= i
      OBVIOUS
    <3>9. y = z + (i - 1) /\ y \in 1 .. h + b
      <4>1. CASE n = 0
        BY <1>1, <1>2, <3>1, <3>2, <3>4, <3>8, <4>1
      <4>2. CASE n > 0 /\ i <= n
        BY <1>1, <1>2, <3>3, <3>4, <3>5, <3>8, <4>2
      <4>3. CASE n > 0 /\ i > n
        <5>1. h \in Nat /\ b \in Nat /\ n \in Nat /\ i \in Nat /\ i <= n + b /\ x \in Nat /\ 1 <= x
          BY <1>1, <1>2, <3>1, <3>6, <3>8, <4>3
        <5>2. y = h + (i - n) /\ z = x /\ h = x + (n - 1)
          BY <1>2, <3>2, <3>4, <3>7, <4>3
        <5> QED BY <5>1, <5>2, <4>3
      <4> QED BY <1>2, <3>8, <4>1, <4>2, <4>3
    <3> QED BY <3>9 DEF y, z
  <2>2. ASSUME 0 < n', n' < RX_BUF_SIZE PROVE rx_buf'[n'] = h + b
    <3>1. n' = n + b /\ n' \in 1 .. RX_BUF_SIZE /\ n' > n
      BY <1>1, <1>2, <2>2
    <3>2. rx_buf'[n'] = h + (n' - n)
      BY <1>3, <3>1
    <3> QED BY <1>1, <1>2, <3>1, <3>2
  <2> QED BY <1>1, <2>1, <2>2 DEF BufferInv, Piece
<1>7. rx_buf'[1] = IF n = 0 THEN h + 1 ELSE rx_buf[1]
  BY <1>1, <1>2, <1>3, BufAssumption
<1>8. LastRun \in 0 .. h /\ LastRun' = LastRun
  BY <1>1 DEF UartRxCallback, Received, CommandInv, CommandTypeOK, FrameInv, Piece, Positions, LastRun
<1>9. LoopInv'
  <2>1. pc' = pc /\ len' = len /\ local_buf' = local_buf
    BY DEF UartRxCallback, Received
  <2>2. pc # "exec" /\ n' > 0 => rx_buf'[1] > LastRun
    BY <1>1, <1>2, <1>7, <1>8 DEF CommandInv, LoopInv
  <2>3. pc \in {"copy", "clear"} => 0 < len /\ len <= n'
    BY <1>2 DEF CommandInv, LoopInv, CommandTypeOK
  <2>4. pc = "clear" => local_buf = [i \in 1 .. len |-> rx_buf'[i]]
    <3>1. ASSUME pc = "clear" PROVE \A i \in 1 .. len : rx_buf'[i] = rx_buf[i]
      BY <1>2, <1>3, <3>1 DEF CommandInv, LoopInv, CommandTypeOK
    <3> QED BY <3>1 DEF CommandInv, LoopInv
  <2>5. ASSUME pc = "exec"
        PROVE  /\ 0 < len /\ Len(local_buf) = len /\ Piece(local_buf, len)'
               /\ local_buf[1] > LastRun
               /\ n' > 0 => rx_buf'[1] > local_buf[len]
    <3>1. /\ 0 < len /\ len \in Nat /\ Len(local_buf) = len /\ Piece(local_buf, len)
          /\ local_buf[1] > LastRun
          /\ n > 0 => rx_buf[1] > local_buf[len]
      BY <2>5 DEF CommandInv, LoopInv, CommandTypeOK
    <3>2. local_buf[len] \in 1 .. h
      BY <3>1 DEF Piece
    <3>3. Piece(local_buf, len)'
      BY <1>1, <2>1, <3>1 DEF Piece
    <3> QED BY <1>1, <1>2, <1>7, <3>1, <3>2, <3>3
  <2> QED BY <1>8, <2>1, <2>2, <2>3, <2>4, <2>5 DEF LoopInv
<1>10. FrameInv'
  BY <1>1 DEF UartRxCallback, Received, CommandInv, FrameInv, Piece, FrameIsNew
<1> QED BY <1>5, <1>6, <1>9, <1>10

\* SLE writes leave the console alone.
LEMMA SlePreserves ==
  ASSUME CommandInv,
         \/ \E c \in Sent : SleWrite(c)
         \/ \E d \in Noise : SleWriteNoise(d)
         \/ UNCHANGED commandVars
  PROVE  Shape' /\ BufferInv' /\ LoopInv' /\ FrameInv'
BY DEF SleWrite, SleWriteNoise, commandVars, client, console, CommandInv, CommandTypeOK, Shape, Positions, BufferInv,
       LoopInv, FrameInv, FrameIsNew, Piece, LastRun

\* The main loop reads the length.
LEMMA PollPreserves ==
  ASSUME CommandInv, Poll
  PROVE  Shape' /\ BufferInv' /\ LoopInv' /\ FrameInv'
BY DEF Poll, client, console, CommandInv, CommandTypeOK, Shape, Positions, BufferInv, LoopInv, FrameInv,
       FrameIsNew, Piece, LastRun

\* The main loop copies the buffer.
LEMMA CopyPreserves ==
  ASSUME CommandInv, Copy
  PROVE  Shape' /\ BufferInv' /\ LoopInv' /\ FrameInv'
<1>1. len \in 0 .. rx_len /\ rx_len \in 0 .. RX_BUF_SIZE /\ RX_BUF_SIZE \in Nat
  BY BufAssumption DEF Copy, CommandInv, CommandTypeOK, LoopInv
<1>2. local_buf' \in Seq(Positions)
  <2>1. \A i \in 1 .. len : rx_buf[i] \in Positions
    BY <1>1 DEF CommandInv, CommandTypeOK
  <2> QED BY <1>1, <2>1 DEF Copy
<1> QED
  BY <1>1, <1>2 DEF Copy, client, CommandInv, CommandTypeOK, Shape, Positions, BufferInv, LoopInv, FrameInv,
     FrameIsNew, Piece, LastRun

\* The main loop clears the length.
LEMMA ClearPreserves ==
  ASSUME CommandInv, Clear
  PROVE  Shape' /\ BufferInv' /\ LoopInv' /\ FrameInv'
<1>1. /\ 0 < len /\ len <= rx_len /\ len \in Nat /\ rx_len \in Nat
      /\ local_buf = [i \in 1 .. len |-> rx_buf[i]]
  BY BufAssumption DEF Clear, CommandInv, CommandTypeOK, LoopInv
<1>2. Len(local_buf) = len /\ \A i \in 1 .. len : local_buf[i] = rx_buf[i]
  BY <1>1
<1>3. Piece(local_buf, len) /\ local_buf[1] > LastRun
  BY <1>1, <1>2 DEF Clear, CommandInv, BufferInv, LoopInv, Piece
<1>4. Shape' /\ BufferInv'
  BY BufAssumption DEF Clear, CommandInv, CommandTypeOK, Shape, Positions, BufferInv, Piece
<1>5. FrameInv' /\ LastRun' = LastRun /\ Piece(local_buf, len)' /\ local_buf' = local_buf /\ len' = len
  BY <1>3 DEF Clear, CommandInv, FrameInv, FrameIsNew, Piece, LastRun
<1>6. LoopInv'
  BY <1>1, <1>2, <1>3, <1>5 DEF Clear, LoopInv
<1> QED BY <1>4, <1>5, <1>6

\* The main loop runs the frame.
LEMMA ExecPreserves ==
  ASSUME CommandInv, Exec
  PROVE  /\ Shape' /\ BufferInv' /\ LoopInv' /\ FrameInv'
         /\ typed' \in Commands \cup {NoCommand}
<1>1. /\ 0 < len /\ len \in Nat /\ Len(local_buf) = len /\ Piece(local_buf, len)
      /\ local_buf[1] > LastRun
      /\ rx_len > 0 => rx_buf[1] > local_buf[len]
      /\ local_buf \in Seq(Positions) /\ local_buf # <<>>
      /\ heard \in Seq(Byte)
  BY DEF Exec, CommandInv, CommandTypeOK, LoopInv
<1>2. [i \in 1 .. len |-> heard[local_buf[i]]] \in Seq(Byte)
  <2>1. \A i \in 1 .. len : heard[local_buf[i]] \in Byte
    BY <1>1 DEF Piece
  <2> QED BY <1>1, <2>1
<1>3. typed' \in Commands \cup {NoCommand}
  BY <1>2, ParseType DEF Exec
<1>4. spent' = LastRun /\ LastRun' = local_buf[len]
  BY <1>1 DEF Exec, LastRun
<1>5. LastRun \in Positions
  BY DEF CommandInv, CommandTypeOK, LastRun, Positions, FrameInv, Piece
<1>6. Shape'
  BY <1>1, <1>4, <1>5 DEF Exec, CommandInv, CommandTypeOK, Shape, Positions
<1>7. BufferInv'
  BY DEF Exec, CommandInv, BufferInv, Piece
<1>8. LoopInv'
  BY <1>1, <1>4 DEF Exec, LoopInv
<1>9. FrameInv'
  BY <1>1, <1>4 DEF Exec, FrameInv, FrameIsNew, Piece
<1> QED BY <1>3, <1>6, <1>7, <1>8, <1>9

-----------------------------------------------------------------------------

\* What a client asks for is what is parsed; noise is not.
LEMMA AskedStep ==
  ASSUME CommandInv, [CommandNext]_commandVars
  PROVE  /\ asked' \in Commands \cup {NoCommand} /\ obeyed' \in Commands \cup {NoCommand}
         /\ obeyed = asked => obeyed' = asked'
<1>1. CASE \E c \in Sent : SleWrite(c)
  <2>1. PICK c \in Sent : SleWrite(c)
    BY <1>1
  <2>2. asked' = c /\ obeyed' = c /\ c \in Commands
    BY <2>1, SentAssumption, CommandsParse DEF SleWrite
  <2> QED BY <2>2
<1>2. CASE \E d \in Noise : SleWriteNoise(d)
  <2>1. PICK d \in Noise : SleWriteNoise(d)
    BY <1>2
  <2>2. CASE d = <<>>
    BY <2>1, <2>2 DEF SleWriteNoise
  <2>3. ParseUnicastCmd(d) = NoCommand
    <3>1. d # <<0>> /\ d # <<1>> /\ d # <<2>>
      BY <2>1, NoiseAssumption
    <3>2. ~(Len(d) >= 3 /\ d[1] = 16) /\ ~(Len(d) >= 3 /\ d[1] = 32)
      BY <2>1, NoiseAssumption
    <3> QED BY <3>1, <3>2, Zenon DEF ParseUnicastCmd
  <2> QED BY <2>1, <2>3 DEF SleWriteNoise
<1>3. CASE UNCHANGED client
  BY <1>3 DEF client, CommandInv, CommandTypeOK
<1> QED
  BY <1>1, <1>2, <1>3 DEF CommandNext, MainLoop, UartRxCallback, Received, Poll, Copy, Clear, Exec, commandVars, client

\* The invariant is inductive.
LEMMA CommandInvNext == CommandInv /\ [CommandNext]_commandVars => CommandInv'
<1> SUFFICES ASSUME CommandInv, [CommandNext]_commandVars PROVE CommandInv'
  OBVIOUS
<1>1. asked' \in Commands \cup {NoCommand} /\ obeyed' \in Commands \cup {NoCommand}
  BY AskedStep
<1>2. Shape' /\ BufferInv' /\ LoopInv' /\ FrameInv' /\ typed' \in Commands \cup {NoCommand}
  <2>1. CASE \/ \E c \in Sent : SleWrite(c)
             \/ \E d \in Noise : SleWriteNoise(d)
             \/ UNCHANGED commandVars
    <3>1. typed' = typed
      BY <2>1 DEF SleWrite, SleWriteNoise, commandVars, console
    <3> QED BY <2>1, <3>1, SlePreserves DEF CommandInv, CommandTypeOK
  <2>2. CASE \E burst \in Bursts : UartRxCallback(burst)
    <3>1. typed' = typed
      BY <2>2 DEF UartRxCallback, Received
    <3> QED BY <2>2, <3>1, RxPreserves DEF CommandInv, CommandTypeOK
  <2>3. CASE Poll
    BY <2>3, PollPreserves DEF Poll, CommandInv, CommandTypeOK
  <2>4. CASE Copy
    BY <2>4, CopyPreserves DEF Copy, CommandInv, CommandTypeOK
  <2>5. CASE Clear
    BY <2>5, ClearPreserves DEF Clear, CommandInv, CommandTypeOK
  <2>6. CASE Exec
    BY <2>6, ExecPreserves
  <2> QED BY <2>1, <2>2, <2>3, <2>4, <2>5, <2>6 DEF CommandNext, MainLoop
<1> QED BY <1>1, <1>2, Zenon DEF CommandInv, CommandTypeOK, Shape

\* The invariant holds in every state.
LEMMA CommandInvariant == CommandSpec => []CommandInv
<1> QED BY CommandInvInit, CommandInvNext, PTL DEF CommandSpec

\* Every variable keeps its type, whatever clients write and the line delivers.
THEOREM CommandTypeCorrect == CommandSpec => []CommandTypeOK
<1>1. CommandInv => CommandTypeOK
  BY DEF CommandInv
<1> QED BY <1>1, CommandInvariant, PTL

\* What the client sends is what the tag runs, for every command and argument.
THEOREM ObeysCorrect == CommandSpec => []ObeysWhatWasAsked
<1>1. CommandInit => ObeysWhatWasAsked
  BY DEF CommandInit, ObeysWhatWasAsked
<1>2. CommandInv /\ ObeysWhatWasAsked /\ [CommandNext]_commandVars => ObeysWhatWasAsked'
  BY AskedStep DEF ObeysWhatWasAsked
<1> QED BY <1>1, <1>2, CommandInvariant, PTL DEF CommandSpec

\* A console frame is one piece of what the console heard, whenever the
\* interrupt comes between the steps of the main loop.
THEOREM PieceCorrect == CommandSpec => []FrameIsPiece
<1>1. CommandInv => FrameIsPiece
  BY DEF CommandInv, FrameInv, Piece, FrameIsPiece
<1> QED BY <1>1, CommandInvariant, PTL

\* No byte is run twice.
THEOREM NewCorrect == CommandSpec => []FrameIsNew
<1>1. CommandInv => FrameIsNew
  BY DEF CommandInv, FrameInv
<1> QED BY <1>1, CommandInvariant, PTL

-----------------------------------------------------------------------------
(* FindMe.                                                                 *)

\* The names of the calls, and the handlers.
Names == {"find_on", "find_off", "publish", "restore_stop", "restore_start"}
Handlers == {FindCalls, StopCalls, RestoreCalls, QtyCalls}

\* What is left of a handler is a suffix of it.
Suffix(q) == \E calls \in Handlers : \E k \in 1 .. Len(calls) + 1 : q = SubSeq(calls, k, Len(calls))
Left == \A t \in Tasks : Suffix(todo[t])

\* The types of TypeOK, but for todo.
Kinds ==
  /\ field \in Record
  /\ restore \in {"stopped", "running", "due"} /\ restore_ok \in BOOLEAN
  /\ commands \in Nat /\ commands <= MaxCommands
  /\ todo \in [Tasks -> Seq(Names)]

\* A task that has yet to end the status, or to start the timer that does.
Settles(call) == call \in {"find_off", "restore_start"}
Owes(q) == \E i \in 1 .. Len(q) : Settles(q[i])

\* A record that says FINDING has a timer that will end it, or a task that will
\* end it or start that timer.
Armed ==
  field.status = "FINDING" /\ restore_ok /\ restore = "stopped" => \E t \in Tasks : Owes(todo[t])

FindInv == Kinds /\ Left /\ Armed

-----------------------------------------------------------------------------
(* The handlers as sequences.                                              *)

\* Their calls, one by one.
LEMMA CallNames ==
  /\ Len(FindCalls) = 4
  /\ FindCalls[1] = "find_on" /\ FindCalls[2] = "publish"
  /\ FindCalls[3] = "restore_stop" /\ FindCalls[4] = "restore_start"
  /\ Len(StopCalls) = 2 /\ StopCalls[1] = "find_off" /\ StopCalls[2] = "publish"
  /\ Len(RestoreCalls) = 2 /\ RestoreCalls[1] = "find_off" /\ RestoreCalls[2] = "publish"
  /\ Len(QtyCalls) = 1 /\ QtyCalls[1] = "publish"
BY DEF FindCalls, StopCalls, RestoreCalls, QtyCalls

LEMMA CallTypes ==
  /\ FindCalls \in Seq(Names) /\ StopCalls \in Seq(Names)
  /\ RestoreCalls \in Seq(Names) /\ QtyCalls \in Seq(Names)
<1>1. /\ "find_on" \in Names /\ "find_off" \in Names /\ "publish" \in Names
      /\ "restore_stop" \in Names /\ "restore_start" \in Names
  BY DEF Names
<1> QED BY <1>1 DEF FindCalls, StopCalls, RestoreCalls, QtyCalls

-----------------------------------------------------------------------------
(* What is left of a handler.                                              *)

LEMMA HandlerTypes == \A calls \in Handlers : calls \in Seq(Names) /\ calls # <<>>
<1>1. \A calls \in Handlers : calls \in Seq(Names) /\ Len(calls) # 0
  <2>1. 4 # 0 /\ 2 # 0 /\ 1 # 0
    OBVIOUS
  <2> QED BY <2>1, CallTypes, CallNames DEF Handlers
<1>2. Len(<<>>) = 0
  OBVIOUS
<1> QED BY <1>1, <1>2

\* The first call of a suffix, and the suffix after it.
LEMMA SuffixFirst ==
  ASSUME NEW calls \in Seq(Names), NEW k \in 1 .. Len(calls) + 1
  PROVE  /\ SubSeq(calls, k, Len(calls)) \in Seq(Names)
         /\ Len(SubSeq(calls, k, Len(calls))) = Len(calls) - k + 1
         /\ \A i \in 1 .. Len(calls) - k + 1 : SubSeq(calls, k, Len(calls))[i] = calls[k + i - 1]
         /\ SubSeq(calls, k, Len(calls)) # <<>> =>
              /\ k \in 1 .. Len(calls) /\ k + 1 \in 1 .. Len(calls) + 1
              /\ Head(SubSeq(calls, k, Len(calls))) = calls[k]
              /\ Tail(SubSeq(calls, k, Len(calls))) = SubSeq(calls, k + 1, Len(calls))
<1> DEFINE n == Len(calls)
           q == SubSeq(calls, k, n)
<1>1. n \in Nat /\ k \in Int /\ n \in Int /\ \A i \in k .. n : calls[i] \in Names
  BY LenProperties
<1>2. /\ q \in Seq(Names) /\ Len(q) = (IF k <= n THEN n - k + 1 ELSE 0)
      /\ \A i \in 1 .. n - k + 1 : q[i] = calls[k + i - 1]
  BY <1>1, SubSeqProperties
<1>3. ASSUME q # <<>>
      PROVE  /\ k \in 1 .. n /\ k + 1 \in 1 .. n + 1
             /\ Head(q) = calls[k] /\ Tail(q) = SubSeq(calls, k + 1, n)
  <2>1. ~(n < k)
    BY <1>1, <1>3, SubSeqEmpty
  <2>2. k \in 1 .. n /\ k + 1 \in 1 .. n + 1 /\ n \in k .. n
    BY <1>1, <2>1
  <2>3. Head(q) = calls[k] /\ Tail(q) = SubSeq(calls, k + 1, n)
    BY <2>2, HeadTailOfSubSeq
  <2> QED BY <2>2, <2>3
<1> HIDE DEF q
<1>4. Len(q) = n - k + 1
  BY <1>1, <1>2
<1> QED BY <1>2, <1>3, <1>4 DEF q

\* A suffix without its first call is a suffix, and so are no call and all calls.
LEMMA SuffixTail ==
  ASSUME NEW q, Suffix(q)
  PROVE  q \in Seq(Names) /\ (q # <<>> => Suffix(Tail(q)))
<1>0. PICK calls \in Handlers : \E k \in 1 .. Len(calls) + 1 : q = SubSeq(calls, k, Len(calls))
  BY DEF Suffix
<1>1. PICK k \in 1 .. Len(calls) + 1 : q = SubSeq(calls, k, Len(calls))
  BY <1>0
<1>2. q \in Seq(Names)
  BY <1>1, HandlerTypes, SuffixFirst
<1>3. ASSUME q # <<>> PROVE Suffix(Tail(q))
  <2>1. k + 1 \in 1 .. Len(calls) + 1 /\ Tail(q) = SubSeq(calls, k + 1, Len(calls))
    BY <1>1, <1>3, HandlerTypes, SuffixFirst
  <2> QED BY <2>1 DEF Suffix
<1> QED BY <1>2, <1>3

LEMMA SuffixWhole == Suffix(<<>>) /\ \A calls \in Handlers : Suffix(calls)
<1>1. ASSUME NEW calls \in Handlers PROVE Suffix(calls)
  <2>1. Len(calls) \in Nat /\ SubSeq(calls, 1, Len(calls)) = calls
    BY HandlerTypes, SubSeqFull, LenProperties
  <2>2. 1 \in 1 .. Len(calls) + 1
    BY <2>1
  <2> QED BY <2>1, <2>2 DEF Suffix
<1>2. Suffix(<<>>)
  <2>1. QtyCalls \in Handlers /\ Len(QtyCalls) = 1
    BY CallNames DEF Handlers
  <2>2. 2 \in 1 .. 1 + 1 /\ 2 \in Int /\ 1 \in Int /\ 1 < 2
    OBVIOUS
  <2>3. SubSeq(QtyCalls, 2, 1) = <<>>
    BY <2>2, SubSeqEmpty
  <2> QED BY <2>1, <2>2, <2>3 DEF Suffix
<1> QED BY <1>1, <1>2

\* A task that is done owes nothing.
LEMMA EmptyOwesNothing == ~Owes(<<>>)
<1>1. \A i \in 1 .. Len(<<>>) : FALSE
  OBVIOUS
<1> QED BY <1>1 DEF Owes

\* What a task owes it still owes after any other call.
LEMMA OwesTail ==
  ASSUME NEW q \in Seq(Names), q # <<>>, Owes(q), ~Settles(Head(q))
  PROVE  Owes(Tail(q))
<1> DEFINE r == Tail(q)
<1>1. /\ Len(q) \in Nat /\ r \in Seq(Names) /\ Len(r) = Len(q) - 1 /\ Head(q) = q[1]
      /\ \A i \in 1 .. Len(r) : r[i] = q[i + 1]
  BY HeadTailProperties, LenProperties
<1> HIDE DEF r
<1>2. PICK i \in 1 .. Len(q) : Settles(q[i])
  BY DEF Owes
<1>3. i # 1
  BY <1>1, <1>2
<1>4. i - 1 \in 1 .. Len(r) /\ (i - 1) + 1 = i
  BY <1>1, <1>3
<1>5. r[i - 1] = q[i]
  BY <1>1, <1>4
<1> QED BY <1>2, <1>4, <1>5 DEF Owes, r

\* After it has set the status, or stopped the timer, a find owes the timer's start.
LEMMA OwesTimer ==
  ASSUME NEW q, Suffix(q), q # <<>>, Head(q) \in {"find_on", "restore_stop"}
  PROVE  Owes(Tail(q))
<1>0. PICK calls \in Handlers : \E k \in 1 .. Len(calls) + 1 : q = SubSeq(calls, k, Len(calls))
  BY DEF Suffix
<1>1. PICK k \in 1 .. Len(calls) + 1 : q = SubSeq(calls, k, Len(calls))
  BY <1>0
<1>2. /\ k \in 1 .. Len(calls) /\ k + 1 \in 1 .. Len(calls) + 1
      /\ Head(q) = calls[k] /\ Tail(q) = SubSeq(calls, k + 1, Len(calls))
  BY <1>1, HandlerTypes, SuffixFirst
<1>3. calls = FindCalls /\ (k = 1 \/ k = 3)
  <2>1. CASE calls = FindCalls
    <3>1. k \in 1 .. 4
      BY <1>2, <2>1, CallNames
    <3>2. k = 1 \/ k = 2 \/ k = 3 \/ k = 4
      BY <3>1
    <3> QED BY <1>2, <2>1, <3>2, CallNames
  <2>2. CASE calls = StopCalls
    <3>1. k \in 1 .. 2
      BY <1>2, <2>2, CallNames
    <3>2. k = 1 \/ k = 2
      BY <3>1
    <3> QED BY <1>2, <2>2, <3>2, CallNames
  <2>3. CASE calls = RestoreCalls
    <3>1. k \in 1 .. 2
      BY <1>2, <2>3, CallNames
    <3>2. k = 1 \/ k = 2
      BY <3>1
    <3> QED BY <1>2, <2>3, <3>2, CallNames
  <2>4. CASE calls = QtyCalls
    <3>1. k \in 1 .. 1
      BY <1>2, <2>4, CallNames
    <3>2. k = 1
      BY <3>1
    <3> QED BY <1>2, <2>4, <3>2, CallNames
  <2> QED BY <2>1, <2>2, <2>3, <2>4 DEF Handlers
<1>4. Len(calls) = 4 /\ FindCalls[4] = "restore_start"
  BY <1>3, CallNames
<1>5. /\ (4 - (k + 1)) + 1 = 4 - k /\ 4 - k \in 1 .. (4 - (k + 1)) + 1 /\ (k + 1) + (4 - k) - 1 = 4
  BY <1>3
<1>6. /\ Len(SubSeq(calls, k + 1, Len(calls))) = Len(calls) - (k + 1) + 1
      /\ \A i \in 1 .. Len(calls) - (k + 1) + 1 : SubSeq(calls, k + 1, Len(calls))[i] = calls[(k + 1) + i - 1]
  BY <1>2, HandlerTypes, SuffixFirst
<1>7. Tail(q)[4 - k] = "restore_start" /\ 4 - k \in 1 .. Len(Tail(q))
  BY <1>2, <1>3, <1>4, <1>5, <1>6
<1> QED BY <1>7 DEF Owes, Settles

-----------------------------------------------------------------------------
(* Every step.                                                             *)

\* A handler begins, a call is done, or no task moves.
Begins(t, h) == todo[t] = <<>> /\ todo' = [todo EXCEPT ![t] = h]
Moves(t) == todo[t] # <<>> /\ todo' = [todo EXCEPT ![t] = Tail(todo[t])]

LEMMA TodoStep ==
  ASSUME [Next]_vars
  PROVE  \/ UNCHANGED todo
         \/ \E t \in Tasks : Moves(t)
         \/ \E t \in Tasks, h \in Handlers : Begins(t, h)
<1>1. ASSUME NEW c \in Callers, NEW h, Command(c, h), h \in Handlers
      PROVE  \E t \in Tasks : Begins(t, h)
  BY <1>1 DEF Command, Tasks, Begins
<1>2. CASE \E c \in Callers : FindCommand(c) \/ StopCommand(c) \/ \E q \in Qtys : QtyCommand(c, q)
  BY <1>1, <1>2 DEF FindCommand, StopCommand, QtyCommand, Handlers
<1>3. Elapse \/ UNCHANGED vars => UNCHANGED todo
  BY DEF Elapse, vars
<1>4. Timer \in Tasks
  BY DEF Tasks
<1>6. Restore => Begins(Timer, RestoreCalls)
  BY DEF Restore, Begins
<1>7. ASSUME NEW t \in Tasks, Step(t) PROVE Moves(t)
  BY <1>7 DEF Step, SetFindStatus, Publish, RestoreStop, RestoreStart, At, Done, Moves
<1>8. RestoreCalls \in Handlers
  BY DEF Handlers
<1> QED BY <1>2, <1>3, <1>4, <1>6, <1>7, <1>8 DEF Next

LEMMA LeftStep ==
  ASSUME todo \in [Tasks -> Seq(Names)], Left, [Next]_vars
  PROVE  todo' \in [Tasks -> Seq(Names)] /\ Left'
<1>1. ASSUME NEW t \in Tasks, NEW q, Suffix(q), todo' = [todo EXCEPT ![t] = q]
      PROVE  todo' \in [Tasks -> Seq(Names)] /\ Left'
  <2>1. q \in Seq(Names)
    BY <1>1, SuffixTail
  <2>2. todo' \in [Tasks -> Seq(Names)] /\ \A u \in Tasks : todo'[u] = IF u = t THEN q ELSE todo[u]
    BY <1>1, <2>1
  <2>3. \A u \in Tasks : Suffix(todo'[u])
    BY <1>1, <2>2 DEF Left
  <2> QED BY <2>2, <2>3 DEF Left
<1>2. CASE UNCHANGED todo
  BY <1>2 DEF Left
<1>3. ASSUME NEW t \in Tasks, Moves(t) PROVE Suffix(Tail(todo[t])) /\ todo' = [todo EXCEPT ![t] = Tail(todo[t])]
  BY <1>3, SuffixTail DEF Left, Moves
<1>4. ASSUME NEW t \in Tasks, NEW h \in Handlers, Begins(t, h)
      PROVE  Suffix(h) /\ todo' = [todo EXCEPT ![t] = h]
  BY <1>4, SuffixWhole DEF Begins
<1> QED BY <1>1, <1>2, <1>3, <1>4, TodoStep

\* The first record.
LEMMA ZeroTypes == ZeroRecord \in Record /\ ZeroRecord.status # "FINDING"
<1>1. 0 \in 0 .. SeqMod - 1 /\ 0 \in TagIds
  BY RecordAssumption DEF RecordAssumption
<1> QED BY <1>1 DEF ZeroRecord, Record, Status

\* The setters make records of records.
LEMMA Setters ==
  ASSUME NEW f \in Record
  PROVE  /\ \A q \in Qtys : WithQty(f, q) \in Record
                            /\ (WithQty(f, q).status = "FINDING" => f.status = "FINDING")
         /\ \A b \in BOOLEAN : WithFindStatus(f, b) \in Record
                               /\ (WithFindStatus(f, b).status = "FINDING" => b)
<1>1. Bumped(f) \in 0 .. SeqMod - 1
  <2>1. f.seq \in Nat /\ SeqMod \in Nat \ {0}
    BY RecordAssumption DEF Record, RecordAssumption
  <2> QED BY <2>1 DEF Bumped
<1> HIDE DEF Bumped
<1>2. ASSUME NEW q \in Qtys
      PROVE  WithQty(f, q) \in Record /\ (WithQty(f, q).status = "FINDING" => f.status = "FINDING")
  BY <1>1 DEF WithQty, Record, Status
<1>3. ASSUME NEW b \in BOOLEAN
      PROVE  WithFindStatus(f, b) \in Record /\ (WithFindStatus(f, b).status = "FINDING" => b)
  BY <1>1 DEF WithFindStatus, Record, Status
<1> QED BY <1>2, <1>3

LEMMA KindsStep ==
  ASSUME Kinds, Left, [Next]_vars
  PROVE  Kinds'
<1>0. todo' \in [Tasks -> Seq(Names)]
  BY LeftStep DEF Kinds
<1> DEFINE Flags == restore \in {"stopped", "running", "due"} /\ restore_ok \in BOOLEAN
           Given == commands \in Nat /\ commands <= MaxCommands
<1>1. Given'
  <2>1. commands' = commands \/ (commands < MaxCommands /\ commands' = commands + 1)
    BY DEF Next, FindCommand, StopCommand, QtyCommand, Command, Elapse, Restore, Step,
       SetFindStatus, Publish, RestoreStop, RestoreStart, vars
  <2> QED BY <2>1, CommandAssumption DEF Kinds, CommandAssumption
<1>2. Flags'
  <2>1. CASE UNCHANGED timers
    BY <2>1 DEF Kinds, timers
  <2>2. CASE Elapse \/ Restore
    BY <2>2 DEF Elapse, Restore, Kinds
  <2>3. ASSUME NEW t \in Tasks, RestoreStop(t) \/ RestoreStart(t) PROVE Flags'
    BY <2>3 DEF RestoreStop, RestoreStart, Kinds
  <2>4. ASSUME NEW t \in Tasks, SetFindStatus(t) \/ Publish(t) PROVE UNCHANGED timers
    BY <2>4 DEF SetFindStatus, Publish
  <2>5. ASSUME NEW c \in Callers, FindCommand(c) \/ StopCommand(c) \/ \E q \in Qtys : QtyCommand(c, q)
        PROVE  UNCHANGED timers
    BY <2>5 DEF FindCommand, StopCommand, QtyCommand, Command
  <2>6. UNCHANGED vars => UNCHANGED timers
    BY DEF vars
  <2> QED BY <2>1, <2>2, <2>3, <2>4, <2>5, <2>6 DEF Next, Step
<1>3. field' \in Record
  <2>1. CASE UNCHANGED field
    BY <2>1 DEF Kinds
  <2>2. ASSUME NEW c \in Callers, NEW q \in Qtys, QtyCommand(c, q) PROVE field' \in Record
    BY <2>2, Setters DEF QtyCommand, Kinds
  <2>3. ASSUME NEW t \in Tasks, SetFindStatus(t) PROVE field' \in Record
    BY <2>3, Setters DEF SetFindStatus, Kinds, At
  <2>4. ASSUME NEW c \in Callers, FindCommand(c) \/ StopCommand(c) PROVE UNCHANGED field
    BY <2>4 DEF FindCommand, StopCommand
  <2>5. Elapse \/ Restore \/ UNCHANGED vars => UNCHANGED field
    BY DEF Elapse, Restore, vars
  <2>6. ASSUME NEW t \in Tasks, Publish(t) \/ RestoreStop(t) \/ RestoreStart(t) PROVE UNCHANGED field
    BY <2>6 DEF Publish, RestoreStop, RestoreStart
  <2> QED BY <2>1, <2>2, <2>3, <2>4, <2>5, <2>6 DEF Next, Step
<1> QED BY <1>0, <1>1, <1>2, <1>3 DEF Kinds

\* A record that says FINDING keeps what will end it.
LEMMA ArmedStep ==
  ASSUME Kinds, Left, Armed, [Next]_vars
  PROVE  Armed'
<1>0. todo \in [Tasks -> Seq(Names)] /\ field \in Record /\ Timer \in Tasks
  BY DEF Kinds, Tasks
<1>1. ASSUME NEW c \in Callers, FindCommand(c) \/ StopCommand(c) \/ \E q \in Qtys : QtyCommand(c, q)
      PROVE  Armed'
  <2>1. /\ restore' = restore /\ restore_ok' = restore_ok
        /\ field' = field \/ \E q \in Qtys : field' = WithQty(field, q)
    BY <1>1 DEF FindCommand, StopCommand, QtyCommand, Command, timers
  <2>2. field'.status = "FINDING" => field.status = "FINDING"
    BY <2>1, <1>0, Setters
  <2>3. todo[c] = <<>> /\ c \in Tasks /\ \A t \in Tasks \ {c} : todo'[t] = todo[t]
    BY <1>1, <1>0 DEF FindCommand, StopCommand, QtyCommand, Command, Tasks
  <2>4. ~Owes(todo[c])
    BY <2>3, EmptyOwesNothing
  <2> QED BY <2>1, <2>2, <2>3, <2>4 DEF Armed
<1>2. CASE Elapse
  BY <1>2 DEF Elapse, Armed
<1>4. CASE Restore
  <2>1. todo'[Timer] = RestoreCalls
    BY <1>4, <1>0 DEF Restore
  <2>2. 1 \in 1 .. Len(RestoreCalls) /\ Settles(RestoreCalls[1])
    BY CallNames DEF Settles
  <2> QED BY <2>1, <2>2, <1>0 DEF Armed, Owes
<1>5. ASSUME NEW t \in Tasks, Step(t) PROVE Armed'
  <2>0. Moves(t) /\ todo[t] \in Seq(Names) /\ Suffix(todo[t])
    BY <1>5, <1>0 DEF Left, Step, SetFindStatus, Publish, RestoreStop, RestoreStart, At, Done, Moves
  <2>1. todo'[t] = Tail(todo[t]) /\ \A u \in Tasks \ {t} : todo'[u] = todo[u]
    BY <2>0, <1>0 DEF Moves
  <2>2. ASSUME ~Settles(Head(todo[t])), UNCHANGED <<field, restore, restore_ok>> PROVE Armed'
    <3>1. Owes(todo[t]) => Owes(todo'[t])
      BY <2>0, <2>1, <2>2, OwesTail DEF Moves
    <3> QED BY <2>1, <2>2, <3>1 DEF Armed
  <2>3. CASE Publish(t)
    <3>1. UNCHANGED <<field, restore, restore_ok>>
      BY <2>3 DEF Publish, timers
    <3>2. ~Settles(Head(todo[t]))
      BY <2>3 DEF Publish, At, Settles
    <3> QED BY <2>2, <3>1, <3>2
  <2>4. CASE SetFindStatus(t)
    <3>1. CASE At(t, "find_on")
      <4>1. Owes(todo'[t])
        BY <2>0, <2>1, <3>1, OwesTimer DEF At
      <4> QED BY <4>1 DEF Armed
    <3>2. CASE At(t, "find_off") /\ ~At(t, "find_on")
      <4>1. field' = WithFindStatus(field, FALSE)
        <5>1. At(t, "find_on") = FALSE
          BY <3>2 DEF At
        <5>2. field' = WithFindStatus(field, At(t, "find_on"))
          BY <2>4 DEF SetFindStatus
        <5> QED BY <5>1, <5>2
      <4>2. field'.status # "FINDING"
        BY <4>1, <1>0, Setters
      <4> QED BY <4>2 DEF Armed
    <3> QED BY <2>4, <3>1, <3>2 DEF SetFindStatus
  <2>5. CASE RestoreStop(t)
    <3>1. Owes(todo'[t])
      BY <2>0, <2>1, <2>5, OwesTimer DEF At, RestoreStop
    <3> QED BY <3>1 DEF Armed
  <2>6. CASE RestoreStart(t)
    <3>1. restore' = "running" \/ restore_ok' = FALSE
      BY <2>6 DEF RestoreStart
    <3> QED BY <3>1 DEF Armed
  <2> QED BY <1>5, <2>3, <2>4, <2>5, <2>6 DEF Step
<1>6. CASE UNCHANGED vars
  BY <1>6 DEF vars, timers, Armed
<1> QED BY <1>1, <1>2, <1>4, <1>5, <1>6 DEF Next

-----------------------------------------------------------------------------
(* Theorems.                                                               *)

\* FindInv holds when no command has come.
LEMMA FindInvInit == ASSUME Init PROVE FindInv
<1> USE DEF Init
<1>1. Suffix(<<>>) /\ \A t \in Tasks : todo[t] = <<>>
  BY SuffixWhole
<1>2. <<>> \in Seq(Names)
  OBVIOUS
<1>3. Kinds
  <2>1. field \in Record
    BY ZeroTypes
  <2>2. restore \in {"stopped", "running", "due"} /\ restore_ok \in BOOLEAN
    OBVIOUS
  <2>3. commands \in Nat /\ commands <= MaxCommands
    BY CommandAssumption DEF CommandAssumption
  <2>4. todo \in [Tasks -> Seq(Names)]
    BY <1>2
  <2> QED BY <2>1, <2>2, <2>3, <2>4 DEF Kinds
<1>4. Left
  BY <1>1 DEF Left
<1>5. Armed
  BY ZeroTypes DEF Armed
<1> QED BY <1>3, <1>4, <1>5 DEF FindInv

\* FindInv holds in every run.
THEOREM FindInvariance == Spec => []FindInv
<1>1. ASSUME FindInv, [Next]_vars PROVE FindInv'
  BY <1>1, KindsStep, ArmedStep, LeftStep DEF FindInv, Kinds
<1> QED BY <1>1, FindInvInit, PTL DEF Spec

\* Every variable keeps its type, and a task's calls are the end of a handler.
THEOREM TypeCorrect == Spec => []TypeOK
<1>1. ASSUME FindInv PROVE TypeOK
  <2>1. commands \in 0 .. MaxCommands
    BY <1>1, CommandAssumption DEF FindInv, Kinds, CommandAssumption
  <2>3. ASSUME NEW t \in Tasks
        PROVE  \E calls \in {FindCalls, StopCalls, RestoreCalls, QtyCalls} :
                 \E k \in 1 .. Len(calls) + 1 : todo[t] = SubSeq(calls, k, Len(calls))
    <3>1. Suffix(todo[t])
      BY <1>1 DEF FindInv, Left
    <3> QED BY <3>1 DEF Suffix, Handlers
  <2> QED BY <1>1, <2>1, <2>3 DEF FindInv, Kinds, TypeOK
<1> QED BY <1>1, FindInvariance, PTL

\* Once every handler is done, a record that says FINDING has a restore timer
\* that will end it, unless that timer could not be started.
THEOREM FindingCorrect == Spec => []FindingArmed
<1>1. ASSUME FindInv PROVE FindingArmed
  BY <1>1, EmptyOwesNothing DEF FindInv, Armed, FindingArmed, Quiet
<1> QED BY <1>1, FindInvariance, PTL

=============================================================================
