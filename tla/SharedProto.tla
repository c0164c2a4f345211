---------------------------- MODULE SharedProto ----------------------------
(***************************************************************************)
(* The wire formats of My_project_2x: components/shared_protocol, and the  *)
(* announcement components/sle_slave builds around the tag record.         *)
(*                                                                         *)
(* A buffer is a sequence of bytes, so buf[0] of the code is b[1] here.    *)
(* Thirty-two bits are two words, high word first: TLC's integers have     *)
(* thirty-one.  Abstracted: the NULL and buffer length tests, which no     *)
(* caller can fail (every buffer has the length of its format).            *)
(***************************************************************************)
EXTENDS Naturals, Sequences

Byte == 0 .. 255
Word == {n \in Nat : n < 65536}

\* The bytes proto_write_u16_be writes, and proto_read_u16_be.
Hi(v) == v \div 256
Lo(v) == v % 256
ReadU16(b, i) == b[i] * 256 + b[i + 1]

-----------------------------------------------------------------------------
(* The tag record.                                                         *)

SHARED_PROTO_MAGIC == <<43707, 52445>>   \* 0xAABB, 0xCCDD

AdvField == [magic : Word \X Word, tag_id : Word, qty : Word,
             status : Byte, battery : Byte, seq : Word]

SerializeAdvField(f) ==
  <<Hi(f.magic[1]), Lo(f.magic[1]), Hi(f.magic[2]), Lo(f.magic[2]),
    Hi(f.tag_id), Lo(f.tag_id), Hi(f.qty), Lo(f.qty), f.status, f.battery, Hi(f.seq), Lo(f.seq)>>

DeserializeAdvField(b) ==
  [magic |-> <<ReadU16(b, 1), ReadU16(b, 3)>>, tag_id |-> ReadU16(b, 5), qty |-> ReadU16(b, 7),
   status |-> b[9], battery |-> b[10], seq |-> ReadU16(b, 11)]

AdvFieldIsValid(f) == f.magic = SHARED_PROTO_MAGIC

-----------------------------------------------------------------------------
(* The announcement: elements of a length, a type and length - 1 bytes.    *)

ManufacturerHeader == <<15, 255, 90, 165>>   \* length, type, manufacturer id 0xA55A

EncodeManufacturerAdv(f) == ManufacturerHeader \o SerializeAdvField(f)

AnnounceData(payload) == <<2, 1, 1, 2, 2, 0>> \o payload

\* What a scanner does: it steps over two elements and reads the third.
ElementAfter(d, i) == i + d[i] + 1

ScannedField(d) ==
  LET e == ElementAfter(d, ElementAfter(d, 1))
  IN  [complete |-> Len(d) = e + d[e],
       own |-> <<d[e], d[e + 1], d[e + 2], d[e + 3]>> = ManufacturerHeader,
       field |-> DeserializeAdvField([k \in 1 .. d[e] - 3 |-> d[e + 3 + k]])]

-----------------------------------------------------------------------------
(* Commands and answers.                                                   *)

NoCommand == [action |-> "NONE", qty |-> 0, tag_id |-> 0]

Actions == {"STOP_FIND", "FIND_ME", "INVENTORY", "UPDATE_QTY", "BIND_TAG"}

Commands ==
  {c \in [action : Actions, qty : Word, tag_id : Word] :
     /\ c.action # "UPDATE_QTY" => c.qty = 0
     /\ c.action # "BIND_TAG" => c.tag_id = 0}

\* What the client writes (docs/ws63_cooperation_spec.md:138-142).
CommandFrame(c) ==
  CASE c.action = "STOP_FIND"  -> <<0>>
    [] c.action = "FIND_ME"    -> <<1>>
    [] c.action = "INVENTORY"  -> <<2>>
    [] c.action = "UPDATE_QTY" -> <<16, Hi(c.qty), Lo(c.qty)>>
    [] c.action = "BIND_TAG"   -> <<32, Hi(c.tag_id), Lo(c.tag_id)>>

\* Mutant: the commands of one byte are taken from longer frames, too.
ParseUnicastCmdPrefix(d) ==
  CASE d[1] = 0 -> [NoCommand EXCEPT !.action = "STOP_FIND"]
    [] d[1] = 1 -> [NoCommand EXCEPT !.action = "FIND_ME"]
    [] d[1] = 2 -> [NoCommand EXCEPT !.action = "INVENTORY"]
    [] d[1] = 16 /\ Len(d) >= 3 -> [NoCommand EXCEPT !.action = "UPDATE_QTY", !.qty = ReadU16(d, 2)]
    [] d[1] = 32 /\ Len(d) >= 3 -> [NoCommand EXCEPT !.action = "BIND_TAG", !.tag_id = ReadU16(d, 2)]
    [] OTHER -> NoCommand

\* shared_proto_parse_unicast_cmd; NoCommand stands for its result false.
ParseUnicastCmd(d) ==
  CASE d = <<0>> -> [NoCommand EXCEPT !.action = "STOP_FIND"]
    [] d = <<1>> -> [NoCommand EXCEPT !.action = "FIND_ME"]
    [] d = <<2>> -> [NoCommand EXCEPT !.action = "INVENTORY"]
    [] Len(d) >= 3 /\ d[1] = 16 -> [NoCommand EXCEPT !.action = "UPDATE_QTY", !.qty = ReadU16(d, 2)]
    [] Len(d) >= 3 /\ d[1] = 32 -> [NoCommand EXCEPT !.action = "BIND_TAG", !.tag_id = ReadU16(d, 2)]
    [] OTHER -> NoCommand

InventoryRsp == [tag_id : Word, qty : Word, status : Byte, battery : Byte, seq : Word]

SerializeInventoryRsp(r) ==
  <<130, Hi(r.tag_id), Lo(r.tag_id), Hi(r.qty), Lo(r.qty), r.status, r.battery, Hi(r.seq), Lo(r.seq)>>

SerializeBindRsp(success, tag_id) == <<IF success THEN 160 ELSE 175, Hi(tag_id), Lo(tag_id)>>

\* How the client reads the answers (docs/ws63_cooperation_spec.md:150-170).
ReadInventoryRsp(b) ==
  [tag_id |-> ReadU16(b, 2), qty |-> ReadU16(b, 4), status |-> b[6], battery |-> b[7],
   seq |-> ReadU16(b, 8)]

=============================================================================
