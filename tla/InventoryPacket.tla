-------------------------- MODULE InventoryPacket --------------------------
(***************************************************************************)
(* The packets of Smart_Inventory (data/data.c): a tag's mock data, packed *)
(* for a broadcast or a notification, and parsed by the same module's      *)
(* data_parse_broadcast and data_parse_connected.                          *)
(*                                                                         *)
(* A buffer is a sequence of bytes, so in[0] of the code is p[1] here; the *)
(* thirty-two-bit goods id is its four bytes, high byte first; a crc is    *)
(* the set of its bits.                                                    *)
(***************************************************************************)
EXTENDS Naturals, SequencesExt, FiniteSetsExt

CONSTANT MaxRounds   \* bound: rounds of the state machine's ADV state

VARIABLES
  info,           \* g_inventory_info: mac, battery, goods_id
  mock_counter,   \* g_mock_goods_id_counter
  mock_index,     \* g_mock_battery_index
  rounds,         \* rounds so far
  result          \* {}, or the one data_parse_result_t of the last packet

vars == <<info, mock_counter, mock_index, rounds, result>>

-----------------------------------------------------------------------------
(* CRC16: exclusive or is the symmetric difference.                        *)

Xor(a, b) == SymDiff(a, b)

CRC16_POLYNOMIAL == {15, 2, 0}   \* 0x8005
CRC16_INIT == 0 .. 15            \* 0xFFFF

Shift(crc) == {b + 1 : b \in crc \ {15}}

ShiftBit(crc) == IF 15 \in crc THEN Xor(Shift(crc), CRC16_POLYNOMIAL) ELSE Shift(crc)

\* The bits of a byte, moved up by `by' places.
Bits(byte, by) == {b \in by .. by + 7 : (byte \div 2^(b - by)) % 2 = 1}

AddByte(crc, byte) ==
  LET after[j \in 0 .. 8] == IF j = 0 THEN Xor(crc, Bits(byte, 8)) ELSE ShiftBit(after[j - 1])
  IN  after[8]

CalculateCrc16(data) == FoldLeft(AddByte, CRC16_INIT, data)

-----------------------------------------------------------------------------
(* Packing and parsing.                                                    *)

DATA_HEADER_VALUE == 170
DATA_FOOTER_VALUE == 85

Body(i) == i.mac \o <<i.battery>> \o i.goods_id

Value(bits) == SumSet({2^b : b \in bits})

HighByte(crc) == Value({b - 8 : b \in crc \cap 8 .. 15})
LowByte(crc) == Value(crc \cap 0 .. 7)

\* The crc covers sizeof(broadcast_data_t) - 2 bytes of a struct that has no crc
\* field, so the last two bytes of the goods id are left out of it.
PackBroadcast(i) ==
  LET crc == CalculateCrc16(SubSeq(Body(i), 1, 9))
  IN  Body(i) \o <<HighByte(crc), LowByte(crc)>>

\* The crc is a field of the packed struct, so it is in the core's byte order.
PackConnected(i) ==
  LET crc == CalculateCrc16(Body(i))
  IN  <<DATA_HEADER_VALUE>> \o Body(i) \o <<LowByte(crc), HighByte(crc), DATA_FOOTER_VALUE>>

\* What a parser makes of the body and of the crc's two bytes, over `covered'.
Parsed(body, crc, covered) ==
  [mac |-> SubSeq(body, 1, 6), battery |-> body[7], goods_id |-> SubSeq(body, 8, 11),
   is_valid |-> Bits(crc[1], 8) \cup Bits(crc[2], 0) = CalculateCrc16(covered)]

ParseBroadcast(p) == Parsed(SubSeq(p, 1, 11), SubSeq(p, 12, 13), SubSeq(p, 1, 11))

\* The crc covers twelve bytes here: the first byte of the crc is one of them.
ParseConnected(p) == Parsed(SubSeq(p, 2, 12), SubSeq(p, 13, 14), SubSeq(p, 2, 13))

-----------------------------------------------------------------------------
(* The tag's mock data.                                                    *)

MockBattery == <<95, 92, 88, 90, 87, 85, 83, 80, 78, 75>>

\* One more, in four bytes; the test for GOODS_ID_MAX never succeeds.
Successor(id) ==
  LET carry(k) == \A j \in k + 1 .. 4 : id[j] = 255
  IN  [k \in 1 .. 4 |-> IF carry(k) THEN (id[k] + 1) % 256 ELSE id[k]]

Init ==
  /\ info = [mac |-> <<17, 34, 51, 68, 85, 102>>, battery |-> 100, goods_id |-> <<0, 0, 0, 1>>]
  /\ mock_counter = <<18, 52, 86, 120>>
  /\ mock_index = 0
  /\ rounds = 0
  /\ result = {}

\* data_generate_mock_battery and data_generate_mock_goods_id.
GenerateMock ==
  /\ rounds < MaxRounds
  /\ rounds' = rounds + 1
  /\ mock_index' = (mock_index + 1) % Len(MockBattery)
  /\ mock_counter' = Successor(mock_counter)
  /\ info' = [info EXCEPT !.battery = MockBattery[mock_index' + 1], !.goods_id = mock_counter']
  /\ UNCHANGED result

Broadcast ==
  /\ result' = {ParseBroadcast(PackBroadcast(info))}
  /\ UNCHANGED <<info, mock_counter, mock_index, rounds>>

Notify ==
  /\ result' = {ParseConnected(PackConnected(info))}
  /\ UNCHANGED <<info, mock_counter, mock_index, rounds>>

Next == GenerateMock \/ Broadcast \/ Notify

Spec == Init /\ [][Next]_vars

-----------------------------------------------------------------------------
(* What the header says and the code does not do.                          *)

\* data/data.h:148, 281: is_valid says whether the data is valid, and a crc
\* that is right passes; so a packet nobody changed parses as valid.
UnchangedPacketIsValid == \A r \in result : r.is_valid

=============================================================================
