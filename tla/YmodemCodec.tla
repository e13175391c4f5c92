----------------------------- MODULE YmodemCodec -----------------------------
(***************************************************************************)
(* The bytes of a firmware transfer: what Ymodem_Transmit puts on the wire *)
(* for an image and a name, as functions.  When it sends them is in        *)
(* GWatchUpdate, which takes a damaged packet for one the watch refuses.   *)
(* Sizes are parameters, so that images of a few bytes fill packets.       *)
(***************************************************************************)
EXTENDS Naturals, Sequences, SequencesExt

CONSTANTS
  PACKET_SIZE, PACKET_1K_SIZE,
  BlkMod        (* blkNumber is cut to a byte: 256                         *)

ASSUME CodecAssumption ==
  /\ PACKET_SIZE \in Nat \ {0} /\ PACKET_1K_SIZE > PACKET_SIZE
  /\ BlkMod \in Nat \ {0, 1}

SOH == 1
STX == 2

Fill(s, n, x)  == s \o [k \in 1 .. n - Len(s) |-> x]
FirstOf(s, n)  == SubSeq(s, 1, IF n < Len(s) THEN n ELSE Len(s))
DropFirst(s, n)== SubSeq(s, n + 1, Len(s))

-----------------------------------------------------------------------------
(* Numbers and check values.                                               *)

(* Mutant: a zero inside the number starts it anew. *)
Int2StrNoStatus(intnum) ==
  LET Digit(k) == (intnum \div 10^(10 - k)) % 10
      Str[k \in 0 .. 10] ==
        IF k = 0 THEN <<>>
        ELSE IF k > 1 /\ Digit(k - 1) = 0 THEN <<Digit(k) + 48>>
        ELSE Append(Str[k - 1], Digit(k) + 48)
  IN  Str[10]

(* Ten digits, first to last.  As long as all were 0 (Status = 0), j = 0   *)
(* makes the next one overwrite what there is.                             *)
Int2Str(intnum) ==
  LET Digit(k)  == (intnum \div 10^(10 - k)) % 10
      Status(k) == \E j \in 1 .. k : Digit(j) # 0
      Str[k \in 0 .. 10] ==
        IF k = 0 THEN <<>>
        ELSE IF ~Status(k - 1) THEN <<Digit(k) + 48>>
        ELSE Append(Str[k - 1], Digit(k) + 48)
  IN  Str[10]

Bit(x, k)  == (x \div 2^k) % 2
Flip(x, k) == IF Bit(x, k) = 1 THEN x - 2^k ELSE x + 2^k

(* Mutant: the polynomial without its middle terms. *)
Xor1021Short(crc) == Flip(crc, 0)

(* crc ^= 0x1021. *)
Xor1021(crc) == Flip(Flip(Flip(crc, 12), 5), 0)

(* Eight shifts, the bits of byte first to last; the bits of crc above the *)
(* 16th stay until the last line cuts them off.                            *)
UpdateCRC16(crcIn, byte) ==
  LET Crc[k \in 0 .. 8] ==
        IF k = 0 THEN crcIn
        ELSE LET c == 2 * Crc[k - 1] + Bit(byte, 8 - k)
             IN  IF Bit(c, 16) = 1 THEN Xor1021(c) ELSE c
  IN  Crc[8] % 2^16

Cal_CRC16(data) ==
  LET padded == data \o <<0, 0>>
      After(byte) == [crc \in 0 .. 2^16 - 1 |-> UpdateCRC16(crc, byte)]
      Crc[n \in 0 .. Len(padded)] == IF n = 0 THEN 0 ELSE After(padded[n])[Crc[n - 1]]
  IN  Crc[Len(padded)]

-----------------------------------------------------------------------------
(* Packets.                                                                *)

(* Name, NUL, size; a name that leaves no room for the size pushes it out  *)
(* of the PACKET_SIZE bytes that are sent.                                 *)
Ymodem_PrepareIntialPacket(fileName, length) ==
  <<SOH, 0, BlkMod - 1>>
    \o FirstOf(Fill(fileName \o <<0>> \o Int2Str(length), PACKET_SIZE, 0), PACKET_SIZE)

PacketSize(sizeBlk) ==
  IF sizeBlk >= PACKET_1K_SIZE THEN PACKET_1K_SIZE ELSE PACKET_SIZE

Ymodem_PreparePacket(SourceBuf, pktNo) ==
  LET packetSize == PacketSize(Len(SourceBuf))
  IN  <<IF packetSize = PACKET_1K_SIZE THEN STX ELSE SOH, pktNo, BlkMod - 1 - pktNo>>
        \o Fill(FirstOf(SourceBuf, packetSize), packetSize, 26)

(* The packet as Ymodem_SendPacket gets it, its CRC behind it.             *)
Sealed(packet) ==
  LET crc == Cal_CRC16(DropFirst(packet, 3))
  IN  packet \o <<crc \div 256, crc % 256>>

(* Bytes still to send before each block of the while(size) loop.          *)
Left(buf) ==
  LET Blocks == 1 .. Len(buf) \div PACKET_SIZE + 1
      L[k \in Blocks] ==
        IF k = 1 THEN Len(buf)
        ELSE LET size == L[k - 1]
             IN  IF size > PacketSize(size) THEN size - PacketSize(size) ELSE 0
  IN  SelectSeq([k \in Blocks |-> L[k]], LAMBDA size : size > 0)

(* Mutant: the first block of data has number 0. *)
DataPacketsFrom0(buf) ==
  LET left == Left(buf)
  IN  [blkNumber \in 1 .. Len(left) |->
         Sealed(Ymodem_PreparePacket(DropFirst(buf, Len(buf) - left[blkNumber]),
                                     (blkNumber - 1) % BlkMod))]

DataPackets(buf) ==
  LET left == Left(buf)
  IN  [blkNumber \in 1 .. Len(left) |->
         Sealed(Ymodem_PreparePacket(DropFirst(buf, Len(buf) - left[blkNumber]),
                                     blkNumber % BlkMod))]

LastPacket == Sealed(<<SOH, 0, BlkMod - 1>> \o Fill(<<>>, PACKET_SIZE, 0))

Ymodem_Transmit(buf, sendFileName) ==
  <<Sealed(Ymodem_PrepareIntialPacket(sendFileName, Len(buf)))>>
    \o DataPackets(buf) \o <<LastPacket>>

-----------------------------------------------------------------------------
(* The other end, for reference: what a YMODEM receiver makes of packets.  *)

Intact(p) ==
  LET data == SubSeq(p, 4, Len(p) - 2)
  IN  /\ p[2] + p[3] = BlkMod - 1
      /\ Len(data) = IF p[1] = STX THEN PACKET_1K_SIZE ELSE PACKET_SIZE
      /\ Cal_CRC16(data) = 256 * p[Len(p) - 1] + p[Len(p)]

Payload(p) == SubSeq(p, 4, Len(p) - 2)

Value(digits) ==
  LET V[n \in 0 .. Len(digits)] == IF n = 0 THEN 0 ELSE 10 * V[n - 1] + digits[n] - 48
  IN  V[Len(digits)]
UpToNul(s) == FirstOf(s, (CHOOSE k \in 1 .. Len(s) + 1 :
                             /\ k = Len(s) + 1 \/ s[k] = 0
                             /\ \A j \in 1 .. k - 1 : s[j] # 0) - 1)

NameIn(p) == UpToNul(Payload(p))
SizeIn(p) == Value(UpToNul(DropFirst(Payload(p), Len(NameIn(p)) + 1)))
Bytes(packets) == FlattenSeq([k \in DOMAIN packets |-> Payload(packets[k])])

(* All of it arrives: every packet is intact and numbered on from the last *)
(* one, and name, size and image are those that were sent.                 *)
Arrives(buf, name) ==
  LET sent == Ymodem_Transmit(buf, name)
      data == SubSeq(sent, 2, Len(sent) - 1)
  IN  /\ \A k \in 1 .. Len(sent) : Intact(sent[k])
      /\ \A k \in 1 .. Len(data) : data[k][2] = k % BlkMod
      /\ NameIn(sent[1]) = name
      /\ SizeIn(sent[1]) = Len(buf)
      /\ FirstOf(Bytes(data), SizeIn(sent[1])) = buf
      /\ NameIn(sent[Len(sent)]) = <<>>
=============================================================================
