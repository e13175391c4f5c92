------------------------------ MODULE MCFormats ------------------------------
(***************************************************************************)
(* Inputs for the functions of YmodemCodec (images of every length,        *)
(* numbers, bit errors in a packet: each state is one input) and the two   *)
(* state machines of LogFormat and AnswerTags, one of the three at a time. *)
(***************************************************************************)
EXTENDS YmodemCodec, LogFormat, AnswerTags

CONSTANTS
  Names,       (* file names, as bytes                                     *)
  MaxImage,    (* bytes of the longest image                               *)
  Numbers,     (* file sizes for Int2Str                                   *)
  MaxBurst     (* bound: bits of a burst with any of them inverted         *)

VARIABLES
  image, name, number,
  errors       (* bits of Packet turned on the line                        *)

codecVars  == <<image, name, number, errors>>
formatVars == <<codecVars, parseVars, readVars>>

OneByte  == <<65>>
TwoBytes == <<65, 66>>
MCNames  == {OneByte, TwoBytes}
MCNumbers == {0, 7, 10, 105, 524288, 917504, 1000000000, 2000000001}
MCSizes  == [t \in {16, 32, 33, 34, 48, 49, 130} |->
               IF t = 16 THEN 3 ELSE IF t = 32 THEN 2 ELSE 1]

MCTokens     == {"F", "READ", "SIZE", COMMA, "1", NUL, "else"}
MCNumerals   == {<<>>, <<"0">>, <<"1">>, <<"2">>, <<"0", "3">>, <<"4">>}
MCOldAnswers == {<<"CHECK", COMMA>>, <<"F", "CHECK", COMMA, "1">>,
                 <<"F", "SIZE", COMMA, "2">>, <<"READ", COMMA>>}

Packet     == Ymodem_Transmit(<<7>>, TwoBytes)[1]
DataBits   == (Len(Packet) - 3) * 8
Received   ==
  [k \in 1 .. Len(Packet) |->
     LET Hit[b \in 0 .. 8] ==
           IF b = 0 THEN Packet[k]
           ELSE IF k > 3 /\ 8 * (k - 4) + b - 1 \in errors
                THEN Flip(Hit[b - 1], 8 - b) ELSE Hit[b - 1]
     IN  Hit[8]]

FormatInit ==
  /\ image = <<>> /\ name = OneByte /\ number = 0 /\ errors = {}
  /\ ParseInit /\ ReadInit

NoInput   == image = <<>> /\ number = 0 /\ errors = {}
NoLogYet  == log = <<>> /\ ~opened
NotAsked  == header = <<>> /\ recv = NoLog

(* No two bytes alike, or the last ones those that packets are padded with. *)
PickImage ==
  /\ \E n \in 1 .. MaxImage, m \in 0 .. 2 :
       image' = [k \in 1 .. n |-> IF k > n - m THEN 26 ELSE 26 + k]
  /\ name' \in Names
  /\ UNCHANGED <<number, errors>>

PickNumber ==
  /\ number' \in Numbers
  /\ UNCHANGED <<image, name, errors>>

(* Two bits anywhere, a run of up to 16, or any bits within MaxBurst.      *)
Between(b, c) ==
  IF c < b + MaxBurst THEN SUBSET (b + 1 .. c - 1)
  ELSE IF c < b + 16 THEN {{}, b + 1 .. c - 1} ELSE {{}}

Disturb ==
  /\ \E b, c \in 0 .. DataBits - 1 :
       /\ b <= c
       /\ \E inner \in Between(b, c) : errors' = {b, c} \cup inner
  /\ UNCHANGED <<image, name, number>>

FormatNext ==
  \/ /\ NoInput /\ NoLogYet /\ NotAsked
     /\ PickImage \/ PickNumber \/ Disturb
     /\ UNCHANGED <<parseVars, readVars>>
  \/ NoInput /\ NotAsked /\ ParseNext /\ UNCHANGED <<codecVars, readVars>>
  \/ NoInput /\ NoLogYet /\ ReadNext /\ UNCHANGED <<codecVars, parseVars>>

FormatSpec == FormatInit /\ [][FormatNext]_formatVars

-----------------------------------------------------------------------------
(* What Ymodem_Transmit sends is what a YMODEM receiver reads back, for    *)
(* every length and so for every mix of large, small and padded packets,   *)
(* as long as name and size fit the first one (ymodem.cpp:116-178); and    *)
(* the size in it reads as that number whatever its digits are, without    *)
(* zeros in front (ymodem.cpp:64-83).                                      *)
TransferArrives ==
  /\ Arrives(image, name)
  /\ Value(Int2Str(number)) = number
  /\ Len(Int2Str(number)) > 1 => Int2Str(number)[1] # 48

(* The CRC of ymodem.cpp:180-219 sees every pair of inverted bits, every   *)
(* run of up to 16, and every pattern of inverted bits that lies within    *)
(* MaxBurst of each other, in the data as in the CRC itself: what          *)
(* GWatchUpdate's Damage takes for granted.                                *)
DamageIsSeen == errors # {} => ~Intact(Received)
=============================================================================
