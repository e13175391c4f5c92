------------------------------ MODULE AnswerTags ------------------------------
(***************************************************************************)
(* How proc tells an answer of the watch from the content of a log, on the *)
(* bytes of one ReadFile.  LogReceiver takes that distinction for granted  *)
(* and models when its effects happen; here a buffer is a sequence of      *)
(* tokens, so that answers can be cut in two and logs can look like them.  *)
(***************************************************************************)
EXTENDS Integers, Sequences, SequencesExt

CONSTANTS
  Tokens,      (* what a log may hold                                      *)
  Numerals,    (* numbers as the watch prints them, as sequences of digits *)
  OldAnswers,  (* what it may have to say before it answers an FREAD       *)
  MaxContent   (* bound: tokens of the longest log                         *)

NUL    == "NUL"
COMMA  == ","
Digits == <<"0", "1", "2", "3", "4", "5", "6", "7", "8", "9">>

(* In the order of cmdTag: CHECK hides FCHECK.                             *)
cmdTag == <<<<"CHECK">>, <<"F", "CHECK">>, <<"F", "SIZE">>, <<"F", "READ">>>>

(* The part of buf that strstr looks at; buf[len] is '\0'.                 *)
CString(buf) ==
  LET end == CHOOSE n \in 0 .. Len(buf) :
               /\ n = Len(buf) \/ buf[n + 1] = NUL
               /\ \A k \in 1 .. n : buf[k] # NUL
  IN  SubSeq(buf, 1, end)

DropTo(s, n)   == SubSeq(s, n + 1, Len(s))
Strstr(buf, s) ==
  LET text == CString(buf)
  IN  \E k \in DOMAIN text : IsPrefix(s, DropTo(text, k - 1))

(* The digits behind the first comma, as a number; 0 for none.             *)
AfterComma(buf) ==
  LET s    == CString(buf)
      comma == CHOOSE k \in 1 .. Len(s) : s[k] = COMMA /\ \A j \in 1 .. k - 1 : s[j] # COMMA
      Number[k \in comma .. Len(s)] ==
        IF k = comma THEN 0
        ELSE IF \A j \in comma + 1 .. k : s[j] \in Range(Digits)
        THEN 10 * Number[k - 1] + (CHOOSE d \in 0 .. 9 : Digits[d + 1] = s[k])
        ELSE Number[k - 1]
  IN  Number[Len(s)]

getTagIndex(buf) ==
  LET found == {k \in DOMAIN cmdTag : Strstr(buf, cmdTag[k])}
  IN  IF found = {} THEN Len(cmdTag)
      ELSE (CHOOSE k \in found : \A j \in found : k <= j) - 1

(* Mutant: a comma is enough, the tag is not looked at. *)
IsAnswerByComma(buf) == Strstr(buf, <<COMMA>>)

IsAnswer(buf) == getTagIndex(buf) < Len(cmdTag) /\ Strstr(buf, <<COMMA>>)

(* Members of the receiver, as the constructor sets them; it leaves        *)
(* total_recv alone, which an FREAD sets before it is looked at.           *)
NoLog == [flag |-> 0, file_size |-> 0, total_recv |-> 0, file |-> <<>>]

(* Cases 0 to 3 of the switch.                                             *)
TakeAnswer(r, buf) ==
  LET index == getTagIndex(buf)
      value == AfterComma(buf)
  IN  IF index = 2 THEN [r EXCEPT !.file_size = value]
      ELSE IF index = 3 /\ value = 0
      THEN [r EXCEPT !.total_recv = 0, !.file_size = 0, !.flag = 1]
      ELSE IF index = 3
      THEN [flag |-> 2, file_size |-> value, total_recv |-> 0, file |-> <<>>]
      ELSE r

(* An FSIZE with no number behind it has set file_size to 0, and RATE      *)
(* divides by it: the program is gone, which flag -1 stands for.           *)
TakeContent(r, buf) ==
  LET recv == r.total_recv + Len(buf)
  IN  IF r.flag # 2 THEN r
      ELSE [r EXCEPT !.file = @ \o buf, !.total_recv = recv,
                     !.flag = IF r.file_size = 0 THEN -1
                              ELSE IF recv >= r.file_size THEN 3 ELSE 2]

(* proc, on one buffer.                                                    *)
proc(r, buf) == IF IsAnswer(buf) THEN TakeAnswer(r, buf) ELSE TakeContent(r, buf)

(* Nothing that the watch says before is an answer to an FREAD.            *)
ASSUME AnswerAssumption ==
  /\ Numerals \subseteq Seq(Range(Digits))
  /\ \A buf \in OldAnswers : getTagIndex(buf) # 3
  /\ MaxContent \in Nat

-----------------------------------------------------------------------------
VARIABLES
  header,   (* what the watch answers to the FREAD, <<>> before it does    *)
  content,  (* the log that follows, empty when the watch has none         *)
  pos,      (* how much of header and content was read                     *)
  recv,     (* the receiver's members                                      *)
  spoilt    (* history: a read was cut badly, or content looked like more  *)

readVars == <<header, content, pos, recv, spoilt>>

Sent    == header \o content
Stored  == pos - Len(header)

ReadInit ==
  /\ header = <<>> /\ content = <<>> /\ pos = 0
  /\ recv = NoLog /\ spoilt = FALSE

(* What is left of the answers to earlier commands, a buffer at a time.    *)
ReadOld ==
  /\ header = <<>>
  /\ \E buf \in OldAnswers : recv' = proc(recv, buf)
  /\ UNCHANGED <<header, content, pos, spoilt>>

(* The watch answers the FREAD with the size of the log, and the log.      *)
Answer ==
  /\ header = <<>>
  /\ \E number \in Numerals : header' = <<"F", "READ", COMMA>> \o number
  /\ \E n \in 0 .. MaxContent : content' \in [1 .. n -> Tokens]
  /\ AfterComma(header') = Len(content')
  /\ UNCHANGED <<pos, recv, spoilt>>

(* A tag and a comma, both before any NUL.                                 *)
LooksLikeAnswer(read) ==
  \E j, k \in DOMAIN read : \E tag \in Range(cmdTag) :
    /\ read[j] = COMMA
    /\ k + Len(tag) - 1 <= Len(read)
    /\ SubSeq(read, k, k + Len(tag) - 1) = tag
    /\ \A n \in (1 .. j) \cup (1 .. k + Len(tag) - 1) : read[n] # NUL

(* The loop of ReadThread: ReadCom ends anywhere, proc gets what it read.  *)
ReadCom ==
  /\ \E n \in 1 .. Len(Sent) - pos :
       LET chunk == SubSeq(Sent, pos + 1, pos + n)
       IN  /\ recv' = proc(recv, chunk)
           /\ pos' = pos + n
           /\ spoilt' = (spoilt \/ IF pos = 0 THEN n # Len(header)
                                   ELSE LooksLikeAnswer(chunk))
  /\ UNCHANGED <<header, content>>

ReadNext == ReadOld \/ Answer \/ ReadCom

ReadSpec == ReadInit /\ [][ReadNext]_readVars

-----------------------------------------------------------------------------
(* However a log is cut into reads, and whatever the watch said before its *)
(* header, the file holds what was read of it, in order and from its first *)
(* byte, and flag says at the last byte, and not earlier, that it is all   *)
(* there - if the header came in a read of its own and no later read holds *)
(* a tag and a comma before any NUL: commas alone, tags alone, tags cut in *)
(* two and what stands behind a NUL are content.  A log that the watch     *)
(* does not have sets flag to 1 and writes nothing                         *)
(* (CosmosReadCommProc.cpp:109-174).                                       *)
LogArrives ==
  ~spoilt =>
    IF pos = 0 THEN recv.flag = 0 /\ recv.file = <<>>
    ELSE IF content = <<>> THEN recv.flag = 1 /\ recv.file = <<>>
    ELSE /\ recv.file = SubSeq(content, 1, Stored)
         /\ recv.flag = IF Stored = Len(content) THEN 3 ELSE 2
=============================================================================
