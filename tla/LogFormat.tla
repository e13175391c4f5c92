------------------------------ MODULE LogFormat ------------------------------
(***************************************************************************)
(* doParseFile: from the bytes of a downloaded log to the GPS rows of the  *)
(* .cosmos file.  The watch writes a log record by record; the file may    *)
(* hold only a first part of it.  The sizes of the records come from       *)
(* Storage.h, which is not part of the sources.                            *)
(***************************************************************************)
EXTENDS Naturals, Sequences

CONSTANTS
  HeadSize,    (* sizeof(STORAGE_HEAD)                                     *)
  Sizes,       (* of the data of each kind of record, by its tag byte      *)
  BufferSize,  (* bytes of buffer (512) that matter                        *)
  Data,        (* what the bytes of a record may be                        *)
  MaxRecords   (* bound: records of the longest log                        *)

GPS       == 16
HEARTBEAT == 32
LAP       == 130
Tags      == DOMAIN Sizes

(* The code measures a GPS record by the size of a heartbeat, which is     *)
(* right only if that is not the larger of the two, and reads every record *)
(* into buffer without a check.                                            *)
ASSUME FormatAssumption ==
  /\ HeadSize \in Nat \ {0} /\ BufferSize \in Nat /\ MaxRecords \in Nat
  /\ {GPS, HEARTBEAT, LAP} \subseteq Tags /\ Tags \subseteq 1 .. 255
  /\ \A t \in Tags : Sizes[t] \in Nat \ {0} /\ Sizes[t] <= BufferSize
  /\ HeadSize <= BufferSize /\ Sizes[HEARTBEAT] <= Sizes[GPS]

VARIABLES
  log,      (* the records: [at |-> place of the tag, record |-> bytes]    *)
  bytes,    (* all bytes of the log                                        *)
  opened,   (* doParseFile has the file open                               *)
  end,      (* how many of the bytes the file holds                        *)
  next,     (* where the file is read next                                 *)
  buffer,   (* doParseFile's buffer, not cleared before it is used         *)
  more,     (* w # 0: the loop goes on                                     *)
  failed,   (* the .cosmos file was not created, or a row not written      *)
  rows      (* the GPS rows: [at |-> place of the tag, data |-> what of]   *)

parseVars == <<log, bytes, opened, end, next, buffer, more, failed, rows>>

BytesOf(n) == [1 .. n -> Data]
Size(tag)  == IF tag \in Tags THEN Sizes[tag] ELSE 0

ParseInit ==
  /\ log = <<>> /\ bytes \in BytesOf(HeadSize)
  /\ opened = FALSE /\ end = 0 /\ next = 1
  /\ buffer = <<>> /\ more = FALSE /\ failed = FALSE /\ rows = <<>>

(* The watch: one more record, or a byte between records.                  *)
WriteRecord ==
  /\ ~opened /\ Len(log) < MaxRecords
  /\ \E tag \in Tags \cup Data : \E data \in BytesOf(Size(tag)) :
       /\ log' = Append(log, [at |-> Len(bytes) + 1, record |-> <<tag>> \o data])
       /\ bytes' = bytes \o <<tag>> \o data
  /\ UNCHANGED <<opened, end, next, buffer, more, failed, rows>>

Smaller(a, b) == IF a < b THEN a ELSE b

(* ReadFile: what is there, over the start of the buffer.                  *)
Over(buf, got) ==
  [k \in 1 .. BufferSize |-> IF k <= Len(got) THEN got[k] ELSE buf[k]]

(* The file with its first n bytes, and the head; a file that is shorter   *)
(* than that is left alone, and so is one whose .cosmos file cannot be     *)
(* created.                                                                *)
Open(n) ==
  /\ ~opened /\ opened' = TRUE
  /\ end' = n
  /\ next' = HeadSize + 1
  /\ failed' \in {FALSE, n >= HeadSize}
  /\ more' = (n >= HeadSize /\ ~failed')
  /\ \E stack \in BytesOf(BufferSize) :
       buffer' = Over(stack, SubSeq(bytes, 1, Smaller(n, HeadSize)))
  /\ UNCHANGED <<log, bytes, rows>>

(* A GPS row, when the bytes in the buffer are a position other than 0, 0. *)
Row(at, buf) ==
  LET data == SubSeq(buf, 1, Sizes[GPS])
  IN  IF \E k \in 1 .. Sizes[GPS] : data[k] # 0
      THEN <<[at |-> at, data |-> data]>> ELSE <<>>

(* Mutant: the data of an unwanted record is not read over. *)
RecordTagOnly(file, p, buf) ==
  LET tag  == file[p]
      got  == IF tag = GPS THEN SubSeq(file, p + 1, Smaller(p + Sizes[tag], Len(file)))
              ELSE <<>>
      over == Over(Over(buf, <<tag>>), got)
      all  == tag # GPS \/ Len(got) >= Sizes[HEARTBEAT]
  IN  [next |-> p + 1 + Len(got), buffer |-> over, more |-> all,
       rows |-> IF tag = GPS /\ all THEN Row(p, over) ELSE <<>>]

(* How much of its data a record has to have.                              *)
Needed(tag) ==
  IF tag = GPS THEN Sizes[HEARTBEAT] ELSE IF tag = LAP THEN 1 ELSE Size(tag)

(* One pass of the loop: the tag, then the data, as much as there is.  A   *)
(* byte that is no tag is passed over.                                     *)
Record(file, p, buf) ==
  LET tag  == file[p]
      got  == SubSeq(file, p + 1, Smaller(p + Size(tag), Len(file)))
      over == Over(Over(buf, <<tag>>), got)
      all  == Len(got) >= Needed(tag)
  IN  [next |-> p + 1 + Len(got), buffer |-> over, more |-> all,
       rows |-> IF tag = GPS /\ all THEN Row(p, over) ELSE <<>>]

(* The WriteFile of a row sets w too: one that fails ends the loop.        *)
ReadRecord ==
  /\ opened /\ more /\ next <= end
  /\ LET r == Record(SubSeq(bytes, 1, end), next, buffer)
     IN  /\ next' = r.next /\ buffer' = r.buffer
         /\ failed' \in {FALSE, r.rows # <<>>}
         /\ more' = (r.more /\ ~failed')
         /\ rows' = IF failed' THEN rows ELSE rows \o r.rows
  /\ UNCHANGED <<log, bytes, opened, end>>

ParseNext == WriteRecord \/ (\E n \in 0 .. Len(bytes) : Open(n)) \/ ReadRecord

ParseSpec == ParseInit /\ [][ParseNext]_parseVars

-----------------------------------------------------------------------------
IsGps(r)   == r.record[1] = GPS
Whole(r)   == r.at + Size(r.record[1]) <= end
Located(r) == \E j \in 2 .. Len(r.record) : r.record[j] # 0

(* A row of a whole record, or of one that the end of the file cuts behind *)
(* the length of a heartbeat: its rest is what the buffer held before.     *)
RowOf(row, r) ==
  /\ IsGps(r) /\ r.at = row.at
  /\ Len(row.data) = Sizes[GPS]
  /\ \A j \in 1 .. Sizes[GPS] : r.at + j <= end => row.data[j] = r.record[j + 1]
  /\ Whole(r) => Located(r)
  /\ r.at + Sizes[HEARTBEAT] <= end

Done == opened /\ (~more \/ next > end)

(* Whatever is between them, every GPS record that is wholly there gives   *)
(* its row, in order and with its data, and no other bytes are taken for   *)
(* one; only the last row can be of a record that is cut, and then its     *)
(* rest is stale.  A failed write takes its own row and those behind it,   *)
(* none before (CosmosParser.cpp:86-145).                                  *)
RowsAreRecords ==
  /\ \A n \in DOMAIN rows : \E k \in DOMAIN log :
       RowOf(rows[n], log[k]) /\ (n < Len(rows) => Whole(log[k]))
  /\ \A m, n \in DOMAIN rows : m < n => rows[m].at < rows[n].at
  /\ Done /\ end >= HeadSize =>
       \A k \in DOMAIN log : IsGps(log[k]) /\ Whole(log[k]) /\ Located(log[k])
         => \/ \E n \in DOMAIN rows : rows[n].at = log[k].at
            \/ failed /\ \A n \in DOMAIN rows : rows[n].at < log[k].at
=============================================================================
