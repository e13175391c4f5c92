---------------------------- MODULE FormatProofs ----------------------------
(***************************************************************************)
(* Theorems about LogFormat and AnswerTags, for records and heads of any   *)
(* size with any bytes in them, and for logs of any length, of any tokens  *)
(* and in reads of any length.                                             *)
(***************************************************************************)
EXTENDS LogFormat, AnswerTags, SequenceTheorems, WellFoundedInduction, TLAPS

-----------------------------------------------------------------------------
(* doParseFile: the inductive invariant.                                   *)

LogRecord == [at : Nat, record : Seq(Tags \cup Data)]
GpsRow    == [at : Nat, data : Seq(Tags \cup Data)]

ParseTypeOK ==
  /\ log \in Seq(LogRecord)
  /\ bytes \in Seq(Tags \cup Data)
  /\ opened \in BOOLEAN /\ more \in BOOLEAN /\ failed \in BOOLEAN
  /\ end \in Nat /\ next \in Nat
  /\ opened => buffer \in [1 .. BufferSize -> Tags \cup Data]
  /\ rows \in Seq(GpsRow)

(* Where the record behind the n-th begins.                                *)
Behind(n) == IF n = 0 THEN HeadSize + 1 ELSE log[n].at + Len(log[n].record)

(* The records lie behind the head and one behind the other.               *)
LogFits ==
  /\ \A k \in DOMAIN log :
       /\ Len(log[k].record) = 1 + Size(log[k].record[1])
       /\ log[k].at = Behind(k - 1)
       /\ log[k].at + Len(log[k].record) <= Len(bytes) + 1
       /\ \A j \in DOMAIN log[k].record : bytes[log[k].at + j - 1] = log[k].record[j]
  /\ \A k, m \in DOMAIN log : k < m => log[k].at < log[m].at
  /\ Behind(Len(log)) = Len(bytes) + 1

(* The file is read from the tag of a record, or to its end; the rows are  *)
(* those of the records before that place, and a record that is cut, or    *)
(* whose row is not written, is the last that is read.                     *)
Found(k) ==
  \/ \E n \in DOMAIN rows : rows[n].at = log[k].at
  \/ failed /\ \A n \in DOMAIN rows : rows[n].at < log[k].at

ParseFits ==
  /\ end <= Len(bytes)
  /\ failed => opened /\ ~more
  /\ ~opened \/ end < HeadSize => rows = <<>>
  /\ end < HeadSize => ~more
  /\ opened /\ end >= HeadSize =>
       /\ next > end \/ \E k \in DOMAIN log : log[k].at = next
       /\ ~more => next > end \/ failed
       /\ \A k \in DOMAIN log :
            log[k].at < next /\ IsGps(log[k]) /\ Whole(log[k]) /\ Located(log[k])
              => Found(k)
  /\ \A n \in DOMAIN rows :
       /\ rows[n].at < next
       /\ \E k \in DOMAIN log :
            /\ RowOf(rows[n], log[k])
            /\ Whole(log[k]) \/ (n = Len(rows) /\ next > end)
  /\ \A m, n \in DOMAIN rows : m < n => rows[m].at < rows[n].at

ParseInv == ParseTypeOK /\ LogFits /\ ParseFits

-----------------------------------------------------------------------------
(* proc: the inductive invariant.                                          *)

ReadTypeOK ==
  /\ content \in Seq(Tokens)
  /\ pos \in 0 .. Len(Sent)
  /\ DOMAIN recv = {"flag", "file_size", "total_recv", "file"}
  /\ spoilt \in BOOLEAN

(* The answer to the FREAD, once there is one.                             *)
HeaderFits ==
  /\ header = <<>> => content = <<>> /\ pos = 0
  /\ header # <<>> =>
       /\ \E number \in Numerals : header = <<"F", "READ", COMMA>> \o number
       /\ AfterComma(header) = Len(content)

(* What proc has made of what it got.                                      *)
ReadFits ==
  ~spoilt =>
    \/ pos = 0 /\ recv.flag = 0 /\ recv.file = <<>>
    \/ /\ header # <<>> /\ pos >= Len(header)
       /\ IF content = <<>> THEN recv.flag = 1 /\ recv.file = <<>>
          ELSE /\ recv.file_size = Len(content)
               /\ recv.total_recv = Stored
               /\ recv.file = SubSeq(content, 1, Stored)
               /\ recv.flag = IF Stored = Len(content) THEN 3 ELSE 2

ReadInv == ReadTypeOK /\ HeaderFits /\ ReadFits

-----------------------------------------------------------------------------
(* Parts of sequences.                                                     *)

(* The elements m to n of a sequence.                                      *)
LEMMA Stretch ==
  ASSUME NEW S, NEW s \in Seq(S), NEW m \in Nat \ {0}, NEW n \in Nat,
         m <= n + 1, n <= Len(s)
  PROVE  /\ SubSeq(s, m, n) \in Seq(S)
         /\ Len(SubSeq(s, m, n)) = n + 1 - m
         /\ \A k \in 1 .. n + 1 - m : SubSeq(s, m, n)[k] = s[m + k - 1]
<1> DEFINE part == SubSeq(s, m, n)
<1>1. Len(s) \in Nat /\ \A k \in 1 .. Len(s) : s[k] \in S
  BY LenProperties, ElementOfSeq
<1>2. m \in Int /\ n \in Int /\ \A k \in m .. n : s[k] \in S
  BY <1>1
<1>3. /\ part \in Seq(S) /\ Len(part) = IF m <= n THEN n - m + 1 ELSE 0
      /\ \A k \in 1 .. n - m + 1 : part[k] = s[m + k - 1]
  BY <1>2, SubSeqProperties
<1> HIDE DEF part
<1>4. part \in Seq(S) /\ Len(part) = n + 1 - m
  BY <1>3
<1>5. \A k \in 1 .. n + 1 - m : part[k] = s[m + k - 1]
  BY <1>3
<1> QED
  BY <1>4, <1>5 DEF part

-----------------------------------------------------------------------------
(* What strstr finds.                                                      *)

AllTokens == Tokens \cup Range(Digits) \cup {"F", "READ", COMMA}

(* strstr looks at a first part of the buffer, up to the first NUL.        *)
LEMMA CStringIs ==
  ASSUME NEW S, NEW buf \in Seq(S)
  PROVE  \E end0 \in 0 .. Len(buf) :
           /\ CString(buf) = SubSeq(buf, 1, end0)
           /\ end0 = Len(buf) \/ buf[end0 + 1] = NUL
           /\ \A k \in 1 .. end0 : buf[k] # NUL
<1> DEFINE T == {n \in 0 .. Len(buf) : n = Len(buf) \/ buf[n + 1] = NUL}
           Fits(n) == /\ n = Len(buf) \/ buf[n + 1] = NUL
                      /\ \A k \in 1 .. n : buf[k] # NUL
<1>1. Len(buf) \in Nat
  BY LenProperties
<1>2. T \subseteq Nat /\ T # {}
  BY <1>1
<1>3. PICK n \in T : \A m \in T : ~(<<m, n>> \in OpToRel(<, Nat))
  BY <1>2, NatLessThanWellFounded, WFMin
<1>4. \A m \in T : ~(m < n)
  BY <1>2, <1>3 DEF OpToRel
<1>5. \A k \in 1 .. n : buf[k] # NUL
  <2> SUFFICES ASSUME NEW k \in 1 .. n, buf[k] = NUL PROVE FALSE
    OBVIOUS
  <2>1. k - 1 \in 0 .. Len(buf) /\ (k - 1) + 1 = k
    BY <1>1
  <2>2. k - 1 \in T /\ k - 1 < n
    BY <1>1, <2>1
  <2> QED
    BY <1>4, <2>2
<1>6. \E m \in 0 .. Len(buf) : Fits(m)
  BY <1>5
<1>7. DEFINE e == CHOOSE m \in 0 .. Len(buf) : Fits(m)
<1>8. e \in 0 .. Len(buf) /\ Fits(e)
  BY <1>6
<1>9. CString(buf) = SubSeq(buf, 1, e)
  BY DEF CString
<1> HIDE DEF e
<1> QED
  BY <1>8, <1>9

(* What strstr finds stands in the buffer, with no NUL before its end.     *)
LEMMA StrstrFinds ==
  ASSUME NEW S, NEW buf \in Seq(S), NEW s \in Seq(S), Strstr(buf, s), s # <<>>
  PROVE  \E k \in DOMAIN buf :
           /\ k + Len(s) - 1 <= Len(buf)
           /\ SubSeq(buf, k, k + Len(s) - 1) = s
           /\ \A n \in 1 .. k + Len(s) - 1 : buf[n] # NUL
<1>1. PICK e \in 0 .. Len(buf) : /\ CString(buf) = SubSeq(buf, 1, e)
                                 /\ \A k \in 1 .. e : buf[k] # NUL
  BY CStringIs
<1> DEFINE text == SubSeq(buf, 1, e)
<1>2. /\ Len(buf) \in Nat /\ DOMAIN buf = 1 .. Len(buf)
      /\ \A n \in 1 .. Len(buf) : buf[n] \in S
      /\ Len(s) \in Nat /\ Len(s) >= 1
  BY LenProperties, EmptySeq, ElementOfSeq
<1>3. /\ text \in Seq(S) /\ Len(text) = e /\ DOMAIN text = 1 .. e
      /\ \A n \in 1 .. e : text[n] = buf[n]
  <2>1. \A n \in 1 .. e : buf[n] \in S
    BY <1>2
  <2>2. /\ text \in Seq(S) /\ Len(text) = (IF 1 <= e THEN e - 1 + 1 ELSE 0)
        /\ \A n \in 1 .. e - 1 + 1 : text[n] = buf[1 + n - 1]
    BY <2>1, SubSeqProperties
  <2>3. Len(text) = e
    BY <2>2
  <2> HIDE DEF text
  <2> QED
    BY <2>2, <2>3, LenProperties
<1> HIDE DEF text
<1>4. PICK k \in 1 .. e : IsPrefix(s, DropTo(text, k - 1))
  BY <1>1, <1>3 DEF Strstr, text
<1> DEFINE rest == SubSeq(text, k, e)
<1>5. DropTo(text, k - 1) = rest
  BY <1>3 DEF DropTo
<1>6. /\ rest \in Seq(S) /\ Len(rest) = e - k + 1
      /\ \A n \in 1 .. e - k + 1 : rest[n] = text[k + n - 1]
  <2>1. \A n \in k .. e : text[n] \in S
    BY <1>3, ElementOfSeq
  <2> QED
    BY <2>1, SubSeqProperties
<1> HIDE DEF rest
<1>7. Len(s) <= e - k + 1 /\ SubSeq(rest, 1, Len(s)) = s
  <2>1. SubSeq(s, 1, Len(s)) = s
    BY SubSeqFull
  <2> QED
    BY <1>4, <1>5, <1>6, <2>1 DEF IsPrefix
<1> DEFINE last == k + Len(s) - 1
<1>8. last \in 1 .. e /\ last <= Len(buf)
  BY <1>2, <1>7
<1>9. \A n \in 1 .. Len(s) : s[n] = buf[k + n - 1]
  <2>1. \A n \in 1 .. Len(s) : rest[n] \in S
    BY <1>6, <1>7, ElementOfSeq
  <2>2. \A n \in 1 .. Len(s) : SubSeq(rest, 1, Len(s))[n] = rest[n]
    BY <1>2, <2>1, SubSeqProperties
  <2>3. \A n \in 1 .. Len(s) : k + n - 1 \in 1 .. e /\ n \in 1 .. e - k + 1
    BY <1>2, <1>7
  <2> QED
    BY <1>3, <1>6, <1>7, <2>2, <2>3
<1>10. SubSeq(buf, k, last) = s
  <2> DEFINE piece == SubSeq(buf, k, last)
  <2>1. \A n \in k .. last : buf[n] \in S
    BY <1>2, <1>8
  <2>2. /\ piece \in Seq(S) /\ Len(piece) = last - k + 1
        /\ \A n \in 1 .. last - k + 1 : piece[n] = buf[k + n - 1]
    BY <1>2, <1>8, <2>1, SubSeqProperties
  <2>3. last - k + 1 = Len(s)
    BY <1>2
  <2> HIDE DEF piece, last
  <2>4. piece = s
    BY <1>9, <2>2, <2>3, SeqEqual
  <2> QED
    BY <2>4 DEF piece
<1>11. \A n \in 1 .. last : buf[n] # NUL
  BY <1>1, <1>8
<1>12. k \in DOMAIN buf
  BY <1>2
<1> QED
  BY <1>8, <1>10, <1>11, <1>12, Zenon

(* The tags as sequences of tokens.                                        *)
LEMMA TagsAre ==
  ASSUME NEW S, {"CHECK", "F", "SIZE", "READ", COMMA} \subseteq S
  PROVE  /\ <<COMMA>> \in Seq(S) /\ <<COMMA>> # <<>>
         /\ Len(cmdTag) = 4 /\ DOMAIN cmdTag = 1 .. 4
         /\ \A k \in 1 .. 4 : cmdTag[k] \in Seq(S) /\ cmdTag[k] # <<>>
         /\ cmdTag[1] = <<"CHECK">> /\ cmdTag[2] = <<"F", "CHECK">>
         /\ cmdTag[3] = <<"F", "SIZE">> /\ cmdTag[4] = <<"F", "READ">>
<1>1. /\ <<COMMA>> \in Seq(S) /\ <<"CHECK">> \in Seq(S) /\ <<"F", "CHECK">> \in Seq(S)
      /\ <<"F", "SIZE">> \in Seq(S) /\ <<"F", "READ">> \in Seq(S)
  OBVIOUS
<1>2. /\ cmdTag[1] = <<"CHECK">> /\ cmdTag[2] = <<"F", "CHECK">>
      /\ cmdTag[3] = <<"F", "SIZE">> /\ cmdTag[4] = <<"F", "READ">>
      /\ Len(cmdTag) = 4 /\ DOMAIN cmdTag = 1 .. 4
  BY DEF cmdTag
<1>3. /\ <<COMMA>> # <<>> /\ <<"CHECK">> # <<>> /\ <<"F", "CHECK">> # <<>>
      /\ <<"F", "SIZE">> # <<>> /\ <<"F", "READ">> # <<>>
  OBVIOUS
<1>4. ASSUME NEW k \in 1 .. 4 PROVE cmdTag[k] \in Seq(S) /\ cmdTag[k] # <<>>
  <2>1. k = 1 \/ k = 2 \/ k = 3 \/ k = 4
    OBVIOUS
  <2> QED
    BY <1>1, <1>2, <1>3, <2>1
<1> QED
  BY <1>1, <1>2, <1>3, <1>4

(* A tag was found when the index is not the number of tags.               *)
LEMMA TagFound ==
  ASSUME NEW buf, getTagIndex(buf) < Len(cmdTag)
  PROVE  \E k \in DOMAIN cmdTag : Strstr(buf, cmdTag[k])
<1>1. Len(cmdTag) = 4
  BY DEF cmdTag
<1>2. CASE {k \in DOMAIN cmdTag : Strstr(buf, cmdTag[k])} = {}
  BY <1>1, <1>2 DEF getTagIndex
<1> QED
  BY <1>2

(* What proc takes for an answer looks like one.                           *)
LEMMA AnswersLookLikeIt ==
  ASSUME NEW S, {"CHECK", "F", "SIZE", "READ", COMMA} \subseteq S,
         NEW buf \in Seq(S), IsAnswer(buf)
  PROVE  LooksLikeAnswer(buf)
<1>1. PICK t \in DOMAIN cmdTag : Strstr(buf, cmdTag[t])
  BY TagFound DEF IsAnswer
<1> DEFINE tag == cmdTag[t]
<1>2. tag \in Seq(S) /\ tag # <<>> /\ tag \in Range(cmdTag)
  BY TagsAre DEF Range
<1> HIDE DEF tag
<1>3. Strstr(buf, tag)
  BY <1>1 DEF tag
<1>4. PICK k \in DOMAIN buf :
        /\ k + Len(tag) - 1 <= Len(buf)
        /\ SubSeq(buf, k, k + Len(tag) - 1) = tag
        /\ \A n \in 1 .. k + Len(tag) - 1 : buf[n] # NUL
  BY <1>2, <1>3, StrstrFinds
<1>5. PICK j \in DOMAIN buf :
        /\ j + Len(<<COMMA>>) - 1 <= Len(buf)
        /\ SubSeq(buf, j, j + Len(<<COMMA>>) - 1) = <<COMMA>>
        /\ \A n \in 1 .. j + Len(<<COMMA>>) - 1 : buf[n] # NUL
  <2>1. <<COMMA>> \in Seq(S) /\ <<COMMA>> # <<>> /\ Strstr(buf, <<COMMA>>)
    BY TagsAre DEF IsAnswer
  <2> QED
    BY <2>1, StrstrFinds
<1>6. j \in Nat /\ j + Len(<<COMMA>>) - 1 = j /\ buf[j] \in S
  BY LenProperties
<1>7. SubSeq(buf, j, j) = <<COMMA>> /\ \A n \in 1 .. j : buf[n] # NUL
  BY <1>5, <1>6
<1>8. buf[j] = COMMA
  <2> DEFINE found == SubSeq(buf, j, j)
  <2>1. j \in Nat \ {0} /\ j <= j + 1 /\ j <= Len(buf)
    BY LenProperties
  <2>2. /\ found \in Seq(S) /\ Len(found) = j + 1 - j
        /\ \A n \in 1 .. j + 1 - j : found[n] = buf[j + n - 1]
    BY <2>1, Stretch
  <2>3. found = <<COMMA>>
    BY <1>7
  <2> HIDE DEF found
  <2>4. found[1] = buf[j] /\ found[1] = COMMA
    <3>1. 1 \in 1 .. j + 1 - j /\ j + 1 - 1 = j
      BY <2>1
    <3>2. found[1] = buf[j + 1 - 1]
      BY <2>2, <3>1
    <3> QED
      BY <2>3, <3>1, <3>2
  <2> QED
    BY <2>4
<1>9. \A n \in (1 .. j) \cup (1 .. k + Len(tag) - 1) : buf[n] # NUL
  BY <1>4, <1>7
<1> QED
  BY <1>2, <1>4, <1>8, <1>9, Zenon DEF LooksLikeAnswer

Header(number) == <<"F", "READ", COMMA>> \o number

(* The answer to an FREAD, token by token.                                 *)
LEMMA HeaderIs ==
  ASSUME NEW number \in Numerals
  PROVE  LET h == Header(number)
         IN  /\ h \in Seq(AllTokens) /\ Len(h) \in Nat /\ Len(h) >= 3
             /\ h[1] = "F" /\ h[2] = "READ" /\ h[3] = COMMA
             /\ \A k \in 1 .. Len(h) : h[k] \notin {NUL, "CHECK", "SIZE"}
<1> DEFINE front == <<"F", "READ", COMMA>>
           h     == Header(number)
<1>1. /\ front \in Seq(AllTokens) /\ Len(front) = 3
      /\ front[1] = "F" /\ front[2] = "READ" /\ front[3] = COMMA
  BY DEF AllTokens
<1>2. number \in Seq(Range(Digits)) /\ number \in Seq(AllTokens) /\ Len(number) \in Nat
  <2>1. number \in Seq(Range(Digits))
    BY AnswerAssumption
  <2>2. number \in Seq(AllTokens)
    BY <2>1, SeqMonotonic DEF AllTokens
  <2> QED
    BY <2>1, <2>2, LenProperties
<1> HIDE DEF front
<1>3. /\ h \in Seq(AllTokens) /\ Len(h) = 3 + Len(number)
      /\ \A k \in 1 .. 3 + Len(number) :
           h[k] = IF k <= 3 THEN front[k] ELSE number[k - 3]
  BY <1>1, <1>2, ConcatProperties DEF Header, front
<1>4. \A d \in Range(Digits) : d \notin {NUL, "CHECK", "SIZE"}
  <2>1. \A k \in DOMAIN Digits : Digits[k] \notin {NUL, "CHECK", "SIZE"}
    <3> TAKE k \in DOMAIN Digits
    <3>1. k \in 1 .. 10
      BY DEF Digits
    <3>2. \/ k = 1 \/ k = 2 \/ k = 3 \/ k = 4 \/ k = 5
          \/ k = 6 \/ k = 7 \/ k = 8 \/ k = 9 \/ k = 10
      BY <3>1
    <3> QED
      BY <3>2 DEF Digits, NUL
  <2> QED
    BY <2>1 DEF Range
<1>5. \A k \in 1 .. Len(number) : number[k] \in Range(Digits)
  BY <1>2, ElementOfSeq
<1>6. ASSUME NEW k \in 1 .. Len(h) PROVE h[k] \notin {NUL, "CHECK", "SIZE"}
  <2>1. CASE k <= 3
    <3>1. h[k] = front[k] /\ (k = 1 \/ k = 2 \/ k = 3)
      BY <1>2, <1>3, <2>1
    <3> QED
      BY <1>1, <3>1 DEF NUL, COMMA
  <2>2. CASE k > 3
    <3>1. k - 3 \in 1 .. Len(number) /\ h[k] = number[k - 3]
      BY <1>2, <1>3, <2>2
    <3> QED
      BY <1>4, <1>5, <3>1
  <2> QED
    BY <1>2, <1>3, <2>1, <2>2
<1>7. h[1] = "F" /\ h[2] = "READ" /\ h[3] = COMMA
  <2>1. 1 \in 1 .. 3 + Len(number) /\ 2 \in 1 .. 3 + Len(number) /\ 3 \in 1 .. 3 + Len(number)
    BY <1>2
  <2> QED
    BY <1>1, <1>3, <2>1
<1>8. Len(h) \in Nat /\ Len(h) >= 3
  BY <1>2, <1>3
<1> HIDE DEF h
<1>9. /\ h \in Seq(AllTokens) /\ Len(h) \in Nat /\ Len(h) >= 3
      /\ h[1] = "F" /\ h[2] = "READ" /\ h[3] = COMMA
      /\ \A k \in 1 .. Len(h) : h[k] \notin {NUL, "CHECK", "SIZE"}
  BY <1>3, <1>6, <1>7, <1>8
<1> QED
  BY <1>9 DEF h

(* It is taken for what it is.                                             *)
LEMMA HeaderIsAnswer ==
  ASSUME NEW number \in Numerals
  PROVE  getTagIndex(Header(number)) = 3 /\ IsAnswer(Header(number))
<1> DEFINE h == Header(number)
<1>1. /\ h \in Seq(AllTokens) /\ Len(h) \in Nat /\ Len(h) >= 3
      /\ h[1] = "F" /\ h[2] = "READ" /\ h[3] = COMMA
      /\ \A k \in 1 .. Len(h) : h[k] \notin {NUL, "CHECK", "SIZE"}
  BY HeaderIs
<1> HIDE DEF h
<1> DEFINE S == AllTokens \cup {"CHECK", "SIZE"}
<1>2. h \in Seq(S) /\ {"CHECK", "F", "SIZE", "READ", COMMA} \subseteq S
  BY <1>1, SeqMonotonic DEF AllTokens
<1> HIDE DEF S
<1>3. CString(h) = h
  <2>1. PICK e \in 0 .. Len(h) : /\ CString(h) = SubSeq(h, 1, e)
                                 /\ e = Len(h) \/ h[e + 1] = NUL
    BY <1>1, CStringIs
  <2>2. e = Len(h)
    BY <1>1, <2>1
  <2> QED
    BY <1>1, <2>1, <2>2, SubSeqFull
<1>4. ASSUME NEW s \in Seq(S), Strstr(h, s), s # <<>>, NEW n \in 1 .. Len(s)
      PROVE  s[n] \notin {"CHECK", "SIZE"}
  <2>1. PICK k \in DOMAIN h : /\ k + Len(s) - 1 <= Len(h)
                              /\ SubSeq(h, k, k + Len(s) - 1) = s
    BY <1>2, <1>4, StrstrFinds
  <2>2. Len(s) \in Nat /\ k \in 1 .. Len(h) /\ \A m \in 1 .. Len(h) : h[m] \in S
    BY <1>2, LenProperties, ElementOfSeq
  <2> DEFINE last  == k + Len(s) - 1
             piece == SubSeq(h, k, last)
  <2>3. /\ k \in Nat \ {0} /\ last \in Nat /\ last <= Len(h) /\ k <= last + 1
        /\ last + 1 - k = Len(s)
    BY <2>1, <2>2
  <2>4. piece = s
    BY <2>1
  <2> HIDE DEF last
  <2>5. /\ piece \in Seq(S) /\ Len(piece) = last + 1 - k
        /\ \A m \in 1 .. last + 1 - k : piece[m] = h[k + m - 1]
    BY <1>2, <2>3, Stretch
  <2> HIDE DEF piece
  <2>6. s[n] = h[k + n - 1]
    BY <2>3, <2>4, <2>5
  <2>7. k + n - 1 \in 1 .. Len(h)
    BY <2>3
  <2> QED
    BY <1>1, <2>6, <2>7
<1>5. ~Strstr(h, cmdTag[1]) /\ ~Strstr(h, cmdTag[2]) /\ ~Strstr(h, cmdTag[3])
  <2>1. /\ \A k \in 1 .. 4 : cmdTag[k] \in Seq(S) /\ cmdTag[k] # <<>>
        /\ cmdTag[1] = <<"CHECK">> /\ cmdTag[2] = <<"F", "CHECK">>
        /\ cmdTag[3] = <<"F", "SIZE">>
    BY <1>2, TagsAre
  <2>2. ~Strstr(h, cmdTag[1])
    <3>1. 1 \in 1 .. Len(cmdTag[1]) /\ cmdTag[1][1] = "CHECK"
      BY <2>1
    <3> QED
      BY <1>4, <2>1, <3>1
  <2>3. ~Strstr(h, cmdTag[2])
    <3>1. 2 \in 1 .. Len(cmdTag[2]) /\ cmdTag[2][2] = "CHECK"
      BY <2>1
    <3> QED
      BY <1>4, <2>1, <3>1
  <2>4. ~Strstr(h, cmdTag[3])
    <3>1. 2 \in 1 .. Len(cmdTag[3]) /\ cmdTag[3][2] = "SIZE"
      BY <2>1
    <3> QED
      BY <1>4, <2>1, <3>1
  <2> QED
    BY <2>2, <2>3, <2>4
<1>6. DOMAIN h = 1 .. Len(h) /\ \A m \in 1 .. Len(h) : h[m] \in S
  BY <1>2, LenProperties, ElementOfSeq
<1>7. Strstr(h, cmdTag[4])
  <2> DEFINE start == SubSeq(h, 1, 2)
             tag   == cmdTag[4]
  <2>1. start \in Seq(S) /\ Len(start) = 2 /\ \A n \in 1 .. 2 : start[n] = h[n]
    <3>2. /\ start \in Seq(S) /\ Len(start) = 2 + 1 - 1
          /\ \A n \in 1 .. 2 + 1 - 1 : start[n] = h[1 + n - 1]
      BY <1>1, <1>2, Stretch
    <3> HIDE DEF start
    <3> QED
      BY <3>2
  <2>2. tag \in Seq(S) /\ Len(tag) = 2 /\ tag[1] = "F" /\ tag[2] = "READ"
    <3>1. tag \in Seq(S) /\ tag = <<"F", "READ">>
      BY <1>2, TagsAre
    <3> HIDE DEF tag
    <3> QED
      BY <3>1
  <2> HIDE DEF start, tag
  <2>3. \A n \in 1 .. 2 : tag[n] = start[n]
    <3>1. start[1] = "F" /\ start[2] = "READ"
      BY <1>1, <2>1
    <3> QED
      BY <2>2, <3>1
  <2>4. start = tag
    BY <2>1, <2>2, <2>3, SeqEqual
  <2>5. DropTo(h, 1 - 1) = h
    <3>1. (1 - 1) + 1 = 1
      OBVIOUS
    <3> QED
      BY <1>1, <3>1, SubSeqFull DEF DropTo
  <2>6. SubSeq(tag, 1, Len(tag)) = tag
    BY <2>2, SubSeqFull
  <2>7. IsPrefix(tag, DropTo(h, 1 - 1))
    BY <1>1, <2>2, <2>4, <2>5, <2>6 DEF IsPrefix, start
  <2>8. 1 \in DOMAIN h
    BY <1>1, <1>6
  <2> QED
    BY <1>3, <2>7, <2>8 DEF Strstr, tag
<1>8. Strstr(h, <<COMMA>>)
  <2> DEFINE rest == SubSeq(h, 3, Len(h))
             start == SubSeq(rest, 1, 1)
             comma == <<COMMA>>
  <2>1. rest \in Seq(S) /\ Len(rest) = Len(h) - 2 /\ rest[1] = COMMA
    <3>2. /\ rest \in Seq(S) /\ Len(rest) = Len(h) + 1 - 3
          /\ \A n \in 1 .. Len(h) + 1 - 3 : rest[n] = h[3 + n - 1]
      BY <1>1, <1>2, Stretch
    <3> HIDE DEF rest
    <3>3. 1 \in 1 .. Len(h) + 1 - 3 /\ 3 + 1 - 1 = 3
      BY <1>1
    <3> QED
      BY <1>1, <3>2, <3>3
  <2>2. DropTo(h, 3 - 1) = rest
    <3>1. (3 - 1) + 1 = 3
      OBVIOUS
    <3> QED
      BY <3>1 DEF DropTo
  <2> HIDE DEF rest
  <2>3. start \in Seq(S) /\ Len(start) = 1 /\ start[1] = COMMA
    <3>1. 1 <= Len(rest)
      BY <1>1, <2>1
    <3>2. /\ start \in Seq(S) /\ Len(start) = 1 + 1 - 1
          /\ \A n \in 1 .. 1 + 1 - 1 : start[n] = rest[1 + n - 1]
      BY <2>1, <3>1, Stretch
    <3> HIDE DEF start
    <3> QED
      BY <2>1, <3>2
  <2>4. comma \in Seq(S) /\ Len(comma) = 1 /\ comma[1] = COMMA
    BY <1>2, TagsAre
  <2> HIDE DEF start, comma
  <2>5. start = comma
    BY <2>3, <2>4, SeqEqual
  <2>6. SubSeq(comma, 1, Len(comma)) = comma
    BY <2>4, SubSeqFull
  <2>7. IsPrefix(comma, DropTo(h, 3 - 1))
    BY <1>1, <2>1, <2>2, <2>4, <2>5, <2>6 DEF IsPrefix, start
  <2>8. 3 \in DOMAIN h
    BY <1>1, <1>6
  <2> QED
    BY <1>3, <2>7, <2>8 DEF Strstr, comma
<1>9. getTagIndex(h) = 3
  <2> DEFINE found == {k \in DOMAIN cmdTag : Strstr(h, cmdTag[k])}
  <2>1. DOMAIN cmdTag = 1 .. 4
    BY <1>2, TagsAre
  <2>2. found = {4}
    BY <1>5, <1>7, <2>1
  <2>3. getTagIndex(h) = IF found = {} THEN Len(cmdTag)
                         ELSE (CHOOSE k \in found : \A j \in found : k <= j) - 1
    BY DEF getTagIndex
  <2> HIDE DEF found
  <2>4. (CHOOSE k \in found : \A j \in found : k <= j) = 4
    BY <2>2
  <2> QED
    BY <2>2, <2>3, <2>4
<1>10. IsAnswer(h)
  BY <1>2, <1>8, <1>9, TagsAre DEF IsAnswer
<1> QED
  BY <1>9, <1>10 DEF h

-----------------------------------------------------------------------------
(* proc, step by step.                                                     *)

Members == {"flag", "file_size", "total_recv", "file"}

(* proc changes members, it does not add any.                              *)
LEMMA ProcMembers ==
  ASSUME NEW r, DOMAIN r = Members, NEW buf
  PROVE  DOMAIN proc(r, buf) = Members
<1>1. DOMAIN TakeAnswer(r, buf) = Members
  BY DEF TakeAnswer, Members
<1>2. DOMAIN TakeContent(r, buf) = Members
  BY DEF TakeContent
<1> QED
  BY <1>1, <1>2 DEF proc

(* Nothing but the answer to an FREAD starts a log.                        *)
LEMMA OldAnswerIdle ==
  ASSUME NEW r, DOMAIN r = Members, r.flag = 0, NEW buf, getTagIndex(buf) # 3
  PROVE  proc(r, buf).flag = 0 /\ proc(r, buf).file = r.file
<1>1. TakeContent(r, buf) = r
  BY DEF TakeContent
<1>2. TakeAnswer(r, buf) = r \/ \E v : TakeAnswer(r, buf) = [r EXCEPT !.file_size = v]
  BY DEF TakeAnswer
<1>3. TakeAnswer(r, buf).flag = 0 /\ TakeAnswer(r, buf).file = r.file
  BY <1>2 DEF Members
<1> QED
  BY <1>1, <1>3 DEF proc

(* The answer to an FREAD says that there is no log, or starts it.         *)
LEMMA HeaderStarts ==
  ASSUME NEW r, DOMAIN r = Members, NEW number \in Numerals
  PROVE  LET s == proc(r, Header(number))
             v == AfterComma(Header(number))
         IN  IF v = 0 THEN s.flag = 1 /\ s.file = r.file
             ELSE s = [flag |-> 2, file_size |-> v, total_recv |-> 0, file |-> <<>>]
<1> DEFINE h == Header(number)
<1>1. getTagIndex(h) = 3 /\ IsAnswer(h)
  BY HeaderIsAnswer
<1> HIDE DEF h
<1>2. proc(r, h) = TakeAnswer(r, h)
  BY <1>1 DEF proc
<1>3. CASE AfterComma(h) = 0
  <2>1. proc(r, h) = [r EXCEPT !.total_recv = 0, !.file_size = 0, !.flag = 1]
    BY <1>1, <1>2, <1>3 DEF TakeAnswer
  <2>2. proc(r, h).flag = 1 /\ proc(r, h).file = r.file
    BY <2>1 DEF Members
  <2> QED
    BY <1>3, <2>2 DEF h
<1>4. CASE AfterComma(h) # 0
  <2>1. proc(r, h)
          = [flag |-> 2, file_size |-> AfterComma(h), total_recv |-> 0, file |-> <<>>]
    BY <1>1, <1>2, <1>4 DEF TakeAnswer
  <2> QED
    BY <1>4, <2>1 DEF h
<1> QED
  BY <1>3, <1>4

(* While a log is received, what is no answer is written and counted.      *)
LEMMA ContentCounts ==
  ASSUME NEW r, DOMAIN r = Members, r.flag = 2, r.file_size # 0,
         NEW buf, ~IsAnswer(buf)
  PROVE  LET s == proc(r, buf)
         IN  /\ s.file = r.file \o buf /\ s.file_size = r.file_size
             /\ s.total_recv = r.total_recv + Len(buf)
             /\ s.flag = IF r.total_recv + Len(buf) >= r.file_size THEN 3 ELSE 2
BY DEF proc, TakeContent, Members

-----------------------------------------------------------------------------
(* The reads.                                                              *)

(* The constructor.                                                        *)
LEMMA ReadInvInit == ReadInit => ReadInv
<1> SUFFICES ASSUME ReadInit PROVE ReadInv
  OBVIOUS
<1>1. content = <<>> /\ header = <<>> /\ pos = 0 /\ recv = NoLog
  BY DEF ReadInit
<1>2. content \in Seq(Tokens) /\ header \in Seq(Tokens)
  BY <1>1, EmptySeq
<1>3. Len(Sent) \in Nat
  BY <1>2, ConcatProperties, LenProperties DEF Sent
<1>4. DOMAIN recv = Members /\ recv.flag = 0 /\ recv.file = <<>>
  BY <1>1 DEF NoLog, Members
<1>5. ReadTypeOK
  <2>1. spoilt \in BOOLEAN
    BY Zenon DEF ReadInit
  <2>2. pos \in 0 .. Len(Sent)
    BY <1>1, <1>3
  <2> QED
    BY <1>2, <1>4, <2>1, <2>2 DEF ReadTypeOK, Members
<1>6. HeaderFits
  BY <1>1 DEF HeaderFits
<1>7. ReadFits
  BY <1>1, <1>4 DEF ReadFits
<1> QED
  BY <1>5, <1>6, <1>7 DEF ReadInv

(* The sequences that the watch sends.                                     *)
LEMMA SentIs ==
  ASSUME ReadTypeOK, HeaderFits
  PROVE  /\ header \in Seq(AllTokens) /\ content \in Seq(AllTokens)
         /\ Len(header) \in Nat /\ Len(content) \in Nat
         /\ Sent \in Seq(AllTokens) /\ Len(Sent) = Len(header) + Len(content)
         /\ header = <<>> <=> Len(header) = 0
         /\ content = <<>> <=> Len(content) = 0
<1>1. header \in Seq(AllTokens)
  <2>1. CASE header = <<>>
    BY <2>1, EmptySeq
  <2>2. CASE header # <<>>
    BY <2>2, HeaderIs DEF HeaderFits, Header
  <2> QED
    BY <2>1, <2>2
<1>2. content \in Seq(AllTokens)
  BY SeqMonotonic DEF ReadTypeOK, AllTokens
<1>3. Sent \in Seq(AllTokens) /\ Len(Sent) = Len(header) + Len(content)
  BY <1>1, <1>2, ConcatProperties DEF Sent
<1> QED
  BY <1>1, <1>2, <1>3, LenProperties, EmptySeq

(* Earlier answers leave the receiver without a log.                       *)
LEMMA ReadOldKeeps == ReadInv /\ ReadOld => ReadInv'
<1> SUFFICES ASSUME ReadInv, ReadOld PROVE ReadInv'
  OBVIOUS
<1>1. PICK buf \in OldAnswers : recv' = proc(recv, buf)
  BY DEF ReadOld
<1>2. header = <<>> /\ UNCHANGED <<header, content, pos, spoilt>>
  BY DEF ReadOld
<1>3. DOMAIN recv = Members /\ DOMAIN recv' = Members
  BY <1>1, ProcMembers DEF ReadInv, ReadTypeOK, Members
<1>4. ReadTypeOK' /\ HeaderFits'
  BY <1>2, <1>3 DEF ReadInv, ReadTypeOK, HeaderFits, Sent, Members
<1>5. ~spoilt => pos = 0 /\ recv.flag = 0 /\ recv.file = <<>>
  BY <1>2 DEF ReadInv, HeaderFits, ReadFits
<1>6. getTagIndex(buf) # 3
  BY AnswerAssumption
<1>7. ~spoilt => recv'.flag = 0 /\ recv'.file = <<>>
  BY <1>1, <1>3, <1>5, <1>6, OldAnswerIdle
<1>8. ReadFits'
  BY <1>2, <1>5, <1>7 DEF ReadFits
<1> QED
  BY <1>4, <1>8 DEF ReadInv

(* An answer on its way changes nothing yet.                               *)
LEMMA AnswerKeeps == ReadInv /\ Answer => ReadInv'
<1> SUFFICES ASSUME ReadInv, Answer PROVE ReadInv'
  OBVIOUS
<1>1. PICK number \in Numerals : header' = Header(number)
  BY DEF Answer, Header
<1>2. PICK n \in 0 .. MaxContent : content' \in [1 .. n -> Tokens]
  BY DEF Answer
<1>3. header = <<>> /\ AfterComma(header') = Len(content') /\ UNCHANGED <<pos, recv, spoilt>>
  BY DEF Answer
<1>4. content' \in Seq(Tokens)
  BY <1>2, AnswerAssumption, SeqDef
<1>5. pos = 0 /\ (~spoilt => recv.flag = 0 /\ recv.file = <<>>)
  BY <1>3 DEF ReadInv, HeaderFits, ReadFits
<1>6. header' # <<>>
  <2>1. Len(header') \in Nat /\ Len(header') >= 3
    BY <1>1, HeaderIs
  <2> QED
    BY <2>1, EmptySeq
<1>7. HeaderFits'
  BY <1>1, <1>3, <1>6 DEF HeaderFits, Header
<1>8. Len(Sent') \in Nat
  <2>1. header' \in Seq(AllTokens) /\ content' \in Seq(AllTokens)
    BY <1>1, <1>4, HeaderIs, SeqMonotonic DEF AllTokens
  <2> QED
    BY <2>1, ConcatProperties, LenProperties DEF Sent
<1>9. ReadTypeOK'
  BY <1>3, <1>4, <1>5, <1>8 DEF ReadInv, ReadTypeOK
<1>10. ReadFits'
  BY <1>3, <1>5 DEF ReadFits
<1> QED
  BY <1>7, <1>9, <1>10 DEF ReadInv

(* A read of the header by itself.                                         *)
LEMMA HeaderRead ==
  ASSUME ReadInv, ~spoilt, pos = 0, header # <<>>,
         recv' = proc(recv, header), pos' = Len(header),
         UNCHANGED <<header, content>>
  PROVE  ReadFits'
<1>1. PICK number \in Numerals : header = Header(number)
  BY DEF ReadInv, HeaderFits, Header
<1>2. AfterComma(header) = Len(content) /\ Len(content) \in Nat /\ Len(header) \in Nat
      /\ (content = <<>> <=> Len(content) = 0) /\ content \in Seq(AllTokens)
      /\ (header = <<>> <=> Len(header) = 0)
  BY SentIs DEF ReadInv, HeaderFits
<1>3. DOMAIN recv = Members /\ recv.file = <<>>
  <2>1. DOMAIN recv = Members
    BY DEF ReadInv, ReadTypeOK, Members
  <2>2. recv.file = <<>>
    <3>1. ~(pos >= Len(header))
      BY <1>2
    <3> QED
      BY <3>1 DEF ReadInv, ReadFits
  <2> QED
    BY <2>1, <2>2
<1>4. IF Len(content) = 0 THEN recv'.flag = 1 /\ recv'.file = <<>>
      ELSE recv' = [flag |-> 2, file_size |-> Len(content), total_recv |-> 0,
                    file |-> <<>>]
  <2>1. LET s == proc(recv, Header(number))
            v == AfterComma(Header(number))
        IN  IF v = 0 THEN s.flag = 1 /\ s.file = recv.file
            ELSE s = [flag |-> 2, file_size |-> v, total_recv |-> 0, file |-> <<>>]
    BY <1>3, HeaderStarts
  <2> QED
    BY <1>1, <1>2, <1>3, <2>1
<1>5. Stored' = 0
  BY <1>2 DEF Stored
<1>6. SubSeq(content, 1, 0) = <<>>
  BY SubSeqEmpty
<1>7. header' # <<>> /\ pos' >= Len(header') /\ content' = content
  BY <1>2
<1>8. CASE content = <<>>
  BY <1>2, <1>4, <1>7, <1>8 DEF ReadFits
<1>9. CASE content # <<>>
  <2>1. /\ recv'.file_size = Len(content) /\ recv'.total_recv = 0
        /\ recv'.file = <<>> /\ recv'.flag = 2 /\ Len(content) # 0
    BY <1>2, <1>4, <1>9
  <2> QED
    BY <1>5, <1>6, <1>7, <1>9, <2>1 DEF ReadFits
<1> QED
  BY <1>8, <1>9

(* A read behind the header that looks like content.                       *)
LEMMA ContentRead ==
  ASSUME ReadInv, ~spoilt, header # <<>>, pos # 0,
         NEW n \in 1 .. Len(Sent) - pos,
         ~LooksLikeAnswer(SubSeq(Sent, pos + 1, pos + n)),
         recv' = proc(recv, SubSeq(Sent, pos + 1, pos + n)), pos' = pos + n,
         UNCHANGED <<header, content>>
  PROVE  ReadFits'
<1> DEFINE chunk == SubSeq(Sent, pos + 1, pos + n)
           p     == pos - Len(header)
<1>1. /\ header \in Seq(AllTokens) /\ content \in Seq(AllTokens)
      /\ Len(header) \in Nat /\ Len(content) \in Nat
      /\ Sent \in Seq(AllTokens) /\ Len(Sent) = Len(header) + Len(content)
      /\ content = <<>> <=> Len(content) = 0
  BY SentIs DEF ReadInv
<1>2. pos \in Nat /\ pos >= Len(header) /\ pos + n <= Len(Sent) /\ n \in Nat
  BY <1>1 DEF ReadInv, ReadTypeOK, ReadFits
<1>3. p \in Nat /\ p + n <= Len(content) /\ Len(content) # 0 /\ n >= 1 /\ p = Stored
  BY <1>1, <1>2 DEF Stored
<1>4. /\ DOMAIN recv = Members /\ recv.file_size = Len(content)
      /\ recv.total_recv = p /\ recv.file = SubSeq(content, 1, p) /\ recv.flag = 2
  <2>1. DOMAIN recv = Members
    BY DEF ReadInv, ReadTypeOK, Members
  <2>2. content # <<>>
    BY <1>1, <1>3
  <2>3. /\ recv.file_size = Len(content) /\ recv.total_recv = Stored
        /\ recv.file = SubSeq(content, 1, Stored)
        /\ recv.flag = IF Stored = Len(content) THEN 3 ELSE 2
    BY <2>2 DEF ReadInv, ReadFits
  <2> HIDE DEF p
  <2> QED
    BY <1>3, <2>1, <2>3
<1>5. chunk = SubSeq(content, p + 1, p + n)
  <2>1. /\ pos + 1 \in Len(header) + 1 .. Len(header) + Len(content)
        /\ pos + n \in Len(header) + 1 .. Len(header) + Len(content)
    BY <1>1, <1>2
  <2>2. (pos + 1) - Len(header) = p + 1 /\ (pos + n) - Len(header) = p + n
    BY <1>1, <1>2
  <2>3. SubSeq(Sent, pos + 1, pos + n)
          = SubSeq(content, (pos + 1) - Len(header), (pos + n) - Len(header))
    <3> DEFINE first == pos + 1
               last  == pos + n
    <3> HIDE DEF first, last
    <3>1. /\ first \in Len(header) + 1 .. Len(header) + Len(content)
          /\ last \in Len(header) + 1 .. Len(header) + Len(content)
      BY <2>1 DEF first, last
    <3>2. SubSeq(header \o content, first, last)
            = SubSeq(content, first - Len(header), last - Len(header))
      BY <1>1, <3>1, SubSeqOfConcat2
    <3> QED
      BY <3>2 DEF Sent, first, last
  <2> QED
    BY <2>2, <2>3
<1> HIDE DEF p, chunk
<1>6. chunk \in Seq(AllTokens) /\ Len(chunk) = n
  <2>1. p + 1 \in Nat \ {0} /\ p + n \in Nat /\ p + 1 <= (p + n) + 1 /\ p + n <= Len(content)
    BY <1>2, <1>3
  <2>2. /\ SubSeq(content, p + 1, p + n) \in Seq(AllTokens)
        /\ Len(SubSeq(content, p + 1, p + n)) = (p + n) + 1 - (p + 1)
    BY <1>1, <2>1, Stretch
  <2>3. (p + n) + 1 - (p + 1) = n
    BY <1>2, <1>3
  <2> QED
    BY <1>5, <2>2, <2>3
<1>7. ~IsAnswer(chunk)
  <2>1. ~LooksLikeAnswer(chunk)
    BY DEF chunk
  <2> DEFINE S == AllTokens \cup {"CHECK", "SIZE"}
  <2>2. {"CHECK", "F", "SIZE", "READ", COMMA} \subseteq S /\ chunk \in Seq(S)
    BY <1>6, SeqMonotonic DEF AllTokens
  <2> HIDE DEF S
  <2> QED
    BY <2>1, <2>2, AnswersLookLikeIt
<1>8. recv' = proc(recv, chunk)
  BY DEF chunk
<1>9. /\ recv'.file = recv.file \o chunk /\ recv'.file_size = recv.file_size
      /\ recv'.total_recv = recv.total_recv + Len(chunk)
      /\ recv'.flag = IF recv.total_recv + Len(chunk) >= recv.file_size THEN 3 ELSE 2
  <2>1. recv.file_size # 0
    BY <1>3, <1>4
  <2>2. LET s == proc(recv, chunk)
        IN  /\ s.file = recv.file \o chunk /\ s.file_size = recv.file_size
            /\ s.total_recv = recv.total_recv + Len(chunk)
            /\ s.flag = IF recv.total_recv + Len(chunk) >= recv.file_size THEN 3 ELSE 2
    BY <1>4, <1>7, <2>1, ContentCounts
  <2> QED
    BY <1>8, <2>2
<1>10. recv'.file = SubSeq(content, 1, p + n)
  <2>1. /\ 1 \in 1 .. Len(content) + 1 /\ p \in 1 - 1 .. Len(content)
        /\ p + n \in p .. Len(content)
    BY <1>1, <1>2, <1>3
  <2>2. SubSeq(content, 1, p) \o SubSeq(content, p + 1, p + n) = SubSeq(content, 1, p + n)
    BY <1>1, <2>1, ConcatAdjacentSubSeq
  <2> QED
    BY <1>4, <1>5, <1>9, <2>2
<1>11. Stored' = p + n
  BY <1>1, <1>2, <1>3 DEF Stored
<1>12. recv'.flag = IF p + n = Len(content) THEN 3 ELSE 2
  BY <1>1, <1>2, <1>3, <1>4, <1>6, <1>9
<1>13. header' # <<>> /\ pos' >= Len(header') /\ content' = content /\ content # <<>>
  BY <1>1, <1>2, <1>3
<1>14. recv'.file_size = Len(content) /\ recv'.total_recv = p + n
  BY <1>4, <1>6, <1>9
<1> QED
  BY <1>10, <1>11, <1>12, <1>13, <1>14 DEF ReadFits

(* A read, of what the watch sends or of its answer, anywhere.             *)
LEMMA ReadComKeeps == ReadInv /\ ReadCom => ReadInv'
<1> SUFFICES ASSUME ReadInv, ReadCom PROVE ReadInv'
  OBVIOUS
<1>1. PICK n \in 1 .. Len(Sent) - pos :
        /\ recv' = proc(recv, SubSeq(Sent, pos + 1, pos + n))
        /\ pos' = pos + n
        /\ spoilt' = (spoilt \/ IF pos = 0 THEN n # Len(header)
                      ELSE LooksLikeAnswer(SubSeq(Sent, pos + 1, pos + n)))
  BY DEF ReadCom
<1>2. UNCHANGED <<header, content>>
  BY DEF ReadCom
<1>3. /\ header \in Seq(AllTokens) /\ content \in Seq(AllTokens)
      /\ Len(header) \in Nat /\ Len(content) \in Nat
      /\ Sent \in Seq(AllTokens) /\ Len(Sent) = Len(header) + Len(content)
      /\ header = <<>> <=> Len(header) = 0
  BY SentIs DEF ReadInv
<1>4. pos \in Nat /\ pos + n <= Len(Sent) /\ n \in Nat /\ n >= 1
  BY <1>3 DEF ReadInv, ReadTypeOK
<1>5. header # <<>>
  <2> SUFFICES ASSUME header = <<>> PROVE FALSE
    OBVIOUS
  <2>1. Len(header) = 0 /\ content = <<>>
    BY <1>3 DEF ReadInv, HeaderFits
  <2>2. Len(content) = 0
    BY <2>1
  <2> QED
    BY <1>3, <1>4, <2>1, <2>2
<1>6. DOMAIN recv' = Members
  BY <1>1, ProcMembers DEF ReadInv, ReadTypeOK, Members
<1>7. Sent' = Sent
  BY <1>2 DEF Sent
<1>8. ReadTypeOK' /\ HeaderFits'
  <2>1. spoilt' \in BOOLEAN
    BY <1>1
  <2>2. pos' \in 0 .. Len(Sent')
    BY <1>1, <1>3, <1>4, <1>7
  <2>3. content' \in Seq(Tokens)
    BY <1>2 DEF ReadInv, ReadTypeOK
  <2>4. ReadTypeOK'
    BY <1>6, <2>1, <2>2, <2>3 DEF ReadTypeOK, Members
  <2>5. HeaderFits'
    BY <1>2, <1>5 DEF ReadInv, HeaderFits
  <2> QED
    BY <2>4, <2>5
<1>9. ASSUME spoilt' PROVE ReadFits'
  BY <1>9 DEF ReadFits
<1>10. ASSUME ~spoilt', pos = 0 PROVE ReadFits'
  <2>1. ~spoilt /\ n = Len(header)
    BY <1>1, <1>10
  <2>2. SubSeq(Sent, 1, n) = header
    <3>1. 1 \in 1 .. Len(header) /\ Len(header) \in 1 .. Len(header)
      BY <1>3, <1>4, <2>1
    <3>2. SubSeq(Sent, 1, Len(header)) = SubSeq(header, 1, Len(header))
      BY <1>3, <3>1, SubSeqOfConcat1 DEF Sent
    <3>3. SubSeq(header, 1, Len(header)) = header
      BY <1>3, SubSeqFull
    <3> QED
      BY <2>1, <3>2, <3>3
  <2>3. recv' = proc(recv, header) /\ pos' = Len(header)
    <3>1. pos + 1 = 1 /\ pos + n = n
      BY <1>4, <1>10
    <3>2. recv' = proc(recv, SubSeq(Sent, 1, n)) /\ pos' = n
      BY <1>1, <3>1
    <3> QED
      BY <2>1, <2>2, <3>2
  <2> QED
    BY <1>2, <1>5, <1>10, <2>1, <2>3, HeaderRead
<1>11. ASSUME ~spoilt', pos # 0 PROVE ReadFits'
  <2>1. ~spoilt /\ ~LooksLikeAnswer(SubSeq(Sent, pos + 1, pos + n))
    BY <1>1, <1>11
  <2> QED
    BY <1>1, <1>2, <1>5, <1>11, <2>1, ContentRead
<1>12. ReadFits'
  BY <1>9, <1>10, <1>11
<1> QED
  BY <1>8, <1>12 DEF ReadInv

(* The inductive invariant of the reads.                                   *)
LEMMA ReadInvNext == ReadInv /\ [ReadNext]_readVars => ReadInv'
<1> SUFFICES ASSUME ReadInv, [ReadNext]_readVars PROVE ReadInv'
  OBVIOUS
<1>1. CASE UNCHANGED readVars
  BY <1>1 DEF readVars, ReadInv, ReadTypeOK, HeaderFits, ReadFits, Sent, Stored
<1>2. CASE ReadOld
  BY <1>2, ReadOldKeeps
<1>3. CASE Answer
  BY <1>3, AnswerKeeps
<1>4. CASE ReadCom
  BY <1>4, ReadComKeeps
<1> QED
  BY <1>1, <1>2, <1>3, <1>4 DEF ReadNext

(* Whatever the watch said before, and however it is cut into reads, a log *)
(* of any length ends up in its file, in order and without a gap, and flag *)
(* tells when it is all there, unless a read is cut in the header or holds *)
(* what looks like an answer (proc, CosmosReadCommProc.cpp:109-174).       *)
THEOREM LogAlwaysArrives == ReadSpec => []LogArrives
<1>1. ReadInit => ReadInv
  BY ReadInvInit
<1>2. ReadInv /\ [ReadNext]_readVars => ReadInv'
  BY ReadInvNext
<1>3. ReadInv => LogArrives
  <2> SUFFICES ASSUME ReadInv, ~spoilt
               PROVE  IF pos = 0 THEN recv.flag = 0 /\ recv.file = <<>>
                      ELSE IF content = <<>> THEN recv.flag = 1 /\ recv.file = <<>>
                      ELSE /\ recv.file = SubSeq(content, 1, Stored)
                           /\ recv.flag = IF Stored = Len(content) THEN 3 ELSE 2
    BY DEF LogArrives
  <2>1. Len(header) \in Nat /\ (header = <<>> <=> Len(header) = 0)
    BY SentIs DEF ReadInv
  <2>2. pos = 0 => recv.flag = 0 /\ recv.file = <<>>
    BY <2>1 DEF ReadInv, ReadFits
  <2> QED
    BY <2>2 DEF ReadInv, ReadFits
<1> QED
  BY <1>1, <1>2, <1>3, PTL DEF ReadSpec

-----------------------------------------------------------------------------
(* doParseFile, step by step.                                              *)

Values == Tags \cup Data

(* The sizes of records.                                                   *)
LEMMA SizesAre ==
  /\ \A tag : Size(tag) \in Nat /\ Size(tag) <= BufferSize /\ Needed(tag) <= Size(tag)
  /\ GPS \in Tags /\ Size(GPS) = Sizes[GPS] /\ Sizes[GPS] \in Nat \ {0}
  /\ Sizes[HEARTBEAT] \in Nat \ {0} /\ Sizes[HEARTBEAT] <= Sizes[GPS]
  /\ Needed(GPS) = Sizes[HEARTBEAT] /\ Sizes[GPS] <= BufferSize
  /\ HeadSize \in Nat \ {0} /\ HeadSize <= BufferSize /\ BufferSize \in Nat
<1>1. ASSUME NEW tag
      PROVE  Size(tag) \in Nat /\ Size(tag) <= BufferSize /\ Needed(tag) <= Size(tag)
  <2>1. CASE tag \in Tags
    BY <2>1, FormatAssumption DEF Size, Needed
  <2>2. CASE tag \notin Tags
    BY <2>2, FormatAssumption DEF Size, Needed
  <2> QED
    BY <2>1, <2>2
<1> QED
  BY <1>1, FormatAssumption DEF Size, Needed

(* ReadFile into the buffer.                                               *)
LEMMA OverIs ==
  ASSUME NEW buf \in [1 .. BufferSize -> Values], NEW got \in Seq(Values)
  PROVE  /\ Over(buf, got) \in [1 .. BufferSize -> Values]
         /\ \A k \in 1 .. BufferSize : k <= Len(got) => Over(buf, got)[k] = got[k]
<1>1. \A k \in 1 .. BufferSize : k <= Len(got) => got[k] \in Values
  <2> SUFFICES ASSUME NEW k \in 1 .. BufferSize, k <= Len(got) PROVE got[k] \in Values
    OBVIOUS
  <2>1. Len(got) \in Nat
    BY LenProperties
  <2>2. k \in 1 .. Len(got)
    BY <2>1, SizesAre
  <2> QED
    BY <2>2, ElementOfSeq
<1>2. \A k \in 1 .. BufferSize :
        Over(buf, got)[k] = IF k <= Len(got) THEN got[k] ELSE buf[k]
  BY DEF Over
<1>3. \A k \in 1 .. BufferSize : Over(buf, got)[k] \in Values
  BY <1>1, <1>2
<1> QED
  BY <1>2, <1>3 DEF Over

(* The records of a log.                                                   *)
LEMMA LogIs ==
  ASSUME ParseTypeOK, LogFits
  PROVE  /\ Len(log) \in Nat /\ DOMAIN log = 1 .. Len(log)
         /\ \A k \in DOMAIN log :
              /\ log[k] \in LogRecord /\ log[k].at \in Nat /\ log[k].at >= 1
              /\ log[k].record \in Seq(Values)
              /\ Len(log[k].record) = 1 + Size(log[k].record[1])
              /\ DOMAIN log[k].record = 1 .. Len(log[k].record)
              /\ Len(log[k].record) \in Nat /\ Len(log[k].record) >= 1
<1>1. log \in Seq(LogRecord) /\ Len(log) \in Nat /\ DOMAIN log = 1 .. Len(log)
  BY LenProperties DEF ParseTypeOK
<1>2. ASSUME NEW k \in DOMAIN log
      PROVE  /\ log[k] \in LogRecord /\ log[k].at \in Nat
             /\ log[k].record \in Seq(Values)
             /\ Len(log[k].record) = 1 + Size(log[k].record[1])
             /\ DOMAIN log[k].record = 1 .. Len(log[k].record)
             /\ Len(log[k].record) \in Nat /\ Len(log[k].record) >= 1
  <2>1. log[k] \in LogRecord
    BY <1>1, ElementOfSeq
  <2>2. log[k].at \in Nat /\ log[k].record \in Seq(Values)
    BY <2>1 DEF LogRecord, Values
  <2>3. Len(log[k].record) = 1 + Size(log[k].record[1])
    BY DEF LogFits
  <2> QED
    BY <2>1, <2>2, <2>3, SizesAre, LenProperties
<1>3. ASSUME NEW k \in DOMAIN log PROVE log[k].at >= 1
  <2>1. log[k].at = Behind(k - 1)
    BY DEF LogFits
  <2>2. CASE k = 1
    BY <2>1, <2>2, SizesAre DEF Behind
  <2>3. CASE k # 1
    <3>1. k - 1 \in DOMAIN log /\ k - 1 # 0
      BY <1>1, <2>3
    <3>2. Behind(k - 1) = log[k - 1].at + Len(log[k - 1].record)
      BY <3>1 DEF Behind
    <3> QED
      BY <1>2, <2>1, <3>1, <3>2
  <2> QED
    BY <2>2, <2>3
<1> QED
  BY <1>1, <1>2, <1>3

(* The loop at a record: how far it reads, and what of it.                 *)
LEMMA DataRead ==
  ASSUME ParseInv, next <= end, NEW k \in DOMAIN log, log[k].at = next
  PROVE  LET file == SubSeq(bytes, 1, end)
             tag  == file[next]
             got  == SubSeq(file, next + 1, Smaller(next + Size(tag), Len(file)))
         IN  /\ tag = log[k].record[1] /\ tag \in Values
             /\ got \in Seq(Values)
             /\ Len(got) = IF next + Size(tag) <= end THEN Size(tag) ELSE end - next
             /\ \A j \in 1 .. Len(got) : got[j] = log[k].record[j + 1]
<1> DEFINE file == SubSeq(bytes, 1, end)
           rec  == log[k].record
           tag  == rec[1]
           last == Smaller(next + Size(tag), end)
           got  == SubSeq(file, next + 1, last)
<1>1. /\ bytes \in Seq(Values) /\ end \in Nat /\ end <= Len(bytes) /\ Len(bytes) \in Nat
      /\ next \in Nat
  BY LenProperties DEF ParseInv, ParseTypeOK, ParseFits, Values
<1>2. /\ rec \in Seq(Values) /\ Len(rec) = 1 + Size(tag) /\ DOMAIN rec = 1 .. Len(rec)
      /\ \A j \in 1 .. Len(rec) : bytes[next + j - 1] = rec[j]
  <2>1. rec \in Seq(Values) /\ Len(rec) = 1 + Size(tag) /\ DOMAIN rec = 1 .. Len(rec)
    BY LogIs DEF ParseInv
  <2>2. \A j \in DOMAIN rec : bytes[log[k].at + j - 1] = rec[j]
    BY DEF ParseInv, LogFits
  <2> HIDE DEF rec, tag
  <2> QED
    BY <2>1, <2>2
<1>3. Size(tag) \in Nat
  BY SizesAre
<1> HIDE DEF rec, tag
<1>4. file \in Seq(Values) /\ Len(file) = end /\ \A j \in 1 .. end : file[j] = bytes[j]
  <2>1. 1 <= end + 1
    BY <1>1
  <2>2. /\ file \in Seq(Values) /\ Len(file) = end + 1 - 1
        /\ \A j \in 1 .. end + 1 - 1 : file[j] = bytes[1 + j - 1]
    BY <1>1, <2>1, Stretch
  <2> HIDE DEF file
  <2>3. end + 1 - 1 = end /\ \A j \in 1 .. end : 1 + j - 1 = j
    BY <1>1
  <2> QED
    BY <2>2, <2>3
<1> HIDE DEF file
<1>5. next \in 1 .. end
  <2>1. next >= 1
    BY LogIs DEF ParseInv
  <2> QED
    BY <1>1, <2>1
<1>6. file[next] = tag
  <2>1. 1 \in 1 .. Len(rec) /\ next + 1 - 1 = next
    BY <1>1, <1>2, <1>3
  <2>2. bytes[next + 1 - 1] = rec[1]
    BY <1>2, <2>1
  <2> QED
    BY <1>4, <1>5, <2>1, <2>2 DEF tag
<1>7. tag \in Values
  <2>1. 1 \in 1 .. Len(rec)
    BY <1>2, <1>3
  <2> QED
    BY <1>2, <2>1, ElementOfSeq DEF tag
<1>8. /\ last \in Nat /\ last <= end /\ next <= last
      /\ last - next = IF next + Size(tag) <= end THEN Size(tag) ELSE end - next
      /\ last - next <= Size(tag)
  BY <1>1, <1>3, <1>5 DEF Smaller
<1> HIDE DEF last
<1>9. /\ got \in Seq(Values) /\ Len(got) = last + 1 - (next + 1)
      /\ \A j \in 1 .. last + 1 - (next + 1) : got[j] = file[(next + 1) + j - 1]
  <2>1. next + 1 \in Nat \ {0} /\ next + 1 <= last + 1 /\ last <= Len(file)
    BY <1>1, <1>4, <1>8
  <2> DEFINE first == next + 1
  <2> HIDE DEF first
  <2>2. /\ SubSeq(file, first, last) \in Seq(Values)
        /\ Len(SubSeq(file, first, last)) = last + 1 - first
        /\ \A j \in 1 .. last + 1 - first : SubSeq(file, first, last)[j] = file[first + j - 1]
    BY <1>4, <1>8, <2>1, Stretch DEF first
  <2> QED
    BY <2>2 DEF first
<1> HIDE DEF got
<1>10. Len(got) = last - next
  BY <1>1, <1>8, <1>9
<1>11. ASSUME NEW j \in 1 .. Len(got) PROVE got[j] = rec[j + 1]
  <2>1. j \in 1 .. last + 1 - (next + 1) /\ (next + 1) + j - 1 = next + j
    BY <1>1, <1>8, <1>10
  <2>2. got[j] = file[next + j]
    BY <1>9, <2>1
  <2>3. next + j \in 1 .. end /\ j + 1 \in 1 .. Len(rec) /\ next + (j + 1) - 1 = next + j
    BY <1>1, <1>2, <1>3, <1>5, <1>8, <1>10
  <2>4. bytes[next + (j + 1) - 1] = rec[j + 1]
    BY <1>2, <2>3
  <2> QED
    BY <1>4, <2>2, <2>3, <2>4
<1>12. got = SubSeq(file, next + 1, Smaller(next + Size(file[next]), Len(file)))
  BY <1>4, <1>6 DEF got, last
<1>13. /\ file[next] = rec[1] /\ file[next] \in Values
       /\ got \in Seq(Values)
       /\ Len(got) = IF next + Size(file[next]) <= end THEN Size(file[next])
                     ELSE end - next
       /\ \A j \in 1 .. Len(got) : got[j] = rec[j + 1]
  BY <1>6, <1>7, <1>8, <1>9, <1>10, <1>11 DEF tag
<1> QED
  BY <1>12, <1>13 DEF file, rec

(* A pass of the loop over a whole record, or over the cut one at the end  *)
(* of the file: where it leaves off, whether it goes on, and its row.      *)
LEMMA RecordRead ==
  ASSUME ParseInv, opened, next <= end, NEW k \in DOMAIN log, log[k].at = next
  PROVE  LET r == Record(SubSeq(bytes, 1, end), next, buffer)
         IN  /\ r.buffer \in [1 .. BufferSize -> Values] /\ r.more \in BOOLEAN
             /\ r.next = IF Whole(log[k]) THEN next + Len(log[k].record) ELSE end + 1
             /\ ~r.more => ~Whole(log[k])
             /\ \/ r.rows = <<>>
                \/ \E row \in GpsRow : r.rows = <<row>> /\ RowOf(row, log[k])
             /\ IsGps(log[k]) /\ Whole(log[k]) /\ Located(log[k])
                  => \E row \in GpsRow : r.rows = <<row>> /\ RowOf(row, log[k])
<1> DEFINE file == SubSeq(bytes, 1, end)
           rec  == log[k].record
           tag  == file[next]
           got  == SubSeq(file, next + 1, Smaller(next + Size(tag), Len(file)))
           over == Over(Over(buffer, <<tag>>), got)
           all  == Len(got) >= Needed(tag)
           data == SubSeq(over, 1, Sizes[GPS])
           row  == [at |-> next, data |-> data]
           r    == Record(file, next, buffer)
<1>1. /\ tag = rec[1] /\ tag \in Values /\ got \in Seq(Values)
      /\ Len(got) = IF next + Size(tag) <= end THEN Size(tag) ELSE end - next
      /\ \A j \in 1 .. Len(got) : got[j] = rec[j + 1]
  BY DataRead
<1>2. next \in Nat /\ end \in Nat /\ buffer \in [1 .. BufferSize -> Values]
  BY DEF ParseInv, ParseTypeOK, Values
<1>3. /\ rec \in Seq(Values) /\ Len(rec) = 1 + Size(rec[1])
      /\ DOMAIN rec = 1 .. Len(rec)
  BY LogIs DEF ParseInv
<1>4. /\ r.next = next + 1 + Len(got) /\ r.buffer = over /\ r.more = all
      /\ r.rows = IF tag = GPS /\ all THEN Row(next, over) ELSE <<>>
  BY DEF Record
<1> HIDE DEF r
<1>5. Size(tag) \in Nat /\ Needed(tag) <= Size(tag) /\ Len(got) \in Nat /\ Needed(tag) \in Int
  <2>1. Size(tag) \in Nat /\ Needed(tag) <= Size(tag) /\ Len(got) \in Nat
    BY <1>1, SizesAre, LenProperties
  <2>2. Needed(tag) \in Int
    BY SizesAre DEF Needed
  <2> QED
    BY <2>1, <2>2
<1> HIDE DEF tag, got, file
<1>6. Whole(log[k]) <=> next + Size(tag) <= end
  BY <1>1 DEF Whole
<1>7. r.next = IF Whole(log[k]) THEN next + Len(rec) ELSE end + 1
  <2>1. r.next = next + 1 + Len(got) /\ Len(rec) = 1 + Size(tag)
    BY <1>1, <1>3, <1>4
  <2>2. CASE Whole(log[k])
    <3>1. Len(got) = Size(tag)
      BY <1>1, <1>6, <2>2
    <3> QED
      BY <1>2, <1>5, <2>1, <2>2, <3>1
  <2>3. CASE ~Whole(log[k])
    <3>1. Len(got) = end - next
      BY <1>1, <1>6, <2>3
    <3> QED
      BY <1>2, <2>1, <2>3, <3>1
  <2> QED
    BY <2>2, <2>3
<1>8. ~r.more => ~Whole(log[k])
  BY <1>1, <1>4, <1>5, <1>6
<1>9. over \in [1 .. BufferSize -> Values]
      /\ \A j \in 1 .. BufferSize : j <= Len(got) => over[j] = got[j]
  <2>1. <<tag>> \in Seq(Values)
    BY <1>1
  <2>2. Over(buffer, <<tag>>) \in [1 .. BufferSize -> Values]
    BY <1>2, <2>1, OverIs
  <2> QED
    BY <1>1, <2>2, OverIs
<1> HIDE DEF over
<1>10. /\ data \in Seq(Values) /\ Len(data) = Sizes[GPS]
       /\ \A j \in 1 .. Sizes[GPS] : data[j] = over[j]
  <2>1. over \in Seq(Values) /\ Len(over) = BufferSize
    <3>1. over \in Seq(Values)
      BY <1>9, SizesAre, SeqDef
    <3>2. DOMAIN over = 1 .. BufferSize /\ DOMAIN over = 1 .. Len(over) /\ Len(over) \in Nat
      BY <1>9, <3>1, LenProperties
    <3> QED
      BY <3>1, <3>2, SizesAre
  <2> DEFINE n == Sizes[GPS]
  <2>2. n \in Nat /\ 1 <= n + 1 /\ n <= BufferSize
    BY SizesAre
  <2> HIDE DEF n
  <2>3. /\ SubSeq(over, 1, n) \in Seq(Values) /\ Len(SubSeq(over, 1, n)) = n + 1 - 1
        /\ \A j \in 1 .. n + 1 - 1 : SubSeq(over, 1, n)[j] = over[1 + j - 1]
    BY <2>1, <2>2, Stretch
  <2> DEFINE part == SubSeq(over, 1, n)
  <2> HIDE DEF part
  <2>4. n + 1 - 1 = n /\ \A j \in 1 .. n : 1 + j - 1 = j
    BY <2>2
  <2>5. part \in Seq(Values) /\ Len(part) = n /\ \A j \in 1 .. n : part[j] = over[j]
    BY <2>3, <2>4 DEF part
  <2> QED
    BY <2>5 DEF part, n
<1> HIDE DEF data
<1>11. row \in GpsRow
  BY <1>2, <1>10 DEF GpsRow, Values
<1>12. Row(next, over) = IF \E j \in 1 .. Sizes[GPS] : data[j] # 0 THEN <<row>> ELSE <<>>
  BY DEF Row, data
<1>13. IsGps(log[k]) <=> tag = GPS
  BY <1>1 DEF IsGps
<1>14. ASSUME tag = GPS, all
       PROVE  /\ \A j \in 1 .. Sizes[GPS] : next + j <= end => data[j] = rec[j + 1]
              /\ next + Sizes[HEARTBEAT] <= end
              /\ Whole(log[k]) =>
                   ((\E j \in 1 .. Sizes[GPS] : data[j] # 0) <=> Located(log[k]))
  <2>1. Size(tag) = Sizes[GPS] /\ Needed(tag) = Sizes[HEARTBEAT] /\ Sizes[GPS] \in Nat
        /\ Sizes[GPS] <= BufferSize /\ Sizes[HEARTBEAT] \in Nat
        /\ Sizes[HEARTBEAT] <= Sizes[GPS]
    BY <1>14, SizesAre
  <2>2. ASSUME NEW j \in 1 .. Sizes[GPS], next + j <= end
        PROVE  data[j] = rec[j + 1]
    <3>1. j \in 1 .. Len(got) /\ j \in 1 .. BufferSize
      BY <1>1, <1>2, <2>1, <2>2, SizesAre
    <3>2. j <= Len(got)
      BY <1>5, <3>1
    <3> QED
      BY <1>1, <1>9, <1>10, <3>1, <3>2
  <2>3. next + Sizes[HEARTBEAT] <= end
    BY <1>1, <1>2, <1>5, <1>14, <2>1
  <2>4. ASSUME Whole(log[k])
        PROVE  (\E j \in 1 .. Sizes[GPS] : data[j] # 0) <=> Located(log[k])
    <3>1. Len(rec) = 1 + Sizes[GPS]
      BY <1>1, <1>3, <2>1
    <3>2. \A j \in 1 .. Sizes[GPS] : data[j] = rec[j + 1] /\ j + 1 \in 2 .. Len(rec)
      BY <1>2, <1>6, <2>1, <2>2, <2>4, <3>1
    <3>3. \A m \in 2 .. Len(rec) : m - 1 \in 1 .. Sizes[GPS] /\ (m - 1) + 1 = m
      BY <2>1, <3>1
    <3>4. \A m \in 2 .. Len(rec) : data[m - 1] = rec[m]
      BY <3>2, <3>3
    <3> QED
      BY <3>2, <3>3, <3>4 DEF Located
  <2> QED
    BY <2>2, <2>3, <2>4
<1>15. ASSUME tag = GPS, all, \E j \in 1 .. Sizes[GPS] : data[j] # 0
       PROVE  r.rows = <<row>> /\ RowOf(row, log[k])
  <2>1. r.rows = <<row>>
    BY <1>4, <1>12, <1>15
  <2>2. row.at = next /\ row.data = data
    OBVIOUS
  <2> HIDE DEF row
  <2>3. /\ IsGps(log[k]) /\ log[k].at = row.at /\ Len(row.data) = Sizes[GPS]
        /\ \A j \in 1 .. Sizes[GPS] :
             log[k].at + j <= end => row.data[j] = log[k].record[j + 1]
        /\ Whole(log[k]) => Located(log[k])
        /\ log[k].at + Sizes[HEARTBEAT] <= end
    BY <1>10, <1>13, <1>14, <1>15, <2>2
  <2> QED
    BY <2>1, <2>3 DEF RowOf
<1>16. r.rows = <<>> \/ \E w \in GpsRow : r.rows = <<w>> /\ RowOf(w, log[k])
  <2>1. CASE tag = GPS /\ all /\ \E j \in 1 .. Sizes[GPS] : data[j] # 0
    BY <1>11, <1>15, <2>1
  <2>2. CASE ~(tag = GPS /\ all /\ \E j \in 1 .. Sizes[GPS] : data[j] # 0)
    BY <1>4, <1>12, <2>2
  <2> QED
    BY <2>1, <2>2
<1>17. IsGps(log[k]) /\ Whole(log[k]) /\ Located(log[k])
         => \E w \in GpsRow : r.rows = <<w>> /\ RowOf(w, log[k])
  <2> SUFFICES ASSUME IsGps(log[k]), Whole(log[k]), Located(log[k])
               PROVE  r.rows = <<row>> /\ RowOf(row, log[k])
    BY <1>11
  <2>1. tag = GPS /\ all
    BY <1>1, <1>5, <1>6, <1>13
  <2> QED
    BY <1>14, <1>15, <2>1
<1>18. r.buffer \in [1 .. BufferSize -> Values] /\ r.more \in BOOLEAN
  BY <1>4, <1>9
<1> QED
  BY <1>7, <1>8, <1>16, <1>17, <1>18 DEF r, file

-----------------------------------------------------------------------------
(* The parse.                                                              *)

(* A row that is appended, or none, leaves those before it.                *)
LEMMA RowsAppend ==
  ASSUME rows \in Seq(GpsRow), NEW row \in GpsRow
  PROVE  /\ rows \o <<row>> \in Seq(GpsRow)
         /\ Len(rows \o <<row>>) = Len(rows) + 1 /\ Len(rows) \in Nat
         /\ DOMAIN rows = 1 .. Len(rows)
         /\ DOMAIN (rows \o <<row>>) = 1 .. Len(rows) + 1
         /\ \A n \in DOMAIN rows : (rows \o <<row>>)[n] = rows[n]
         /\ (rows \o <<row>>)[Len(rows) + 1] = row
<1> DEFINE one == <<row>>
           all == rows \o one
<1>1. one \in Seq(GpsRow) /\ Len(one) = 1 /\ one[1] = row
  OBVIOUS
<1>2. Len(rows) \in Nat /\ DOMAIN rows = 1 .. Len(rows)
  BY LenProperties
<1> HIDE DEF one
<1>3. /\ all \in Seq(GpsRow) /\ Len(all) = Len(rows) + 1
      /\ \A n \in 1 .. Len(rows) + 1 : all[n] = IF n <= Len(rows) THEN rows[n]
                                                ELSE one[n - Len(rows)]
  <2>1. /\ all \in Seq(GpsRow) /\ Len(all) = Len(rows) + Len(one)
        /\ \A n \in 1 .. Len(rows) + Len(one) :
             all[n] = IF n <= Len(rows) THEN rows[n] ELSE one[n - Len(rows)]
    BY <1>1, ConcatProperties
  <2> HIDE DEF all
  <2> QED
    BY <1>1, <2>1
<1> HIDE DEF all
<1>4. DOMAIN all = 1 .. Len(rows) + 1
  BY <1>3, LenProperties
<1>5. \A n \in DOMAIN rows : all[n] = rows[n]
  BY <1>2, <1>3
<1>6. all[Len(rows) + 1] = row
  <2>1. Len(rows) + 1 \in 1 .. Len(rows) + 1 /\ ~(Len(rows) + 1 <= Len(rows))
        /\ (Len(rows) + 1) - Len(rows) = 1
    BY <1>2
  <2> QED
    BY <1>1, <1>3, <2>1
<1> QED
  BY <1>2, <1>3, <1>4, <1>5, <1>6 DEF all, one

(* The records before and behind the one that is read.                     *)
LEMMA RecordsApart ==
  ASSUME ParseTypeOK, LogFits, NEW k \in DOMAIN log
  PROVE  /\ \A m \in DOMAIN log : m < k => log[m].at < log[k].at
         /\ \A m \in DOMAIN log : log[m].at < log[k].at + Len(log[k].record)
                                    => m <= k
         /\ log[k].at + Len(log[k].record) <= Len(bytes) + 1
         /\ \/ log[k].at + Len(log[k].record) = Len(bytes) + 1
            \/ \E m \in DOMAIN log : log[m].at = log[k].at + Len(log[k].record)
<1>1. /\ Len(log) \in Nat /\ DOMAIN log = 1 .. Len(log)
      /\ \A m \in DOMAIN log : log[m].at \in Nat /\ Len(log[m].record) \in Nat
  BY LogIs
<1> DEFINE behind == log[k].at + Len(log[k].record)
<1>2. behind \in Nat /\ Behind(k) = behind
  BY <1>1 DEF Behind
<1>3. \A m, n \in DOMAIN log : m < n => log[m].at < log[n].at
  BY DEF LogFits
<1>4. CASE k = Len(log)
  <2>1. behind = Len(bytes) + 1
    BY <1>2, <1>4 DEF LogFits
  <2>2. \A m \in DOMAIN log : m <= k
    BY <1>1, <1>4
  <2> QED
    BY <1>1, <1>3, <2>1, <2>2 DEF LogFits
<1>5. CASE k # Len(log)
  <2>1. k + 1 \in DOMAIN log /\ (k + 1) - 1 = k
    BY <1>1, <1>5
  <2>2. log[k + 1].at = behind
    BY <1>2, <2>1 DEF LogFits
  <2> HIDE DEF behind
  <2>3. \A m \in DOMAIN log : log[m].at < behind => m <= k
    <3> SUFFICES ASSUME NEW m \in DOMAIN log, log[m].at < behind, ~(m <= k) PROVE FALSE
      OBVIOUS
    <3>1. m = k + 1 \/ k + 1 < m
      BY <1>1
    <3>2. behind <= log[m].at
      BY <1>1, <1>2, <1>3, <2>1, <2>2, <3>1
    <3> QED
      BY <1>1, <1>2, <3>2
  <2> QED
    BY <1>1, <1>3, <2>1, <2>2, <2>3 DEF LogFits, behind
<1> QED
  BY <1>4, <1>5

(* A log that is just its head.                                            *)
LEMMA ParseInvInit == ParseInit => ParseInv
<1> SUFFICES ASSUME ParseInit PROVE ParseInv
  OBVIOUS
<1>1. /\ log = <<>> /\ bytes \in [1 .. HeadSize -> Data]
      /\ opened = FALSE /\ end = 0 /\ next = 1 /\ more = FALSE /\ failed = FALSE
      /\ rows = <<>>
  BY DEF ParseInit, BytesOf
<1>2. bytes \in Seq(Values) /\ Len(bytes) = HeadSize
  <2>1. bytes \in [1 .. HeadSize -> Values]
    BY <1>1 DEF Values
  <2>2. bytes \in Seq(Values)
    BY <2>1, SizesAre, SeqDef
  <2> QED
    BY <2>1, <2>2, SizesAre, LenProperties
<1>3. log \in Seq(LogRecord) /\ rows \in Seq(GpsRow) /\ Len(log) = 0
      /\ DOMAIN log = {} /\ DOMAIN rows = {}
  BY <1>1, EmptySeq
<1>4. ParseTypeOK
  BY <1>1, <1>2, <1>3 DEF ParseTypeOK, Values
<1>5. LogFits
  BY <1>2, <1>3, SizesAre DEF LogFits, Behind
<1>6. ParseFits
  BY <1>1, <1>2, <1>3, SizesAre DEF ParseFits
<1> QED
  BY <1>4, <1>5, <1>6 DEF ParseInv

(* One more record behind the others.                                      *)
LEMMA WriteKeeps == ParseInv /\ WriteRecord => ParseInv'
<1> SUFFICES ASSUME ParseInv, WriteRecord PROVE ParseInv'
  OBVIOUS
<1>0. PICK tag \in Values : \E data \in [1 .. Size(tag) -> Data] :
        /\ log' = Append(log, [at |-> Len(bytes) + 1, record |-> <<tag>> \o data])
        /\ bytes' = (bytes \o <<tag>>) \o data
  BY DEF WriteRecord, BytesOf, Values
<1>1. PICK data \in [1 .. Size(tag) -> Data] :
        /\ log' = Append(log, [at |-> Len(bytes) + 1, record |-> <<tag>> \o data])
        /\ bytes' = (bytes \o <<tag>>) \o data
  BY <1>0
<1>2. ~opened /\ UNCHANGED <<opened, end, next, buffer, more, failed, rows>>
  BY DEF WriteRecord
<1>3. Size(tag) \in Nat
  BY SizesAre
<1>4. data \in Seq(Values) /\ Len(data) = Size(tag)
  <2>1. data \in [1 .. Size(tag) -> Values]
    BY DEF Values
  <2>2. data \in Seq(Values)
    BY <1>3, <2>1, SeqDef
  <2> QED
    BY <1>3, <2>1, <2>2, LenProperties
<1> DEFINE one == <<tag>>
           rec == one \o data
           new == [at |-> Len(bytes) + 1, record |-> rec]
<1>5. one \in Seq(Values) /\ Len(one) = 1 /\ one[1] = tag
  OBVIOUS
<1>6. bytes \in Seq(Values) /\ Len(bytes) \in Nat
  BY LenProperties DEF ParseInv, ParseTypeOK, Values
<1> HIDE DEF one
<1>7. /\ rec \in Seq(Values) /\ Len(rec) = 1 + Size(tag) /\ DOMAIN rec = 1 .. 1 + Size(tag)
      /\ rec[1] = tag
  <2>1. /\ rec \in Seq(Values) /\ Len(rec) = 1 + Size(tag)
        /\ \A j \in 1 .. 1 + Size(tag) : rec[j] = IF j <= 1 THEN one[j] ELSE data[j - 1]
    <3>1. /\ rec \in Seq(Values) /\ Len(rec) = Len(one) + Len(data)
          /\ \A j \in 1 .. Len(one) + Len(data) :
               rec[j] = IF j <= Len(one) THEN one[j] ELSE data[j - Len(one)]
      BY <1>4, <1>5, ConcatProperties
    <3> HIDE DEF rec
    <3> QED
      BY <1>4, <1>5, <3>1
  <2>2. 1 \in 1 .. 1 + Size(tag)
    BY <1>3
  <2> HIDE DEF rec
  <2> QED
    BY <1>5, <2>1, <2>2, LenProperties
<1>8. bytes' = bytes \o rec
  BY <1>1, <1>4, <1>5, <1>6, ConcatAssociative DEF one
<1> HIDE DEF rec
<1>9. /\ bytes' \in Seq(Values) /\ Len(bytes') = Len(bytes) + 1 + Size(tag)
      /\ \A j \in 1 .. Len(bytes) : bytes'[j] = bytes[j]
      /\ \A j \in DOMAIN rec : bytes'[Len(bytes) + j] = rec[j]
  <2>1. /\ bytes' \in Seq(Values) /\ Len(bytes') = Len(bytes) + Len(rec)
        /\ \A j \in 1 .. Len(bytes) + Len(rec) :
             bytes'[j] = IF j <= Len(bytes) THEN bytes[j] ELSE rec[j - Len(bytes)]
    BY <1>6, <1>7, <1>8, ConcatProperties
  <2>2. ASSUME NEW j \in DOMAIN rec PROVE bytes'[Len(bytes) + j] = rec[j]
    <3>1. /\ Len(bytes) + j \in 1 .. Len(bytes) + Len(rec) /\ ~(Len(bytes) + j <= Len(bytes))
          /\ (Len(bytes) + j) - Len(bytes) = j
      BY <1>3, <1>6, <1>7
    <3> QED
      BY <2>1, <3>1
  <2>3. ASSUME NEW j \in 1 .. Len(bytes) PROVE bytes'[j] = bytes[j]
    BY <1>3, <1>6, <1>7, <2>1
  <2> QED
    BY <1>3, <1>6, <1>7, <2>1, <2>2, <2>3
<1>10. new \in LogRecord
  BY <1>6, <1>7 DEF LogRecord, Values
<1>11. log \in Seq(LogRecord) /\ log' = Append(log, new)
  BY <1>1 DEF ParseInv, ParseTypeOK, rec, one
<1> HIDE DEF new
<1>12. /\ log' \in Seq(LogRecord) /\ Len(log') = Len(log) + 1 /\ Len(log) \in Nat
       /\ DOMAIN log = 1 .. Len(log) /\ DOMAIN log' = 1 .. Len(log) + 1
       /\ \A k \in DOMAIN log : log'[k] = log[k]
       /\ log'[Len(log) + 1] = new
  <2>1. /\ log' \in Seq(LogRecord) /\ Len(log') = Len(log) + 1
        /\ \A k \in 1 .. Len(log) : log'[k] = log[k]
        /\ log'[Len(log) + 1] = new
    BY <1>10, <1>11, AppendProperties
  <2> QED
    BY <1>11, <2>1, LenProperties
<1>13. ParseTypeOK'
  BY <1>2, <1>9, <1>12 DEF ParseInv, ParseTypeOK, Values
<1>14. new.at = Len(bytes) + 1 /\ new.record = rec
  BY DEF new
<1>15. \A k \in DOMAIN log' : k \in DOMAIN log \/ k = Len(log) + 1
  BY <1>12
<1>16. /\ \A k \in DOMAIN log : log[k].at \in Nat /\ log[k].at >= 1
                                /\ Len(log[k].record) \in Nat /\ Len(log[k].record) >= 1
                                /\ DOMAIN log[k].record = 1 .. Len(log[k].record)
       /\ \A k \in DOMAIN log : log[k].at + Len(log[k].record) <= Len(bytes) + 1
  BY LogIs DEF ParseInv, LogFits
<1>17. \A k \in 0 .. Len(log) : Behind(k)' = Behind(k)
  BY <1>12 DEF Behind
<1>18. ASSUME NEW k \in DOMAIN log'
       PROVE  /\ Len(log'[k].record) = 1 + Size(log'[k].record[1])
              /\ log'[k].at = Behind(k - 1)'
              /\ log'[k].at + Len(log'[k].record) <= Len(bytes') + 1
              /\ \A j \in DOMAIN log'[k].record : bytes'[log'[k].at + j - 1] = log'[k].record[j]
  <2>1. CASE k \in DOMAIN log
    <3>1. /\ Len(log[k].record) = 1 + Size(log[k].record[1])
          /\ log[k].at = Behind(k - 1)
          /\ \A j \in DOMAIN log[k].record : bytes[log[k].at + j - 1] = log[k].record[j]
      BY <2>1 DEF ParseInv, LogFits
    <3>2. k - 1 \in 0 .. Len(log)
      BY <1>12, <2>1
    <3>3. ASSUME NEW j \in DOMAIN log[k].record
          PROVE  bytes'[log[k].at + j - 1] = bytes[log[k].at + j - 1]
      <4>1. log[k].at + j - 1 \in 1 .. Len(bytes)
        BY <1>6, <1>16, <2>1
      <4> QED
        BY <1>9, <4>1
    <3>4. log[k].at + Len(log[k].record) <= Len(bytes') + 1
      BY <1>3, <1>6, <1>9, <1>16, <2>1
    <3>5. log'[k] = log[k] /\ Behind(k - 1)' = Behind(k - 1)
      BY <1>12, <1>17, <2>1, <3>2
    <3> QED
      BY <3>1, <3>3, <3>4, <3>5
  <2>2. CASE k = Len(log) + 1
    <3>1. log'[k].at = Len(bytes) + 1 /\ log'[k].record = rec
      BY <1>12, <1>14, <2>2
    <3>2. k - 1 = Len(log) /\ Behind(k - 1)' = Behind(Len(log))
      BY <1>12, <1>17, <2>2
    <3>3. Behind(Len(log)) = Len(bytes) + 1
      BY DEF ParseInv, LogFits
    <3>4. \A j \in DOMAIN rec : bytes'[(Len(bytes) + 1) + j - 1] = rec[j]
      <4>1. \A j \in DOMAIN rec : (Len(bytes) + 1) + j - 1 = Len(bytes) + j
        BY <1>6, <1>7
      <4> QED
        BY <1>9, <4>1
    <3>5. (Len(bytes) + 1) + Len(rec) <= Len(bytes') + 1
      BY <1>3, <1>6, <1>7, <1>9
    <3> QED
      BY <1>7, <3>1, <3>2, <3>3, <3>4, <3>5
  <2> QED
    BY <1>15, <2>1, <2>2
<1>19. ASSUME NEW k \in DOMAIN log', NEW m \in DOMAIN log', k < m
       PROVE  log'[k].at < log'[m].at
  <2>1. k \in DOMAIN log
    BY <1>12, <1>19
  <2>2. CASE m \in DOMAIN log
    BY <1>12, <1>19, <2>1, <2>2 DEF ParseInv, LogFits
  <2>3. CASE m = Len(log) + 1
    <3>1. log'[m].at = Len(bytes) + 1 /\ log'[k].at = log[k].at
      BY <1>12, <1>14, <2>1, <2>3
    <3> QED
      BY <1>6, <1>16, <2>1, <3>1
  <2> QED
    BY <1>15, <2>2, <2>3
<1>20. Behind(Len(log))' = Len(bytes') + 1
  <2>1. Len(log') # 0 /\ log'[Len(log')] = new
    BY <1>12
  <2>2. Behind(Len(log))' = (Len(bytes) + 1) + Len(rec)
    BY <1>14, <2>1 DEF Behind
  <2> QED
    BY <1>3, <1>6, <1>7, <1>9, <2>2
<1>21. LogFits'
  BY <1>18, <1>19, <1>20 DEF LogFits
<1>22. ParseFits'
  <2>1. /\ rows = <<>> /\ rows' = <<>> /\ DOMAIN rows' = {} /\ end <= Len(bytes)
        /\ end \in Nat /\ failed' = FALSE
    BY <1>2 DEF ParseInv, ParseFits, ParseTypeOK
  <2>2. end' <= Len(bytes')
    BY <1>2, <1>3, <1>6, <1>9, <2>1
  <2> QED
    BY <1>2, <2>1, <2>2 DEF ParseInv, ParseFits
<1> QED
  BY <1>13, <1>21, <1>22 DEF ParseInv

(* The file is opened with as much of the log as it holds.                 *)
LEMMA OpenKeeps ==
  ASSUME NEW n \in 0 .. Len(bytes)
  PROVE  ParseInv /\ Open(n) => ParseInv'
<1> SUFFICES ASSUME ParseInv, Open(n) PROVE ParseInv'
  OBVIOUS
<1>1. /\ ~opened /\ opened' = TRUE /\ end' = n /\ next' = HeadSize + 1
      /\ UNCHANGED <<log, bytes, rows>>
      /\ failed' \in BOOLEAN /\ more' \in BOOLEAN
      /\ failed' => ~more'
      /\ n < HeadSize => ~more'
      /\ n >= HeadSize /\ ~failed' => more'
  <2> DEFINE long == n >= HeadSize
  <2>1. /\ ~opened /\ opened' = TRUE /\ end' = n /\ next' = HeadSize + 1
        /\ UNCHANGED <<log, bytes, rows>>
        /\ failed' \in {FALSE, long} /\ more' = (long /\ ~failed')
    BY DEF Open
  <2>2. n < HeadSize => ~long
    BY SizesAre
  <2>3. long \in BOOLEAN
    OBVIOUS
  <2> HIDE DEF long
  <2>4. /\ failed' \in BOOLEAN /\ more' \in BOOLEAN
        /\ failed' => ~more'
        /\ long /\ ~failed' => more'
        /\ ~long => ~more'
    BY <2>1, <2>3, Zenon
  <2> QED
    BY <2>1, <2>2, <2>4 DEF long
<1>2. PICK stack \in [1 .. BufferSize -> Data] :
        buffer' = Over(stack, SubSeq(bytes, 1, Smaller(n, HeadSize)))
  BY DEF Open, BytesOf
<1>3. bytes \in Seq(Values) /\ Len(bytes) \in Nat /\ n \in Nat /\ n <= Len(bytes)
  BY LenProperties DEF ParseInv, ParseTypeOK, Values
<1>4. buffer' \in [1 .. BufferSize -> Values]
  <2> DEFINE head == Smaller(n, HeadSize)
  <2>1. head \in Nat /\ 1 <= head + 1 /\ head <= Len(bytes)
    BY <1>3, SizesAre DEF Smaller
  <2> HIDE DEF head
  <2>2. SubSeq(bytes, 1, head) \in Seq(Values)
    BY <1>3, <2>1, Stretch
  <2>3. stack \in [1 .. BufferSize -> Values]
    BY DEF Values
  <2> QED
    BY <1>2, <2>2, <2>3, OverIs DEF head
<1>5. ParseTypeOK'
  BY <1>1, <1>3, <1>4, SizesAre DEF ParseInv, ParseTypeOK, Values
<1>6. LogFits'
  BY <1>1 DEF ParseInv, LogFits, Behind
<1>7. rows' = <<>> /\ DOMAIN rows' = {}
  BY <1>1 DEF ParseInv, ParseFits
<1>8. /\ Len(log) \in Nat /\ DOMAIN log = 1 .. Len(log)
      /\ \A k \in DOMAIN log : log[k].at \in Nat
  BY LogIs DEF ParseInv
<1>9. next' > end' \/ \E k \in DOMAIN log : log[k].at = next'
  <2>1. CASE Len(log) = 0
    <3>1. HeadSize + 1 = Len(bytes) + 1
      BY <2>1 DEF ParseInv, LogFits, Behind
    <3> QED
      BY <1>1, <1>3, <3>1, SizesAre
  <2>2. CASE Len(log) # 0
    <3>1. 1 \in DOMAIN log
      BY <1>8, <2>2
    <3>2. log[1].at = Behind(1 - 1) /\ Behind(1 - 1) = HeadSize + 1
      BY <3>1 DEF ParseInv, LogFits, Behind
    <3> QED
      BY <1>1, <3>1, <3>2
  <2> QED
    BY <2>1, <2>2
<1>10. \A k \in DOMAIN log : ~(log[k].at < HeadSize + 1)
  <2> SUFFICES ASSUME NEW k \in DOMAIN log PROVE ~(log[k].at < HeadSize + 1)
    OBVIOUS
  <2>1. 1 \in DOMAIN log /\ k \in Nat /\ k >= 1
    BY <1>8
  <2>2. log[1].at = HeadSize + 1
    BY <2>1 DEF ParseInv, LogFits, Behind
  <2>3. 1 < k => log[1].at < log[k].at
    BY <2>1 DEF ParseInv, LogFits
  <2> QED
    BY <1>8, <2>1, <2>2, <2>3, SizesAre
<1>11. ParseFits'
  <2>1. end' <= Len(bytes')
    BY <1>1, <1>3
  <2>2. end' < HeadSize => ~more'
    BY <1>1
  <2>3. end' >= HeadSize => more' \/ failed'
    BY <1>1
  <2> QED
    BY <1>1, <1>7, <1>9, <1>10, <2>1, <2>2, <2>3 DEF ParseFits
<1> QED
  BY <1>5, <1>6, <1>11 DEF ParseInv

(* A pass of the loop accounts for the record it reads and for no other.   *)
LEMMA ReadRecordKeeps == ParseInv /\ ReadRecord => ParseInv'
<1> SUFFICES ASSUME ParseInv, ReadRecord PROVE ParseInv'
  OBVIOUS
<1> DEFINE r == Record(SubSeq(bytes, 1, end), next, buffer)
<1>1. /\ opened /\ more /\ next <= end
      /\ next' = r.next /\ buffer' = r.buffer
      /\ failed' \in {FALSE, r.rows # <<>>}
      /\ more' = (r.more /\ ~failed')
      /\ rows' = IF failed' THEN rows ELSE rows \o r.rows
      /\ UNCHANGED <<log, bytes, opened, end>>
  BY DEF ReadRecord
<1>2. /\ next \in Nat /\ end \in Nat /\ end <= Len(bytes) /\ rows \in Seq(GpsRow)
      /\ end >= HeadSize /\ ~failed /\ failed' \in BOOLEAN
  <2>1. end \in Nat /\ (end < HeadSize => ~more)
    BY DEF ParseInv, ParseTypeOK, ParseFits
  <2>2. end >= HeadSize
    BY <1>1, <2>1, SizesAre
  <2>3. ~failed /\ failed' \in BOOLEAN
    BY <1>1 DEF ParseInv, ParseFits
  <2> QED
    BY <2>2, <2>3 DEF ParseInv, ParseTypeOK, ParseFits
<1>3. PICK k \in DOMAIN log : log[k].at = next
  BY <1>1, <1>2 DEF ParseInv, ParseFits
<1>4. /\ r.buffer \in [1 .. BufferSize -> Values] /\ r.more \in BOOLEAN
      /\ r.next = IF Whole(log[k]) THEN next + Len(log[k].record) ELSE end + 1
      /\ ~r.more => ~Whole(log[k])
      /\ \/ r.rows = <<>>
         \/ \E row \in GpsRow : r.rows = <<row>> /\ RowOf(row, log[k])
      /\ IsGps(log[k]) /\ Whole(log[k]) /\ Located(log[k])
           => \E row \in GpsRow : r.rows = <<row>> /\ RowOf(row, log[k])
  BY <1>1, <1>3, RecordRead
<1> HIDE DEF r
<1>5. /\ Len(log) \in Nat /\ DOMAIN log = 1 .. Len(log)
      /\ \A m \in DOMAIN log :
           log[m].at \in Nat /\ Len(log[m].record) \in Nat /\ Len(log[m].record) >= 1
  BY LogIs DEF ParseInv
<1>6. /\ \A m \in DOMAIN log : m < k => log[m].at < log[k].at
      /\ \A m \in DOMAIN log : log[m].at < log[k].at + Len(log[k].record) => m <= k
      /\ log[k].at + Len(log[k].record) <= Len(bytes) + 1
      /\ \/ log[k].at + Len(log[k].record) = Len(bytes) + 1
         \/ \E m \in DOMAIN log : log[m].at = log[k].at + Len(log[k].record)
  BY RecordsApart DEF ParseInv
<1>7. next' \in Nat /\ next' > next
  BY <1>1, <1>2, <1>4, <1>5
<1>8. ~Whole(log[k]) => next' = end + 1
  BY <1>1, <1>4
<1>9. Len(rows) \in Nat /\ DOMAIN rows = 1 .. Len(rows)
  BY <1>2, LenProperties
<1>10. \/ rows' = rows
       \/ \E row \in GpsRow : rows' = rows \o <<row>> /\ RowOf(row, log[k])
  <2>1. CASE failed'
    BY <1>1, <2>1
  <2>2. CASE ~failed' /\ r.rows = <<>>
    BY <1>1, <1>2, <2>2, ConcatEmptySeq
  <2>3. ASSUME ~failed', NEW row \in GpsRow, r.rows = <<row>>, RowOf(row, log[k])
        PROVE  \E w \in GpsRow : rows' = rows \o <<w>> /\ RowOf(w, log[k])
    BY <1>1, <2>3
  <2> QED
    BY <1>4, <2>1, <2>2, <2>3
<1>11. ParseTypeOK'
  <2>1. rows' \in Seq(GpsRow)
    BY <1>2, <1>10, RowsAppend
  <2>2. buffer' \in [1 .. BufferSize -> Values] /\ more' \in BOOLEAN /\ opened' \in BOOLEAN
    BY <1>1, <1>4
  <2> QED
    BY <1>1, <1>2, <1>7, <2>1, <2>2 DEF ParseInv, ParseTypeOK, Values
<1>12. LogFits'
  BY <1>1 DEF ParseInv, LogFits, Behind
<1>13. next' > end \/ \E m \in DOMAIN log : log[m].at = next'
  <2>1. CASE Whole(log[k])
    <3>1. next' = log[k].at + Len(log[k].record)
      BY <1>1, <1>3, <1>4, <2>1
    <3> QED
      BY <1>2, <1>5, <1>6, <3>1
  <2>2. CASE ~Whole(log[k])
    BY <1>2, <1>8, <2>2
  <2> QED
    BY <2>1, <2>2
<1>14. ~more' => next' > end \/ failed'
  BY <1>1, <1>2, <1>4, <1>8
<1>15. ASSUME NEW n \in DOMAIN rows
       PROVE  /\ rows[n].at < next' /\ rows[n].at \in Nat
              /\ \E m \in DOMAIN log : RowOf(rows[n], log[m]) /\ Whole(log[m])
  <2>1. rows[n] \in GpsRow
    BY <1>2, <1>9, ElementOfSeq
  <2>2. rows[n].at < next /\ rows[n].at \in Nat
    BY <2>1 DEF ParseInv, ParseFits, GpsRow
  <2>3. PICK m \in DOMAIN log : /\ RowOf(rows[n], log[m])
                                /\ Whole(log[m]) \/ (n = Len(rows) /\ next > end)
    BY DEF ParseInv, ParseFits
  <2>4. Whole(log[m])
    BY <1>1, <1>2, <2>3
  <2> QED
    BY <1>2, <1>7, <2>2, <2>3, <2>4
<1>16. ASSUME NEW m \in DOMAIN log, log[m].at < next', m # k
       PROVE  log[m].at < next
  <2>1. next' <= log[k].at + Len(log[k].record)
    <3>1. CASE Whole(log[k])
      BY <1>1, <1>2, <1>3, <1>4, <1>5, <3>1
    <3>2. CASE ~Whole(log[k])
      <4>1. Len(log[k].record) = 1 + Size(log[k].record[1]) /\ Size(log[k].record[1]) \in Nat
        BY LogIs, SizesAre DEF ParseInv
      <4>2. ~(next + Size(log[k].record[1]) <= end)
        BY <1>3, <3>2 DEF Whole
      <4> QED
        BY <1>2, <1>3, <1>8, <3>2, <4>1, <4>2
    <3> QED
      BY <3>1, <3>2
  <2>2. m <= k
    BY <1>5, <1>6, <1>7, <1>16, <2>1
  <2>3. m < k
    BY <1>5, <1>16, <2>2
  <2> QED
    BY <1>3, <1>6, <2>3
<1>17. ASSUME NEW m \in DOMAIN log, log[m].at < next', m # k,
              IsGps(log[m]), Whole(log[m]), Located(log[m])
       PROVE  \E n \in DOMAIN rows : rows[n].at = log[m].at
  <2>1. log[m].at < next
    BY <1>16, <1>17
  <2> QED
    BY <1>1, <1>2, <1>17, <2>1 DEF ParseInv, ParseFits, Found
<1>18. \A m, n \in DOMAIN rows : m < n => rows[m].at < rows[n].at
  BY DEF ParseInv, ParseFits
<1>19. \A m \in DOMAIN log : IsGps(log[m])' = IsGps(log[m]) /\ Whole(log[m])' = Whole(log[m])
                             /\ Located(log[m])' = Located(log[m])
  BY <1>1 DEF IsGps, Whole, Located
<1>20. \A n \in DOMAIN rows' : \A m \in DOMAIN log :
         RowOf(rows[n], log[m])' <=> RowOf(rows'[n], log[m])
  BY <1>1 DEF RowOf, IsGps, Whole, Located
<1> DEFINE AllFound == \A m \in DOMAIN log :
      log[m].at < next' /\ IsGps(log[m]) /\ Whole(log[m]) /\ Located(log[m])
        => \/ \E n \in DOMAIN rows' : rows'[n].at = log[m].at
           \/ failed' /\ \A n \in DOMAIN rows' : rows'[n].at < log[m].at
<1> DEFINE Real == \A n \in DOMAIN rows' :
      /\ rows'[n].at < next'
      /\ \E m \in DOMAIN log :
           /\ RowOf(rows'[n], log[m])
           /\ Whole(log[m]) \/ (n = Len(rows') /\ next' > end)
<1> DEFINE InOrder == \A m, n \in DOMAIN rows' : m < n => rows'[m].at < rows'[n].at
<1>21. AllFound /\ Real /\ InOrder
  <2>1. CASE rows' = rows /\ ~(IsGps(log[k]) /\ Whole(log[k]) /\ Located(log[k]))
    BY <1>15, <1>17, <1>18, <2>1
  <2>2. ASSUME NEW row \in GpsRow, rows' = rows \o <<row>>, RowOf(row, log[k])
        PROVE  AllFound /\ Real /\ InOrder
    <3>1. /\ Len(rows') = Len(rows) + 1 /\ DOMAIN rows' = 1 .. Len(rows) + 1
          /\ \A n \in DOMAIN rows : rows'[n] = rows[n]
          /\ rows'[Len(rows) + 1] = row
      BY <1>2, <2>2, RowsAppend
    <3>2. row.at = next
      BY <1>3, <2>2 DEF RowOf
    <3>3. \A n \in DOMAIN rows' : n \in DOMAIN rows \/ n = Len(rows) + 1
      BY <1>9, <3>1
    <3>4. DOMAIN rows \subseteq DOMAIN rows' /\ Len(rows) + 1 \in DOMAIN rows'
      BY <1>9, <3>1
    <3>5. ASSUME NEW m \in DOMAIN log,
                 log[m].at < next', IsGps(log[m]), Whole(log[m]), Located(log[m])
          PROVE  \E n \in DOMAIN rows' : rows'[n].at = log[m].at
      <4>1. CASE m = k
        BY <1>3, <3>1, <3>2, <3>4, <4>1
      <4>2. CASE m # k
        <5>1. PICK n \in DOMAIN rows : rows[n].at = log[m].at
          BY <1>17, <3>5, <4>2
        <5> QED
          BY <3>1, <3>4, <5>1
      <4> QED
        BY <4>1, <4>2
    <3>6. ASSUME NEW n \in DOMAIN rows'
          PROVE  /\ rows'[n].at < next'
                 /\ \E m \in DOMAIN log :
                      /\ RowOf(rows'[n], log[m])
                      /\ Whole(log[m]) \/ (n = Len(rows') /\ next' > end)
      <4>1. CASE n \in DOMAIN rows
        BY <1>15, <3>1, <4>1
      <4>2. CASE n = Len(rows) + 1
        <5>1. rows'[n] = row /\ n = Len(rows')
          BY <3>1, <4>2
        <5>2. Whole(log[k]) \/ next' > end
          BY <1>2, <1>8
        <5> QED
          BY <1>7, <2>2, <3>2, <5>1, <5>2
      <4> QED
        BY <3>3, <4>1, <4>2
    <3>7. ASSUME NEW m \in DOMAIN rows', NEW n \in DOMAIN rows', m < n
          PROVE  rows'[m].at < rows'[n].at
      <4>1. m \in DOMAIN rows
        BY <1>9, <3>1, <3>7
      <4>2. CASE n \in DOMAIN rows
        BY <1>18, <3>1, <3>7, <4>1, <4>2
      <4>3. CASE n = Len(rows) + 1
        <5>1. rows[m].at < next
          BY <4>1 DEF ParseInv, ParseFits
        <5> QED
          BY <3>1, <3>2, <4>1, <4>3, <5>1
      <4> QED
        BY <3>3, <4>2, <4>3
    <3> QED
      BY <3>5, <3>6, <3>7
  <2>3. CASE failed'
    <3>1. rows' = rows /\ \A n \in DOMAIN rows : rows[n].at < log[k].at
      BY <1>1, <1>3, <2>3 DEF ParseInv, ParseFits
    <3> QED
      BY <1>15, <1>17, <1>18, <2>3, <3>1
  <2>4. ASSUME ~failed'
        PROVE  \/ rows' = rows /\ ~(IsGps(log[k]) /\ Whole(log[k]) /\ Located(log[k]))
               \/ \E row \in GpsRow : rows' = rows \o <<row>> /\ RowOf(row, log[k])
    <3>1. CASE IsGps(log[k]) /\ Whole(log[k]) /\ Located(log[k])
      <4>1. PICK row \in GpsRow : r.rows = <<row>> /\ RowOf(row, log[k])
        BY <1>4, <3>1
      <4> QED
        BY <1>1, <2>4, <4>1
    <3>2. CASE ~(IsGps(log[k]) /\ Whole(log[k]) /\ Located(log[k]))
      BY <1>10, <3>2
    <3> QED
      BY <3>1, <3>2
  <2> QED
    BY <2>1, <2>2, <2>3, <2>4
<1>22. ParseFits'
  <2>1. end' <= Len(bytes') /\ ~(end' < HeadSize) /\ opened'
    BY <1>1, <1>2, SizesAre
  <2>2. next' > end' \/ \E m \in DOMAIN log' : log'[m].at = next'
    BY <1>1, <1>13
  <2>3. (~more' => next' > end' \/ failed') /\ (failed' => ~more')
    BY <1>1, <1>14
  <2>4. \A m \in DOMAIN log' :
          log'[m].at < next' /\ IsGps(log[m])' /\ Whole(log[m])' /\ Located(log[m])'
            => Found(m)'
    BY <1>1, <1>19, <1>21 DEF Found
  <2>5. \A n \in DOMAIN rows' :
          /\ rows'[n].at < next'
          /\ \E m \in DOMAIN log' :
               /\ RowOf(rows[n], log[m])'
               /\ Whole(log[m])' \/ (n = Len(rows') /\ next' > end')
    <3> TAKE n \in DOMAIN rows'
    <3>1. PICK m \in DOMAIN log : /\ RowOf(rows'[n], log[m])
                                  /\ Whole(log[m]) \/ (n = Len(rows') /\ next' > end)
      BY <1>21
    <3>2. RowOf(rows[n], log[m])' /\ (Whole(log[m])' \/ (n = Len(rows') /\ next' > end'))
      BY <1>1, <1>19, <1>20, <3>1
    <3>3. rows'[n].at < next' /\ m \in DOMAIN log'
      BY <1>1, <1>21
    <3> QED
      BY <3>2, <3>3
  <2>6. \A m, n \in DOMAIN rows' : m < n => rows'[m].at < rows'[n].at
    BY <1>21
  <2> QED
    BY <2>1, <2>2, <2>3, <2>4, <2>5, <2>6 DEF ParseFits
<1> QED
  BY <1>11, <1>12, <1>22 DEF ParseInv

(* The inductive invariant of the parse.                                   *)
LEMMA ParseInvNext == ParseInv /\ [ParseNext]_parseVars => ParseInv'
<1> SUFFICES ASSUME ParseInv, [ParseNext]_parseVars PROVE ParseInv'
  OBVIOUS
<1>1. CASE UNCHANGED parseVars
  BY <1>1
  DEF parseVars, ParseInv, ParseTypeOK, LogFits, ParseFits, Found, Behind, RowOf, IsGps,
      Whole, Located
<1>2. CASE WriteRecord
  BY <1>2, WriteKeeps
<1>3. ASSUME NEW n \in 0 .. Len(bytes), Open(n) PROVE ParseInv'
  BY <1>3, OpenKeeps
<1>4. CASE ReadRecord
  BY <1>4, ReadRecordKeeps
<1> QED
  BY <1>1, <1>2, <1>3, <1>4 DEF ParseNext

(* For logs of any length, with any bytes in their records and cut off     *)
(* anywhere: the rows of the .cosmos file are those of the GPS records     *)
(* that are wholly there, all of them, in order; only a last row can be    *)
(* made up in part (doParseFile, CosmosParser.cpp:86-145).                 *)
THEOREM RowsAlwaysRecords == ParseSpec => []RowsAreRecords
<1>1. ParseInit => ParseInv
  BY ParseInvInit
<1>2. ParseInv /\ [ParseNext]_parseVars => ParseInv'
  BY ParseInvNext
<1>3. ParseInv => RowsAreRecords
  <2> SUFFICES ASSUME ParseInv PROVE RowsAreRecords
    OBVIOUS
  <2>1. end \in Nat /\ next \in Nat /\ rows \in Seq(GpsRow)
    BY DEF ParseInv, ParseTypeOK
  <2>2. Len(rows) \in Nat /\ DOMAIN rows = 1 .. Len(rows)
    BY <2>1, LenProperties
  <2>3. \A n \in DOMAIN rows : \E k \in DOMAIN log :
          RowOf(rows[n], log[k]) /\ (n < Len(rows) => Whole(log[k]))
    BY <2>2 DEF ParseInv, ParseFits
  <2>4. \A m, n \in DOMAIN rows : m < n => rows[m].at < rows[n].at
    BY DEF ParseInv, ParseFits
  <2>5. ASSUME Done, end >= HeadSize, NEW k \in DOMAIN log,
               IsGps(log[k]), Whole(log[k]), Located(log[k])
        PROVE  Found(k)
    <3>1. opened /\ (next > end \/ failed)
      BY <2>5 DEF Done, ParseInv, ParseFits
    <3>2. log[k].at \in Nat /\ Size(log[k].record[1]) \in Nat
      BY LogIs, SizesAre DEF ParseInv
    <3>3. CASE log[k].at < next
      BY <2>5, <3>1, <3>3 DEF ParseInv, ParseFits
    <3>4. CASE ~(log[k].at < next)
      <4>1. failed
        BY <2>1, <2>5, <3>1, <3>2, <3>4 DEF Whole
      <4>2. ASSUME NEW n \in DOMAIN rows PROVE rows[n].at < log[k].at
        <5>1. rows[n].at < next
          BY DEF ParseInv, ParseFits
        <5>2. rows[n] \in GpsRow
          BY <2>1, <2>2, ElementOfSeq
        <5>3. rows[n].at \in Nat
          BY <5>2 DEF GpsRow
        <5> QED
          BY <2>1, <3>2, <3>4, <5>1, <5>3
      <4> QED
        BY <4>1, <4>2 DEF Found
    <3> QED
      BY <3>3, <3>4
  <2> QED
    BY <2>3, <2>4, <2>5 DEF RowsAreRecords, Found
<1> QED
  BY <1>1, <1>2, <1>3, PTL DEF ParseSpec
=============================================================================
