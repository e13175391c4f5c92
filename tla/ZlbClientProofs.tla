---------------------------- MODULE ZlbClientProofs ----------------------------
(***************************************************************************)
(* ZlbClient for every range of the unsigned numbers, every number of rows *)
(* and queries and every jump.                                             *)
(***************************************************************************)
EXTENDS ZlbClient, SequenceTheorems, TLAPS

-----------------------------------------------------------------------------
(* The cursor.                                                             *)

(* Arithmetic: remainders, and products of queries and rows.               *)
LEMMA ModSmall ==
  ASSUME NEW a \in Nat, NEW w \in Nat \ {0}, a < w PROVE a % w = a
  OBVIOUS

(* A remainder is a natural number.                                        *)
LEMMA ModRange ==
  ASSUME NEW a \in Int, NEW w \in Nat \ {0} PROVE a % w \in Nat
  OBVIOUS

(* size() - 1: the last row, and the largest number when there is none.    *)
LEMMA LastIndex ==
  ASSUME NEW w \in Nat \ {0}
  PROVE  /\ \A n \in 1 .. w : (n + w - 1) % w = n - 1
         /\ (0 + w - 1) % w = w - 1
<1>1. \A n \in 1 .. w : (n + w - 1) % w = n - 1
  OBVIOUS
<1>2. (0 + w - 1) % w = w - 1
  OBVIOUS
<1> QED
  BY <1>1, <1>2

(* One more query, one more answer.                                        *)
LEMMA MoreRows ==
  ASSUME NEW q \in Nat, NEW m \in Nat, NEW r \in Nat
  PROVE  /\ q * r \in Nat /\ (q + 1) * r = q * r + r
         /\ q <= m => q * r <= m * r
  OBVIOUS

Rows == Seq(Nat \X Nat \X Nat)

(* A query adds at most MaxRows rows.                                      *)
LEMMA RowsGrow ==
  ASSUME NEW l \in Nat, NEW q \in Nat, NEW r \in Nat, NEW n \in 0 .. r, l <= q * r
  PROVE  l + n <= (q + 1) * r
<1>1. q * r \in Nat /\ (q + 1) * r = q * r + r
  BY MoreRows
<1> QED
  BY <1>1

(* Multiplication commutes.                                                *)
LEMMA TimesCommutes ==
  ASSUME NEW a \in Nat, NEW b \in Nat PROVE a * b = b * a
  OBVIOUS

RecordSets == [fields : Seq(Column), rows : Seq(Rows), count : Int, pos : Nat]

CursorInv ==
  /\ set \in RecordSets
  /\ asked \in Seq(Selects)
  /\ Len(asked) <= MaxQueries
  /\ Len(set.rows) <= Len(asked) * MaxRows
  /\ astray \in BOOLEAN
  /\ CursorInside

(* The number of rows stays within what an index can count. *)
LEMMA RowsFit == CursorInv => Len(set.rows) \in Nat /\ Len(set.rows) + 1 < Word
<1> SUFFICES ASSUME CursorInv PROVE Len(set.rows) \in Nat /\ Len(set.rows) + 1 < Word
  OBVIOUS
<1>1. Len(set.rows) \in Nat /\ Len(asked) \in Nat /\ Len(asked) <= MaxQueries
  BY DEF CursorInv, RecordSets
<1>2. MaxRows \in Nat /\ MaxQueries \in Nat /\ Word \in Nat
  BY ClientAssumption, ZlbAssumption
<1>3. Len(asked) * MaxRows <= MaxQueries * MaxRows /\ Len(asked) * MaxRows \in Nat
  <2> HIDE DEF CursorInv
  <2> QED
    BY <1>1, <1>2, MoreRows
<1>4. MaxQueries * MaxRows = MaxRows * MaxQueries
  BY <1>2, TimesCommutes
<1>5. MaxRows * MaxQueries < Word - 1 /\ MaxRows * MaxQueries \in Nat
  BY <1>2, <1>4, MoreRows, ClientAssumption
<1>6. Len(set.rows) <= Len(asked) * MaxRows
  BY DEF CursorInv
<1> QED
  BY <1>1, <1>2, <1>3, <1>4, <1>5, <1>6

(* At the start the record set is empty.                                   *)
LEMMA CursorInit == ClientInit => CursorInv
<1> SUFFICES ASSUME ClientInit PROVE CursorInv
  OBVIOUS
<1>1. set = [fields |-> <<>>, rows |-> <<>>, count |-> -1, pos |-> 0] /\ set \in RecordSets
  BY DEF ClientInit, RecordSets, NewRecordSet
<1>2. asked = <<>> /\ asked \in Seq(Selects) /\ astray = FALSE
  BY DEF ClientInit
<1>3. Len(set.rows) = 0 /\ Len(asked) = 0
  BY <1>1, <1>2
<1>4. Len(set.rows) <= Len(asked) * MaxRows /\ Len(asked) <= MaxQueries
  <2>1. 0 * MaxRows = 0 /\ 0 <= MaxQueries
    BY ClientAssumption
  <2> QED
    BY <1>3, <2>1
<1>5. CursorInside
  BY <1>1, <1>2, <1>3 DEF CursorInside
<1> QED
  BY <1>1, <1>2, <1>4, <1>5 DEF CursorInv

(* Every query, and every move of the cursor, keeps it inside.             *)
LEMMA CursorNext == CursorInv /\ [ClientNext]_clientVars => CursorInv'
<1> SUFFICES ASSUME CursorInv, [ClientNext]_clientVars PROVE CursorInv'
  OBVIOUS
<1>1. CASE ClientSelect /\ asked' # asked
  <2>1. PICK columns \in Selects, n \in 0 .. MaxRows :
          /\ set' = ExecuteSelect(set, columns, Answer(columns, n))
          /\ asked' = Append(asked, columns) /\ Len(asked) < MaxQueries
    BY <1>1 DEF ClientSelect
  <2> DEFINE new == Answer(columns, n)
  <2>2. new \in Seq(Rows) /\ Len(new) = n
    <3>1. Len(asked) + 1 \in Nat /\ Len(columns) \in Nat /\ n \in Nat
      BY ClientAssumption DEF CursorInv
    <3>2. ASSUME NEW r \in 1 .. n
          PROVE  [k \in 1 .. Len(columns) |-> <<Len(asked) + 1, r, k>>] \in Rows
      BY <3>1 DEF Rows
    <3> QED
      BY <3>1, <3>2 DEF Answer
  <2> HIDE DEF new
  <2>3. /\ set' \in RecordSets /\ set'.pos = set.pos /\ set'.count = n
        /\ Len(set'.rows) = Len(set.rows) + n
    <3>1. set' = [set EXCEPT !.count = Len(new), !.rows = set.rows \o new,
                             !.fields = set.fields \o columns]
      BY <2>1 DEF ExecuteSelect, new
    <3>2. set \in RecordSets /\ set.rows \in Seq(Rows) /\ set.fields \in Seq(Column)
      BY DEF CursorInv, RecordSets
    <3>3. set.rows \o new \in Seq(Rows) /\ Len(set.rows \o new) = Len(set.rows) + n
      BY <2>2, <3>2, ConcatProperties
    <3>4. columns \in Seq(Column)
      BY ClientAssumption
    <3>5. set.fields \o columns \in Seq(Column)
      BY <3>2, <3>4, ConcatProperties
    <3>6. set' = [fields |-> set.fields \o columns, rows |-> set.rows \o new,
                  count |-> n, pos |-> set.pos]
      BY <2>2, <3>1, <3>2 DEF RecordSets
    <3>7. set' \in RecordSets
      BY <3>2, <3>3, <3>5, <3>6 DEF RecordSets
    <3> QED
      BY <3>3, <3>6, <3>7
  <2>4. /\ asked' \in Seq(Selects) /\ Len(asked') = Len(asked) + 1
        /\ asked' # <<>> /\ Len(asked) \in Nat
    BY <2>1 DEF CursorInv
  <2>5. Len(set'.rows) <= Len(asked') * MaxRows /\ Len(asked') <= MaxQueries
    <3>1. Len(set.rows) <= Len(asked) * MaxRows /\ Len(set.rows) \in Nat
      BY RowsFit DEF CursorInv
    <3>2. n \in Nat /\ MaxRows \in Nat /\ n <= MaxRows
      BY ClientAssumption
    <3>3. Len(set.rows) + n <= (Len(asked) + 1) * MaxRows
      BY <2>4, <3>1, <3>2, RowsGrow
    <3>4. Len(asked) + 1 <= MaxQueries
      BY <2>1, <2>4, ClientAssumption
    <3> QED
      BY <2>3, <2>4, <3>3, <3>4
  <2>6. CursorInside'
    <3>0. astray' = astray
      BY <1>1 DEF ClientSelect
    <3>1. /\ IF astray THEN set.pos = Word - 1 ELSE set.pos <= Len(set.rows)
          /\ set.pos \in Nat /\ Len(set.rows) \in Nat
      BY RowsFit DEF CursorInv, CursorInside, RecordSets
    <3>2. n \in Nat /\ n # -1
      BY ClientAssumption
    <3>3. set'.count <= Len(set'.rows) /\ Len(set.rows) <= Len(set'.rows)
      BY <2>3, <3>1, <3>2
    <3>4. IF astray' THEN set'.pos = Word - 1 ELSE set'.pos <= Len(set'.rows)
      <4>1. CASE astray
        BY <2>3, <3>0, <3>1, <4>1
      <4>2. CASE ~astray
        BY <2>3, <3>0, <3>1, <3>2, <4>2
      <4> QED
        BY <4>1, <4>2
    <3>5. set'.count # -1 /\ asked' # <<>>
      BY <2>3, <2>4, <3>2
    <3> QED
      BY <3>3, <3>4, <3>5 DEF CursorInside
  <2>7. astray' \in BOOLEAN
    BY <1>1 DEF ClientSelect, CursorInv
  <2> QED
    BY <2>3, <2>4, <2>5, <2>6, <2>7 DEF CursorInv
<1>2. CASE ClientStep \/ ClientJump
  <2> DEFINE length == Len(set.rows)
             last   == (length + Word - 1) % Word
  <2>1. /\ length \in Nat /\ length + 1 < Word /\ Word \in Nat \ {0}
        /\ set.pos \in Nat
        /\ IF astray THEN set.pos = Word - 1 ELSE set.pos <= length
    BY RowsFit, ZlbAssumption DEF CursorInv, CursorInside, RecordSets
  <2>2. /\ last \in Nat
        /\ IF set.rows = <<>> THEN last = Word - 1 ELSE last <= length
    <3>1. CASE set.rows = <<>>
      <4>1. (0 + Word - 1) % Word = Word - 1
        BY <2>1, LastIndex
      <4>2. length = 0
        BY <3>1
      <4>3. last = Word - 1
        BY <4>1, <4>2
      <4> HIDE DEF length, last
      <4> QED
        BY <2>1, <3>1, <4>3
    <3>2. CASE set.rows # <<>>
      <4>1. length # 0
        BY <3>2, EmptySeq DEF CursorInv, RecordSets
      <4> HIDE DEF length
      <4>2. length \in 1 .. Word
        BY <2>1, <4>1
      <4>3. last = length - 1
        BY <2>1, <4>2, LastIndex
      <4> HIDE DEF last
      <4> QED
        BY <2>1, <3>2, <4>1, <4>3
    <3> QED
      BY <3>1, <3>2
  <2> HIDE DEF last
  <2>3. PICK p \in Nat : /\ set' = [set EXCEPT !.pos = p]
                         /\ IF astray' THEN p = Word - 1 ELSE p <= length
    <3> DEFINE Lands(p) == /\ set' = [set EXCEPT !.pos = p]
                           /\ IF astray' THEN p = Word - 1 ELSE p <= length
    <3>1. CASE ClientStep /\ set' = MoveFirst(set)
      <4>1. Lands(0)
        BY <2>1, <3>1 DEF ClientStep, MoveFirst
      <4> QED
        BY <4>1
    <3>2. CASE ClientStep /\ ~IsEof(set) /\ set' = MoveNext(set)
      <4>1. CASE astray
        <5>1. (set.pos + 1) % Word = 0
          BY <2>1, <4>1
        <5>2. Lands(0)
          BY <2>1, <3>2, <5>1 DEF ClientStep, MoveNext
        <5> QED
          BY <5>2
      <4>2. CASE ~astray
        <5>1. (set.pos + 1) % Word = set.pos + 1
          BY <2>1, <4>2, ModSmall
        <5>2. set.pos + 1 \in Nat /\ set.pos + 1 <= length
          BY <2>1, <3>2, <4>2 DEF IsEof
        <5>3. Lands(set.pos + 1)
          BY <3>2, <5>1, <5>2 DEF ClientStep, MoveNext
        <5> QED
          BY <5>2, <5>3
      <4> QED
        BY <4>1, <4>2
    <3>3. CASE ClientJump /\ set' = MoveLast(set)
      <4>1. set' = [set EXCEPT !.pos = last] /\ astray' = (set.rows = <<>>)
        BY <3>3 DEF ClientJump, MoveLast, last
      <4>2. Lands(last)
        BY <2>2, <4>1
      <4> QED
        BY <2>2, <4>2
    <3>4. ASSUME ClientJump, NEW n \in -MaxJump .. MaxJump, set' = Move(set, n),
                 set' # MoveLast(set)
          PROVE  \E p \in Nat : Lands(p)
      <4> DEFINE i == set.pos + n
                 l == i % Word
      <4>1. l \in Nat
        <5>1. i \in Int
          BY <2>1, ClientAssumption
        <5> HIDE DEF i
        <5> QED
          BY <2>1, <5>1, ModRange
      <4>2. l < length /\ set' = [set EXCEPT !.pos = l]
        BY <2>1, <3>4, <4>1 DEF Move
      <4>3. set.rows # <<>>
        BY <2>1, <4>1, <4>2
      <4> HIDE DEF l, length
      <4>4. l <= length /\ astray' = FALSE
        <5>1. l <= length
          BY <2>1, <4>1, <4>2
        <5>2. astray' = (set.rows = <<>>)
          BY <3>4 DEF ClientJump
        <5> QED
          BY <4>3, <5>1, <5>2
      <4>5. Lands(l)
        BY <4>2, <4>4
      <4> QED
        BY <4>1, <4>5
    <3> QED
      BY <1>2, <3>1, <3>2, <3>3, <3>4 DEF ClientStep, ClientJump
  <2>4. /\ set' \in RecordSets /\ set'.rows = set.rows /\ set'.count = set.count
        /\ set'.pos = p
    <3> HIDE DEF length
    <3>1. set \in RecordSets
      BY DEF CursorInv
    <3>2. p \in Nat
      BY <2>3
    <3>3. set' = [set EXCEPT !.pos = p]
      BY <2>3
    <3>4. set' = [fields |-> set.fields, rows |-> set.rows, count |-> set.count, pos |-> p]
      BY <3>1, <3>3 DEF RecordSets
    <3> QED
      BY <3>1, <3>2, <3>4 DEF RecordSets
  <2>5. asked' = asked /\ astray' \in BOOLEAN
    BY <1>2 DEF ClientStep, ClientJump
  <2>6. CursorInside'
    BY <2>3, <2>4, <2>5 DEF CursorInv, CursorInside
  <2> QED
    BY <2>4, <2>5, <2>6 DEF CursorInv
<1>3. CASE set' = set /\ asked' = asked /\ astray' = astray
  BY <1>3 DEF CursorInv, CursorInside, RecordSets
<1>4. CASE ClientSelect /\ asked' = asked
  <2>1. ASSUME NEW columns PROVE asked # Append(asked, columns)
    <3>1. Len(Append(asked, columns)) = Len(asked) + 1 /\ Len(asked) \in Nat
      BY DEF CursorInv
    <3> QED
      BY <3>1
  <2>2. set' = set /\ astray' = astray
    BY <1>4, <2>1 DEF ClientSelect
  <2> QED
    BY <1>3, <1>4, <2>2
<1>5. CASE \/ ClientConnect \/ ClientExecute \/ ClientSingleValue
           \/ ClientDisConnect \/ ClientEnd \/ UNCHANGED clientVars
  <2>1. set' = set /\ asked' = asked /\ astray' = astray
    BY <1>5 DEF ClientConnect, ClientExecute, ClientSingleValue, ClientDisConnect,
                ClientEnd, clientVars
  <2> QED
    BY <1>3, <2>1
<1> QED
  BY <1>1, <1>2, <1>4, <1>5 DEF ClientNext

(* Jumps that wrap around below the first record included, the cursor is   *)
(* on a record or at the end unless it was last moved by a jump in an      *)
(* empty set, and then it is at Word - 1 (zlb_mysql.cpp:257-259, 277-279); *)
(* the count of the last query never exceeds the rows of all of them.      *)
THEOREM CursorStaysInside == ClientSpec => []CursorInside
<1>1. CursorInv => CursorInside
  BY DEF CursorInv
<1> QED
  BY <1>1, CursorInit, CursorNext, PTL DEF ClientSpec
-----------------------------------------------------------------------------
(* Looking columns up by name.                                             *)

(* The fields begin with the columns of the first query, and each row has  *)
(* the length of its own query's.                                          *)
NamesFit ==
  /\ asked = <<>> => set.fields = <<>>
  /\ asked # <<>> => /\ Len(asked[1]) <= Len(set.fields)
                     /\ \A k \in DOMAIN asked[1] : set.fields[k] = asked[1][k]
  /\ \A r \in DOMAIN set.rows : \E n \in DOMAIN asked :
       DOMAIN set.rows[r] = DOMAIN asked[n] /\ set.rows[r][1][1] = n

(* What is behind a sequence leaves its elements where they are.           *)
LEMMA Behind ==
  ASSUME NEW S, NEW s \in Seq(S), NEW t \in Seq(S)
  PROVE  /\ s \o t \in Seq(S) /\ DOMAIN (s \o t) = 1 .. Len(s) + Len(t)
         /\ DOMAIN s = 1 .. Len(s) /\ DOMAIN t = 1 .. Len(t)
         /\ Len(s) \in Nat /\ Len(t) \in Nat /\ Len(s \o t) = Len(s) + Len(t)
         /\ \A k \in DOMAIN s : k \in DOMAIN (s \o t) /\ (s \o t)[k] = s[k]
         /\ \A k \in DOMAIN (s \o t) : k \in DOMAIN s \/
              (k - Len(s) \in DOMAIN t /\ (s \o t)[k] = t[k - Len(s)])
<1>1. /\ s \o t \in Seq(S) /\ Len(s \o t) = Len(s) + Len(t)
      /\ DOMAIN (s \o t) = 1 .. Len(s \o t)
      /\ DOMAIN s = 1 .. Len(s) /\ DOMAIN t = 1 .. Len(t) /\ Len(s) \in Nat /\ Len(t) \in Nat
  BY ConcatProperties, LenProperties
<1>2. \A k \in 1 .. Len(s) + Len(t) :
        (s \o t)[k] = IF k <= Len(s) THEN s[k] ELSE t[k - Len(s)]
  BY ConcatProperties
<1> DEFINE a == Len(s)
           b == Len(t)
           c == s \o t
<1> HIDE DEF a, b, c
<1>3. /\ a \in Nat /\ b \in Nat /\ DOMAIN c = 1 .. a + b /\ DOMAIN s = 1 .. a /\ DOMAIN t = 1 .. b
      /\ \A k \in 1 .. a + b : c[k] = IF k <= a THEN s[k] ELSE t[k - a]
  BY <1>1, <1>2 DEF a, b, c
<1>4. \A k \in DOMAIN s : k \in DOMAIN c /\ c[k] = s[k]
  BY <1>3
<1>5. \A k \in DOMAIN c : k \in DOMAIN s \/ (k - a \in DOMAIN t /\ c[k] = t[k - a])
  BY <1>3
<1> QED
  BY <1>1, <1>4, <1>5 DEF a, b, c

(* At the start there are no fields to find.                               *)
LEMMA NamesInit == ClientInit => NamesFit
  BY DEF ClientInit, NamesFit, NewRecordSet

(* A query that was answered.                                              *)
LEMMA NamesSelect ==
  ASSUME CursorInv, NamesFit, NEW columns \in Selects, NEW n \in 0 .. MaxRows,
         set' = ExecuteSelect(set, columns, Answer(columns, n)),
         asked' = Append(asked, columns)
  PROVE  NamesFit'
<1> DEFINE q == Len(asked)
           new == Answer(columns, n)
<1>1. /\ set \in RecordSets /\ set.fields \in Seq(Column) /\ set.rows \in Seq(Rows)
      /\ asked \in Seq(Selects) /\ q \in Nat /\ columns \in Seq(Column) /\ columns # <<>>
  BY ClientAssumption DEF CursorInv, RecordSets
<1>2. Len(columns) \in Nat \ {0} /\ DOMAIN columns = 1 .. Len(columns) /\ 1 \in DOMAIN columns
  BY <1>1, EmptySeq, LenProperties
<1>3. /\ new \in Seq(Rows)
      /\ \A r \in DOMAIN new : DOMAIN new[r] = DOMAIN columns /\ new[r][1][1] = q + 1
  <2>1. n \in Nat
    BY ClientAssumption
  <2>2. new = [r \in 1 .. n |-> [k \in 1 .. Len(columns) |-> <<q + 1, r, k>>]]
    BY DEF Answer
  <2>3. ASSUME NEW r \in 1 .. n
        PROVE  /\ [k \in 1 .. Len(columns) |-> <<q + 1, r, k>>] \in Rows
               /\ new[r] = [k \in 1 .. Len(columns) |-> <<q + 1, r, k>>]
    <3> HIDE DEF q
    <3> QED
      BY <1>1, <1>2, <2>1, <2>2 DEF Rows
  <2> HIDE DEF q, new
  <2>4. new \in Seq(Rows)
    BY <2>1, <2>2, <2>3
  <2>5. DOMAIN new = 1 .. n
    BY <2>2
  <2>6. ASSUME NEW r \in 1 .. n PROVE DOMAIN new[r] = DOMAIN columns /\ new[r][1][1] = q + 1
    <3>1. new[r] = [k \in 1 .. Len(columns) |-> <<q + 1, r, k>>]
      BY <2>3
    <3>2. DOMAIN new[r] = DOMAIN columns /\ new[r][1] = <<q + 1, r, 1>>
      BY <1>2, <3>1
    <3> QED
      BY <3>2
  <2> QED
    BY <2>4, <2>5, <2>6
<1>4. /\ set'.fields = set.fields \o columns /\ set'.rows = set.rows \o new
  <2>1. {"fields", "rows", "count", "pos"} = DOMAIN set
    BY <1>1 DEF RecordSets
  <2> QED
    BY <2>1 DEF ExecuteSelect, new
<1> HIDE DEF new
<1>5. /\ asked' \in Seq(Selects) /\ q + 1 \in DOMAIN asked' /\ asked'[q + 1] = columns
      /\ \A j \in DOMAIN asked : j \in DOMAIN asked' /\ asked'[j] = asked[j]
  BY <1>1
<1>6. asked = <<>> => q = 0
  OBVIOUS
<1>7. asked # <<>> => 1 \in DOMAIN asked
  BY <1>1, EmptySeq, LenProperties
<1> HIDE DEF q
<1>8. asked' # <<>>
  BY <1>5, <1>1, EmptySeq, LenProperties
<1>9. /\ Len(asked'[1]) <= Len(set'.fields)
      /\ \A k \in DOMAIN asked'[1] : set'.fields[k] = asked'[1][k]
  <2>1. CASE asked = <<>>
    <3>1. asked'[1] = columns
      BY <1>5, <1>6, <2>1
    <3>2. set'.fields = columns
      BY <1>1, <1>4, <2>1, ConcatEmptySeq DEF NamesFit
    <3> QED
      BY <1>2, <3>1, <3>2
  <2>2. CASE asked # <<>>
    <3>1. asked'[1] = asked[1] /\ asked[1] \in Seq(Column)
      BY <1>1, <1>5, <1>7, <2>2, ClientAssumption
    <3>2. /\ Len(asked[1]) <= Len(set.fields) /\ DOMAIN asked[1] = 1 .. Len(asked[1])
          /\ Len(asked[1]) \in Nat
          /\ \A k \in DOMAIN asked[1] : set.fields[k] = asked[1][k]
      BY <2>2, <3>1, LenProperties DEF NamesFit
    <3>3. /\ Len(set'.fields) = Len(set.fields) + Len(columns) /\ Len(set.fields) \in Nat
          /\ \A k \in 1 .. Len(set.fields) : set'.fields[k] = set.fields[k]
      BY <1>1, <1>4, Behind
    <3>4. Len(asked[1]) <= Len(set'.fields)
      BY <1>2, <3>2, <3>3
    <3>5. \A k \in DOMAIN asked[1] : set'.fields[k] = asked[1][k]
      BY <3>2, <3>3
    <3> QED
      BY <3>1, <3>4, <3>5
  <2> QED
    BY <2>1, <2>2
<1>10. ASSUME NEW r \in DOMAIN set'.rows
       PROVE  \E m \in DOMAIN asked' :
                DOMAIN set'.rows[r] = DOMAIN asked'[m] /\ set'.rows[r][1][1] = m
  <2>1. CASE r \in DOMAIN set.rows
    <3>1. set'.rows[r] = set.rows[r]
      BY <1>1, <1>3, <1>4, <2>1, Behind
    <3>2. PICK m \in DOMAIN asked :
            DOMAIN set.rows[r] = DOMAIN asked[m] /\ set.rows[r][1][1] = m
      BY <2>1 DEF NamesFit
    <3> QED
      BY <1>5, <3>1, <3>2
  <2>2. CASE r \notin DOMAIN set.rows
    <3>1. r - Len(set.rows) \in DOMAIN new /\ set'.rows[r] = new[r - Len(set.rows)]
      BY <1>1, <1>3, <1>4, <2>2, Behind
    <3> QED
      BY <1>3, <1>5, <3>1
  <2> QED
    BY <2>1, <2>2
<1> QED
  BY <1>8, <1>9, <1>10 DEF NamesFit

(* Every call of the wrapper keeps the names in step with the rows.        *)
LEMMA NamesNext == CursorInv /\ NamesFit /\ [ClientNext]_clientVars => NamesFit'
<1> SUFFICES ASSUME CursorInv, NamesFit, [ClientNext]_clientVars PROVE NamesFit'
  OBVIOUS
<1>1. ASSUME set'.fields = set.fields, set'.rows = set.rows, asked' = asked PROVE NamesFit'
  BY <1>1 DEF NamesFit
<1>2. CASE ClientSelect
  <2>1. CASE set' = set /\ asked' = asked
    BY <1>1, <2>1
  <2>2. ASSUME NEW columns \in Selects, NEW n \in 0 .. MaxRows,
               set' = ExecuteSelect(set, columns, Answer(columns, n)),
               asked' = Append(asked, columns)
        PROVE  NamesFit'
    BY <2>2, NamesSelect
  <2> QED
    BY <1>2, <2>1, <2>2 DEF ClientSelect
<1>3. CASE ClientStep \/ ClientJump
  <2>1. PICK p : set' = [set EXCEPT !.pos = p]
    BY <1>3 DEF ClientStep, ClientJump, MoveFirst, MoveLast, MoveNext, Move
  <2>2. set \in RecordSets /\ asked' = asked
    BY <1>3 DEF CursorInv, ClientStep, ClientJump
  <2>3. set'.fields = set.fields /\ set'.rows = set.rows
    BY <2>1, <2>2 DEF RecordSets
  <2> QED
    BY <1>1, <2>2, <2>3
<1>4. CASE \/ ClientConnect \/ ClientExecute \/ ClientSingleValue
           \/ ClientDisConnect \/ ClientEnd \/ UNCHANGED clientVars
  <2>1. set' = set /\ asked' = asked
    BY <1>4 DEF ClientConnect, ClientExecute, ClientSingleValue, ClientDisConnect,
                ClientEnd, clientVars
  <2> QED
    BY <1>1, <2>1
<1> QED
  BY <1>2, <1>3, <1>4 DEF ClientNext

(* The search from the first field finds column k of the first query.      *)
LEMMA FirstOfName ==
  ASSUME CursorInv, NamesFit, asked # <<>>, NEW k \in DOMAIN asked[1],
         \A i, j \in DOMAIN asked[1] : asked[1][i].name = asked[1][j].name => i = j
  PROVE  GetField_NO(set, asked[1][k].name) = k
<1> DEFINE name == asked[1][k].name
           at == {j \in DOMAIN set.fields : set.fields[j].name = name}
<1>1. /\ DOMAIN asked[1] = 1 .. Len(asked[1]) /\ Len(asked[1]) \in Nat
      /\ DOMAIN set.fields = 1 .. Len(set.fields) /\ Len(set.fields) \in Nat
      /\ Len(asked[1]) <= Len(set.fields)
      /\ \A j \in DOMAIN asked[1] : set.fields[j] = asked[1][j]
  <2>1. asked \in Seq(Selects) /\ set.fields \in Seq(Column)
    BY DEF CursorInv, RecordSets
  <2>2. asked[1] \in Seq(Column)
    BY <2>1, EmptySeq, LenProperties, ClientAssumption
  <2> QED
    BY <2>1, <2>2, LenProperties DEF NamesFit
<1>2. at \subseteq Nat /\ k \in Nat
  BY <1>1
<1>3. k \in at
  BY <1>1
<1>4. ASSUME NEW j \in at PROVE k <= j
  <2>1. CASE j \in DOMAIN asked[1]
    <3>1. asked[1][j].name = name
      BY <1>1, <2>1
    <3> QED
      BY <1>2, <2>1, <3>1
  <2>2. CASE j \notin DOMAIN asked[1]
    BY <1>1, <2>2
  <2> QED
    BY <2>1, <2>2
<1> HIDE DEF at
<1>5. (CHOOSE i \in at : \A j \in at : i <= j) = k
  <2>1. \A i \in at : (\A j \in at : i <= j) => i = k
    BY <1>2, <1>3, <1>4
  <2> QED
    BY <1>3, <1>4, <2>1
<1>6. at # {}
  BY <1>3
<1> QED
  BY <1>5, <1>6 DEF GetField_NO, at

(* However many queries a set has run, a name of the first one finds its   *)
(* column in every row of a query for the same columns.                    *)
THEOREM NamesFound == ClientSpec => []NamesFindValues
<1>1. CursorInv /\ NamesFit => NamesFindValues
  <2> SUFFICES ASSUME CursorInv, NamesFit, asked # <<>>,
                      \A i, j \in DOMAIN asked[1] :
                        asked[1][i].name = asked[1][j].name => i = j,
                      NEW k \in DOMAIN asked[1]
               PROVE  /\ GetFieldType(set, asked[1][k].name) = asked[1][k].type
                      /\ \A r \in DOMAIN set.rows :
                           asked[set.rows[r][1][1]] = asked[1] =>
                             GetFieldValue(set, r, asked[1][k].name) = set.rows[r][k]
    BY DEF NamesFindValues
  <2>1. GetField_NO(set, asked[1][k].name) = k
    BY FirstOfName
  <2>2. GetFieldType(set, asked[1][k].name) = asked[1][k].type
    BY <2>1 DEF GetFieldType, NamesFit
  <2>3. ASSUME NEW r \in DOMAIN set.rows, asked[set.rows[r][1][1]] = asked[1]
        PROVE  GetFieldValue(set, r, asked[1][k].name) = set.rows[r][k]
    <3>1. DOMAIN set.rows[r] = DOMAIN asked[1]
      BY <2>3 DEF NamesFit
    <3> QED
      BY <2>1, <3>1 DEF GetFieldValue
  <2> QED
    BY <2>2, <2>3
<1>2. CursorInv /\ NamesFit /\ [ClientNext]_clientVars => (CursorInv /\ NamesFit)'
  BY CursorNext, NamesNext
<1> QED
  BY <1>1, <1>2, CursorInit, NamesInit, PTL DEF ClientSpec
=============================================================================
