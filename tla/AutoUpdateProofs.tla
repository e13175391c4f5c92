--------------------------- MODULE AutoUpdateProofs ---------------------------
(***************************************************************************)
(* AutoUpdate for every set of requests, every table and every number of   *)
(* seconds.                                                                *)
(***************************************************************************)
EXTENDS AutoUpdate, SequenceTheorems, TLAPS

-----------------------------------------------------------------------------
(* The questions.                                                          *)

(* Each question belongs to one place of _tmain, the timer to the first    *)
(* one, and nothing is shut down before the second one is put.             *)
AskFits ==
  /\ timer \in Int
  /\ box = "first" <=> pc = "ask"
  /\ box = "second" <=> pc = "asked"
  /\ timer # -1 => box = "first"
  /\ shutdown # "none" => pc \in {"asked", "end", "crashed"}
  /\ pc = "end" /\ shutdown # "none" => byUser

(* At the start no question has been asked.                                *)
LEMMA AskInit == AutoInit => AskFits
  BY DEF AutoInit, AskFits

(* Each action keeps what AskFits ties together: question and timer.       *)
LEMMA AskNext == AskFits /\ [AutoNext]_autoVars => AskFits'
<1> SUFFICES ASSUME AskFits, [AutoNext]_autoVars PROVE AskFits'
  OBVIOUS
<1> USE AutoAssumption DEF AskFits, askVars, outVars, dataVars
<1>1. CASE Start
  BY <1>1 DEF Start
<1>2. CASE AddConnection \/ ConnectDb \/ Copy \/ Run
  BY <1>2 DEF AddConnection, ConnectDb, Copy, Run
<1>3. CASE SelectMachine \/ SelectBuild
  <2>1. /\ UNCHANGED <<askVars, outVars>> /\ pc \in {"machine", "build"}
        /\ pc' \in {"build", "copy", "crashed"}
    BY <1>3 DEF SelectMachine, SelectBuild, Select
  <2> QED
    BY <2>1
<1>4. CASE Delete
  <2>1. /\ UNCHANGED <<askVars, outVars>> /\ pc = "delete" /\ pc' \in {"run", "crashed"}
    BY <1>4 DEF Delete
  <2> QED
    BY <2>1
<1>5. CASE Shutdown
  BY <1>5 DEF Shutdown
<1>6. CASE Answer \/ TimerProc
  BY <1>6 DEF Answer, TimerProc
<1>7. CASE AnswerShutdown
  <2>1. /\ box = "second" /\ box' = "none" /\ byUser' /\ timer' = timer
        /\ pc' \in {"end", "crashed"}
    BY <1>7 DEF AnswerShutdown
  <2> QED
    BY <2>1
<1>8. CASE WriteTable \/ UNCHANGED autoVars
  BY <1>8 DEF WriteTable, autoVars
<1> QED
  BY <1>1, <1>2, <1>3, <1>4, <1>5, <1>6, <1>7, <1>8 DEF AutoNext, Tmain

(* The timer of the first question never takes the second one down: once a *)
(* shutdown is due, the program ends only by its user's answer.            *)
THEOREM SecondQuestion == AutoSpec => []SecondQuestionStays
<1>1. AskFits => SecondQuestionStays
  BY DEF AskFits, SecondQuestionStays
<1> QED
  BY <1>1, AskInit, AskNext, PTL DEF AutoSpec

-----------------------------------------------------------------------------
(* The image.                                                              *)

Asking == {"start", "ask", "net", "connect", "machine"}

(* A column of a table, as rows of one value.                              *)
Col(rows, k) == [r \in DOMAIN rows |-> <<rows[r][k]>>]

(* The two record sets are the columns of the rows that were found, and    *)
(* empty for a query that was not run or failed.                           *)
SetsFit ==
  /\ found \in Seq(Seq(Requests)) /\ Len(found) = 2
  /\ rs.rows = Col(found[1], 1)
  /\ rs1.rows = Col(found[2], 2)
  /\ rs1.count = -1 => found[2] = <<>>
  /\ pc \in Asking => rs = NewRecordSet
  /\ pc \in Asking \cup {"build"} => rs1 = NewRecordSet

(* What was copied is what the two sets name, until it is run.             *)
ImageFits ==
  /\ pc \in Asking \cup {"build", "copy"} => ~copied
  /\ pc \in Asking \cup {"build", "copy", "delete", "run"} => ran = NoImage
  /\ copied => disk \in Source(rs, rs1)
  /\ ran # NoImage => ran = disk

AutoInv == table \in Seq(Requests) /\ SetsFit /\ ImageFits

(* The tables of a run hold requests and nothing else.                     *)
LEMMA RowsAreSeqs == Rows \subseteq Seq(Requests)
  BY AutoAssumption DEF Rows

(* A column has as many entries as the table has rows.                     *)
LEMMA ColumnOf ==
  ASSUME NEW rows \in Seq(Requests), NEW k
  PROVE  <<>> \o Col(rows, k) = Col(rows, k) /\ Len(Col(rows, k)) = Len(rows)
         /\ (rows = <<>> => Col(rows, k) = <<>>)
<1> DEFINE col == [r \in DOMAIN rows |-> <<rows[r][k]>>]
           Vals == {<<rows[r][k]>> : r \in DOMAIN rows}
<1>1. DOMAIN rows = 1 .. Len(rows) /\ Len(rows) \in Nat
  OBVIOUS
<1>2. col \in [1 .. Len(rows) -> Vals]
  BY <1>1
<1> HIDE DEF Vals
<1>3. col \in Seq(Vals) /\ Len(col) = Len(rows)
  BY <1>1, <1>2
<1> HIDE DEF col
<1>4. <<>> \o col = col /\ (Len(col) = 0 => col = <<>>)
  BY <1>3
<1>5. rows = <<>> => Len(rows) = 0
  OBVIOUS
<1> QED
  BY <1>3, <1>4, <1>5 DEF col, Col

(* At the start no record set holds anything and no image is there.        *)
LEMMA AutoInvInit == AutoInit => AutoInv
<1> SUFFICES ASSUME AutoInit PROVE AutoInv
  OBVIOUS
<1>1. /\ found = <<<<>>, <<>>>> /\ rs = NewRecordSet /\ rs1 = NewRecordSet
      /\ pc = "start" /\ copied = FALSE /\ ran = NoImage /\ table \in Seq(Requests)
  BY RowsAreSeqs DEF AutoInit
<1>2. <<>> \in Seq(Requests)
  OBVIOUS
<1>3. found \in Seq(Seq(Requests)) /\ Len(found) = 2 /\ found[1] = <<>> /\ found[2] = <<>>
  BY <1>1, <1>2
<1>4. \A k : Col(<<>>, k) = <<>>
  BY <1>2, ColumnOf
<1>5. SetsFit
  BY <1>1, <1>3, <1>4 DEF SetsFit, NewRecordSet
<1>6. ImageFits
  BY <1>1 DEF ImageFits
<1> QED
  BY <1>1, <1>5, <1>6 DEF AutoInv

(* A query fills one of the two record sets and leaves the other.          *)
LEMMA OneFound ==
  ASSUME NEW s \in Seq(Seq(Requests)), Len(s) = 2, NEW k \in {1, 2}, NEW e \in Seq(Requests)
  PROVE  LET t == [s EXCEPT ![k] = e]
         IN  t \in Seq(Seq(Requests)) /\ Len(t) = 2 /\ t[k] = e /\ t[3 - k] = s[3 - k]
<1> DEFINE S == Seq(Requests)
           t == [s EXCEPT ![k] = e]
<1>1. s \in Seq(S) /\ e \in S /\ Len(s) = 2
  OBVIOUS
<1> HIDE DEF S
<1>2. s \in [1 .. 2 -> S]
  <2>1. \A q \in Seq(S) : q \in [1 .. Len(q) -> S]
    BY LenProperties
  <2> QED
    BY <1>1, <2>1
<1>3. t \in [1 .. 2 -> S]
  BY <1>1, <1>2
<1>4. t[k] = e /\ t[3 - k] = s[3 - k]
  BY <1>2
<1> HIDE DEF t
<1>5. t \in Seq(S) /\ Len(t) = 2
  <2>1. \A n \in Nat : \A q \in [1 .. n -> S] : q \in Seq(S) /\ Len(q) = n
    OBVIOUS
  <2> QED
    BY <1>3, <2>1
<1> QED
  BY <1>4, <1>5 DEF t, S

(* A query of one column into a set that was empty.                        *)
LEMMA OneColumn ==
  ASSUME NEW rows \in Seq(Requests), NEW k, NEW columns
  PROVE  LET set == ExecuteSelect(NewRecordSet, columns, Col(rows, k))
         IN  set.rows = Col(rows, k) /\ set.count # -1
<1> DEFINE set == ExecuteSelect(NewRecordSet, columns, Col(rows, k))
<1>1. <<>> \o Col(rows, k) = Col(rows, k) /\ Len(Col(rows, k)) \in Nat
  BY ColumnOf
<1>2. NewRecordSet.rows = <<>>
  BY DEF NewRecordSet
<1>3. DOMAIN NewRecordSet = {"fields", "rows", "count", "pos"}
  BY DEF NewRecordSet
<1>4. set.rows = <<>> \o Col(rows, k) /\ set.count = Len(Col(rows, k))
  BY <1>2, <1>3 DEF ExecuteSelect
<1> QED
  BY <1>1, <1>4

(* Of what the invariant speaks of, the other steps change pc alone.       *)
LEMMA SameSets ==
  ASSUME AutoInv, UNCHANGED <<table, rs, rs1, found, disk, copied, ran>>,
         pc' \in Asking => pc \in Asking,
         pc' \in Asking \cup {"build"} => pc \in Asking \cup {"build"},
         pc' \in Asking \cup {"build", "copy"} => pc \in Asking \cup {"build", "copy"},
         pc' \in Asking \cup {"build", "copy", "delete", "run"}
           => pc \in Asking \cup {"build", "copy", "delete", "run"}
  PROVE  AutoInv'
  BY DEF AutoInv, SetsFit, ImageFits, Source

(* Each action keeps table, record sets and image in agreement.            *)
LEMMA AutoInvNext == AutoInv /\ AskFits /\ [AutoNext]_autoVars => AutoInv'
<1> SUFFICES ASSUME AutoInv, AskFits, [AutoNext]_autoVars PROVE AutoInv'
  OBVIOUS
<1> USE DEF outVars, dataVars
<1>0. table \in Seq(Requests) /\ SetsFit /\ ImageFits
  BY DEF AutoInv
<1>1. CASE SelectMachine
  <2>1. /\ pc = "machine" /\ pc' \in {"build", "copy", "crashed"} \ {"copy"}
        /\ UNCHANGED <<table, disk, copied, ran, rs1>>
        /\ \/ /\ found' = [found EXCEPT ![1] = table]
              /\ \E columns : rs' = ExecuteSelect(rs, columns, Col(table, 1))
           \/ UNCHANGED <<found, rs>>
    BY <1>1 DEF SelectMachine, Select, Col
  <2>2. rs = NewRecordSet /\ rs1 = NewRecordSet /\ ~copied /\ ran = NoImage
    BY <1>0, <2>1 DEF SetsFit, ImageFits, Asking
  <2>3. ImageFits'
    BY <2>1, <2>2 DEF ImageFits
  <2>4. CASE UNCHANGED <<found, rs>>
    BY <1>0, <2>1, <2>2, <2>3, <2>4 DEF AutoInv, SetsFit, Asking
  <2>5. CASE /\ found' = [found EXCEPT ![1] = table]
             /\ rs'.rows = Col(table, 1)
    <3>1. /\ found' \in Seq(Seq(Requests)) /\ Len(found') = 2
          /\ found'[1] = table /\ found'[2] = found[2]
      BY <1>0, <2>5, OneFound DEF SetsFit
    <3>2. SetsFit'
      BY <1>0, <2>1, <2>2, <2>5, <3>1 DEF SetsFit, Asking
    <3> QED
      BY <1>0, <2>1, <2>3, <3>2 DEF AutoInv
  <2>6. \A columns :
          rs' = ExecuteSelect(rs, columns, Col(table, 1))
            => rs'.rows = Col(table, 1)
    BY <1>0, <2>2, OneColumn
  <2> QED
    BY <2>1, <2>4, <2>5, <2>6
<1>2. CASE SelectBuild
  <2>1. /\ pc = "build" /\ pc' \in {"copy", "crashed"}
        /\ UNCHANGED <<table, disk, copied, ran, rs>>
        /\ \/ /\ found' = [found EXCEPT ![2] = table]
              /\ \E columns : rs1' = ExecuteSelect(rs1, columns, Col(table, 2))
           \/ UNCHANGED <<found, rs1>>
    BY <1>2 DEF SelectBuild, Select, Col
  <2>2. rs1 = NewRecordSet /\ ~copied /\ ran = NoImage
    BY <1>0, <2>1 DEF SetsFit, ImageFits
  <2>3. ImageFits'
    BY <2>1, <2>2 DEF ImageFits
  <2>4. CASE UNCHANGED <<found, rs1>>
    BY <1>0, <2>1, <2>2, <2>3, <2>4 DEF AutoInv, SetsFit, Asking
  <2>5. CASE /\ found' = [found EXCEPT ![2] = table] /\ rs1'.count # -1
             /\ rs1'.rows = Col(table, 2)
    <3>1. /\ found' \in Seq(Seq(Requests)) /\ Len(found') = 2
          /\ found'[2] = table /\ found'[1] = found[1]
      BY <1>0, <2>5, OneFound DEF SetsFit
    <3>2. SetsFit'
      BY <1>0, <2>1, <2>2, <2>5, <3>1 DEF SetsFit, Asking
    <3> QED
      BY <1>0, <2>1, <2>3, <3>2 DEF AutoInv
  <2>6. \A columns :
          rs1' = ExecuteSelect(rs1, columns, Col(table, 2))
            => rs1'.count # -1 /\ rs1'.rows = Col(table, 2)
    BY <1>0, <2>2, OneColumn
  <2> QED
    BY <2>1, <2>4, <2>5, <2>6
<1>3. CASE Copy
  <2>1. /\ pc = "copy" /\ pc' = "delete" /\ UNCHANGED <<table, rs, rs1, found, ran>>
        /\ (disk' \in Source(rs, rs1) /\ copied') \/ UNCHANGED <<disk, copied>>
    BY <1>3 DEF Copy
  <2>2. ran = NoImage
    BY <1>0, <2>1 DEF ImageFits
  <2>3. SetsFit' /\ Source(rs, rs1)' = Source(rs, rs1)
    BY <1>0, <2>1 DEF SetsFit, Asking, Source
  <2> QED
    BY <1>0, <2>1, <2>2, <2>3 DEF AutoInv, ImageFits, Asking
<1>4. CASE Run
  <2>1. /\ pc = "run" /\ pc' = "shutdown" /\ UNCHANGED <<table, rs, rs1, found, disk, copied>>
        /\ ran' = disk
    BY <1>4 DEF Run
  <2> QED
    BY <1>0, <2>1 DEF AutoInv, SetsFit, ImageFits, Asking, Source
<1>5. CASE Delete
  <2>1. /\ UNCHANGED <<rs, rs1, found, disk, copied, ran>> /\ pc = "delete"
        /\ pc' \in {"run", "crashed"} /\ table' \in {<<>>, table}
    BY <1>5 DEF Delete
  <2>2. table' \in Seq(Requests)
    <3>1. <<>> \in Seq(Requests)
      OBVIOUS
    <3> QED
      BY <1>0, <2>1, <3>1
  <2> QED
    BY <1>0, <2>1, <2>2 DEF AutoInv, SetsFit, ImageFits, Asking, Source
<1>6. CASE WriteTable
  <2>1. /\ UNCHANGED <<pc, rs, rs1, found, disk, copied, ran>> /\ table' \in Seq(Requests)
    BY <1>6, RowsAreSeqs DEF WriteTable
  <2> QED
    BY <1>0, <2>1 DEF AutoInv, SetsFit, ImageFits, Source
<1>7. CASE Start \/ AddConnection \/ ConnectDb
  <2>1. /\ UNCHANGED <<table, rs, rs1, found, disk, copied, ran>>
        /\ pc \in {"start", "net", "connect"}
    BY <1>7 DEF Start, AddConnection, ConnectDb
  <2> QED
    BY <2>1, SameSets DEF Asking
<1>8. CASE Answer \/ TimerProc
  <2>1. /\ UNCHANGED <<table, rs, rs1, found, disk, copied, ran>>
        /\ pc' = pc \/ pc' = "end" \/ pc \in Asking
    BY <1>8 DEF Answer, TimerProc, AskFits, Asking
  <2> QED
    BY <2>1, SameSets DEF Asking
<1>9. CASE Shutdown \/ AnswerShutdown
  <2>1. /\ UNCHANGED <<table, rs, rs1, found, disk, copied, ran>>
        /\ pc' \in {"asked", "end", "crashed"}
    BY <1>9 DEF Shutdown, AnswerShutdown
  <2> QED
    BY <2>1, SameSets DEF Asking
<1>10. CASE UNCHANGED autoVars
  BY <1>10, SameSets DEF autoVars
<1> QED
  BY <1>1, <1>2, <1>3, <1>4, <1>5, <1>6, <1>7, <1>8, <1>9, <1>10 DEF AutoNext, Tmain

(* A copy that worked is the image of the only row that the first query    *)
(* found, and of its build when the second query found the same rows.      *)
THEOREM InstallsWhatWasAsked == AutoSpec => []RunsWhatWasAsked
<1>1. AutoInv => RunsWhatWasAsked
  <2> SUFFICES ASSUME AutoInv, copied, ran # NoImage PROVE RunsWhatWasAsked
    BY DEF RunsWhatWasAsked
  <2>1. SetsFit /\ ran \in Source(rs, rs1)
    BY DEF AutoInv, ImageFits
  <2>2. /\ ran \in Requests /\ Machine(rs) = <<ran[1]>> /\ Build(rs1) = ran[2]
        /\ ran = <<ran[1], ran[2]>>
    BY <2>1, AutoAssumption DEF Source
  <2>3. /\ found[1] \in Seq(Requests) /\ found[2] \in Seq(Requests)
        /\ rs.rows = [r \in DOMAIN found[1] |-> <<found[1][r][1]>>]
        /\ rs1.rows = [r \in DOMAIN found[2] |-> <<found[2][r][2]>>]
    BY <2>1 DEF SetsFit, Col
  <2>4. Len(found[1]) = 1 /\ ran[1] = found[1][1][1]
    <3>1. DOMAIN rs.rows = DOMAIN found[1]
      BY <2>3
    <3>2. DOMAIN Machine(rs) = DOMAIN found[1]
      BY <3>1 DEF Machine
    <3>3. DOMAIN found[1] = {1}
      BY <2>2, <3>2
    <3>4. Machine(rs)[1] = ran[1] /\ rs.rows[1][1] = found[1][1][1]
      BY <2>2, <2>3, <3>3
    <3>5. Machine(rs)[1] = rs.rows[1][1]
      BY <3>1, <3>3 DEF Machine
    <3> QED
      BY <2>3, <3>3, <3>4, <3>5
  <2>5. Len(rs1.rows) = Len(found[2])
    BY <2>1, <2>3, ColumnOf DEF SetsFit
  <2>6. ASSUME rs1.count = -1 PROVE ran[2] = "Debug"
    <3>1. Len(rs1.rows) = 0
      BY <2>1, <2>5, <2>6 DEF SetsFit
    <3> QED
      BY <2>2, <3>1 DEF Build
  <2>7. ASSUME found[2] = found[1] PROVE ran = found[1][1]
    <3>1. Build(rs1) = rs1.rows[1][1]
      BY <2>4, <2>5, <2>7 DEF Build
    <3>2. rs1.rows[1][1] = found[1][1][2]
      BY <2>3, <2>4, <2>7
    <3>3. found[1][1] \in Requests
      BY <2>3, <2>4
    <3>4. found[1][1] = <<found[1][1][1], found[1][1][2]>>
      BY <3>3, AutoAssumption
    <3> QED
      BY <2>2, <2>4, <3>1, <3>2, <3>4
  <2> QED
    BY <2>4, <2>6, <2>7 DEF RunsWhatWasAsked
<1>2. AutoInv /\ AskFits /\ [AutoNext]_autoVars => (AutoInv /\ AskFits)'
  BY AutoInvNext, AskNext
<1> QED
  BY <1>1, <1>2, AutoInvInit, AskInit, PTL DEF AutoSpec

-----------------------------------------------------------------------------
(* The values of _tmain's variables keep their types: the timer counts     *)
(* from 600 to 0 and no further, and what is on the disk or runs is an     *)
(* image of a request or what was there before.                            *)
THEOREM AutoTypes == AutoSpec => []AutoTypeOK
<1>1. AutoInit => AutoTypeOK
  BY AutoAssumption DEF AutoInit, AutoTypeOK
<1>2. AutoTypeOK /\ [AutoNext]_autoVars => AutoTypeOK'
  <2> SUFFICES ASSUME AutoTypeOK, [AutoNext]_autoVars PROVE AutoTypeOK'
    OBVIOUS
  <2> USE AutoAssumption DEF AutoTypeOK, askVars, dataVars, outVars
  <2>1. CASE Start \/ AddConnection \/ ConnectDb
    BY <2>1 DEF Start, AddConnection, ConnectDb
  <2>2. CASE SelectMachine \/ SelectBuild
    <3>1. /\ UNCHANGED <<askVars, table, outVars>>
          /\ pc' \in {"build", "copy", "crashed"}
      BY <2>2 DEF SelectMachine, SelectBuild, Select
    <3> QED
      BY <3>1
  <2>3. CASE Copy
    BY <2>3 DEF Copy, Source
  <2>4. CASE Delete
    <3>1. <<>> \in Rows
      <4>1. <<>> \in [1 .. 0 -> Requests]
        OBVIOUS
      <4> QED
        BY <4>1 DEF Rows
    <3> QED
      BY <2>4, <3>1 DEF Delete
  <2>5. CASE Run \/ Shutdown \/ AnswerShutdown
    BY <2>5 DEF Run, Shutdown, AnswerShutdown
  <2>6. CASE Answer \/ TimerProc
    BY <2>6 DEF Answer, TimerProc
  <2>7. CASE WriteTable \/ UNCHANGED autoVars
    BY <2>7 DEF WriteTable, autoVars
  <2> QED
    BY <2>1, <2>2, <2>3, <2>4, <2>5, <2>6, <2>7 DEF AutoNext, Tmain
<1> QED
  BY <1>1, <1>2, PTL DEF AutoSpec
=============================================================================
