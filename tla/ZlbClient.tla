------------------------------ MODULE ZlbClient ------------------------------
(***************************************************************************)
(* A program that uses one DataBase and one RecordSet of zlb_mysql in any  *)
(* order that its declarations invite: it looks at what Connect returns,   *)
(* and at IsEof before it steps on.  The program of the repository is      *)
(* AutoUpdate.                                                             *)
(***************************************************************************)
EXTENDS ZlbMysql

CONSTANTS
  Selects,     (* the columns that a SELECT may ask for                    *)
  MaxRows,     (* bound: rows of one answer                                *)
  MaxQueries,  (* bound: SELECTs of one RecordSet                          *)
  MaxJump      (* bound: the argument of Move, either way                  *)

Column == [name : STRING, type : 0 .. 255]

ASSUME ClientAssumption ==
  /\ \A columns \in Selects : columns \in Seq(Column) /\ columns # <<>>
  /\ MaxRows \in Nat /\ MaxQueries \in Nat /\ MaxJump \in Nat
  /\ MaxRows * MaxQueries < Word - 1

VARIABLES
  db, set,
  life,        (* "new", "up", "failed", "down" or "over"                  *)
  asked,       (* the columns of the SELECTs that set has run              *)
  astray       (* history: the last move was a jump in an empty set        *)

clientVars == <<db, set, life, asked, astray>>

ClientInit ==
  /\ db = NewDataBase /\ set = NewRecordSet
  /\ life = "new" /\ asked = <<>> /\ astray = FALSE

(* At any time, also again: the connection that m_Data named is then lost. *)
ClientConnect ==
  /\ life # "over"
  /\ db' \in Connect(db)
  /\ life' = IF db'.handle = "open" THEN "up" ELSE "failed"
  /\ UNCHANGED <<set, asked, astray>>

(* The server's answer: each value says where it comes from.               *)
Answer(columns, n) ==
  [r \in 1 .. n |-> [k \in 1 .. Len(columns) |-> <<Len(asked) + 1, r, k>>]]

(* ExecuteSQL with a result: it is stored and freed before it returns.     *)
ClientSelect ==
  /\ life = "up" /\ Len(asked) < MaxQueries
  /\ \E q \in Query(db, TRUE), columns \in Selects, n \in 0 .. MaxRows :
       IF q[2]
       THEN /\ db' = [q[1] EXCEPT !.pending = FALSE]
            /\ set' = ExecuteSelect(set, columns, Answer(columns, n))
            /\ asked' = Append(asked, columns)
       ELSE /\ db' = q[1]
            /\ UNCHANGED <<set, asked>>
  /\ UNCHANGED <<life, astray>>

ClientExecute ==
  /\ life = "up"
  /\ \E select \in BOOLEAN : \E q \in ExecQuery(db, select) : db' = q[1]
  /\ UNCHANGED <<set, life, asked, astray>>

(* The rows are there: the client asks for a count or the time. *)
ClientSingleValue ==
  /\ life = "up"
  /\ db' \in ExecQueryGetSingValue(db, 1)
  /\ UNCHANGED <<set, life, asked, astray>>

ClientStep ==
  /\ life # "over"
  /\ \/ set' = MoveFirst(set)
     \/ ~IsEof(set) /\ set' = MoveNext(set)
  /\ astray' = FALSE
  /\ UNCHANGED <<db, life, asked>>

(* A jump is tried on an empty set as well.                                *)
ClientJump ==
  /\ life # "over"
  /\ set' = MoveLast(set) \/ \E n \in -MaxJump .. MaxJump : set' = Move(set, n)
  /\ astray' = (set.rows = <<>>)
  /\ UNCHANGED <<db, life, asked>>

ClientDisConnect ==
  /\ life = "up"
  /\ db' = DisConnect(db)
  /\ life' = "down"
  /\ UNCHANGED <<set, asked, astray>>

(* The objects go out of scope. *)
ClientEnd ==
  /\ life # "over"
  /\ db' = Destroy(db)
  /\ life' = "over"
  /\ UNCHANGED <<set, asked, astray>>

ClientNext ==
  \/ ClientConnect \/ ClientSelect \/ ClientExecute \/ ClientSingleValue
  \/ ClientStep \/ ClientJump \/ ClientDisConnect \/ ClientEnd

ClientSpec == ClientInit /\ [][ClientNext]_clientVars

-----------------------------------------------------------------------------
(* The cursor stays on a record or at the end, also when Move steps back   *)
(* over the start (it then lands on the last record, not on the first).    *)
(* After a jump in an empty set, and only then, it is at the largest       *)
(* unsigned number: size() - 1 wraps (zlb_mysql.cpp:257-259, 277-279), and *)
(* no IsEof sees that; rows that come later leave it there, and the next   *)
(* move brings it back.  Every index below GetRecordCount names a record,  *)
(* also after several queries (:190-227, :310-320).                        *)
CursorInside ==
  /\ IF astray THEN set.pos = Word - 1 ELSE set.pos <= Len(set.rows)
  /\ set.count <= Len(set.rows)
  /\ set.count = -1 <=> asked = <<>>

(* What GetFieldValue and GetFieldType find by name is the value and the   *)
(* type of that column, as long as the row comes from a query for the same *)
(* columns, all named differently, as the first query of the set: others   *)
(* in between only add fields behind (zlb_mysql.cpp:102-111, :203-207,     *)
(* :299-303).  In a row of any other query a name can find the wrong       *)
(* column, or none.                                                        *)
NamesFindValues ==
  LET list == asked[1]
      From(r) == set.rows[r][1][1]
  IN  asked # <<>> /\ (\A j, k \in DOMAIN list : list[j].name = list[k].name => j = k) =>
        \A k \in DOMAIN list :
          /\ GetFieldType(set, list[k].name) = list[k].type
          /\ \A r \in DOMAIN set.rows :
               asked[From(r)] = list =>
                 GetFieldValue(set, r, list[k].name) = set.rows[r][k]
=============================================================================
