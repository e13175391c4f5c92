------------------------------ MODULE ZlbMysql ------------------------------
(***************************************************************************)
(* zlb_mysql: the wrapper around the MySQL client library, as functions of *)
(* what its objects hold.                                                  *)
(*                                                                         *)
(* A DataBase is [handle, pending]: m_Data is "null", "open", or "freed"   *)
(* when mysql_close has been called and m_Data still points there; pending *)
(* says that the server's answer to a SELECT was not fetched, so that the  *)
(* library refuses the next statement.  "crashed" stands for whatever the  *)
(* program does once the library has used freed or NULL memory.            *)
(*                                                                         *)
(* A RecordSet is [fields, rows, count, pos]: m_field, m_s, m_recordcount  *)
(* (-1: it was never assigned) and pos, an unsigned number modulo Word.  A *)
(* column is [name, type], a row a sequence of values.                     *)
(***************************************************************************)
EXTENDS Naturals, Integers, Sequences

CONSTANT Word     (* 2^32, the range of an unsigned long                   *)

ASSUME ZlbAssumption == Word \in Nat \ {0, 1}

-----------------------------------------------------------------------------
(* DataBase.                                                               *)

NewDataBase == [handle |-> "null", pending |-> FALSE]
Crashed     == [handle |-> "crashed", pending |-> FALSE]

(* The ways Connect can end: 0, or -1 after mysql_init or                  *)
(* mysql_real_connect failed; mysql_select_db is never seen to fail.  The  *)
(* handle of a connect that failed is closed and kept.                     *)
Connect(db) ==
  {[handle |-> "open", pending |-> FALSE],
   [handle |-> "null", pending |-> FALSE],
   [handle |-> "freed", pending |-> FALSE]}

(* mysql_close(NULL) does nothing. *)
Close(db) ==
  CASE db.handle = "open"  -> [handle |-> "freed", pending |-> FALSE]
    [] db.handle = "null"  -> db
    [] OTHER               -> Crashed

DisConnect(db) == Close(db)

(* ~DataBase.                                                              *)
Destroy(db) == IF db.handle = "null" THEN db ELSE Close(db)

(* What mysql_real_query leaves: the server runs the statement or refuses  *)
(* it; on memory that is no connection any more it fails or worse.         *)
Usable(db)  == db.handle = "open" /\ ~db.pending
Query(db, select) ==
  CASE db.handle = "open" /\ db.pending -> {<<db, FALSE>>}
    [] Usable(db) -> {<<[db EXCEPT !.pending = select], TRUE>>, <<db, FALSE>>}
    [] db.handle = "freed" -> {<<db, FALSE>>, <<Crashed, FALSE>>}
    [] OTHER -> {<<Crashed, FALSE>>}

(* ExecQuery, Start_Transaction, Commit, Rollback, Create_db and Drop_db:  *)
(* a statement whose result is not fetched.                                *)
ExecQuery(db, select) == Query(db, select)

(* ExecQueryGetSingValue: the first field of the first row is returned by  *)
(* a pointer into the result that has just been freed; no row is no memory.*)
ExecQueryGetSingValue(db, rows) ==
  {IF q[2] /\ rows = 0 THEN Crashed ELSE [q[1] EXCEPT !.pending = FALSE] :
     q \in {p \in Query(db, TRUE) : p[2]}} \cup
  {q[1] : q \in {p \in Query(db, TRUE) : ~p[2]}}

-----------------------------------------------------------------------------
(* RecordSet.                                                              *)

NewRecordSet == [fields |-> <<>>, rows |-> <<>>, count |-> -1, pos |-> 0]

(* ExecuteSQL(sql, TRUE) when the query succeeds: rows and fields are      *)
(* added to those there are, the count is that of this query alone.        *)
ExecuteSelect(set, columns, rows) ==
  [set EXCEPT !.count = Len(rows), !.rows = @ \o rows, !.fields = @ \o columns]

MoveFirst(set) == [set EXCEPT !.pos = 0]
MoveNext(set)  == [set EXCEPT !.pos = (@ + 1) % Word]
MoveLast(set)  == [set EXCEPT !.pos = (Len(set.rows) + Word - 1) % Word]

(* Mutant: the end of the set is not looked at. *)
MoveAnywhere(set, length) == [set EXCEPT !.pos = (@ + length) % Word]

(* l is unsigned: l < 0 never holds, and a step back over the start counts *)
(* as one beyond the end.                                                  *)
Move(set, length) ==
  LET l == (set.pos + length) % Word
  IN  IF l >= Len(set.rows) THEN MoveLast(set) ELSE [set EXCEPT !.pos = l]

IsEof(set) == set.pos = Len(set.rows)

-----------------------------------------------------------------------------
(* Looking columns up by name.                                             *)

(* Mutant: the search starts at the other end. *)
GetField_NOLast(set, name) ==
  LET at == {k \in DOMAIN set.fields : set.fields[k].name = name}
  IN  IF at = {} THEN 0 ELSE CHOOSE k \in at : \A j \in at : j <= k

(* The first field of that name, counted from 1; 0 when there is none.     *)
GetField_NO(set, name) ==
  LET at == {k \in DOMAIN set.fields : set.fields[k].name = name}
  IN  IF at = {} THEN 0 ELSE CHOOSE k \in at : \A j \in at : k <= j

(* What lies outside a vector.                                             *)
Junk == <<>>

GetFieldValue(set, index, name) ==
  LET k == GetField_NO(set, name)
  IN  IF k \in DOMAIN set.rows[index] THEN set.rows[index][k] ELSE Junk

GetFieldType(set, name) == set.fields[GetField_NO(set, name)].type
=============================================================================
