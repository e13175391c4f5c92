------------------------------ MODULE AutoUpdate ------------------------------
(***************************************************************************)
(* The console program of 0_PC.cxx: outside work hours it asks whether to  *)
(* update the machine, takes silence for a yes, looks up in a table which  *)
(* image to install, copies it from a server, removes the request from the *)
(* table, runs the image and shuts the machine down.  No step looks at the *)
(* outcome of the one before.                                              *)
(*                                                                         *)
(* A request is <<machine, build>>.  The server, the share and the table,  *)
(* which others may write to, are the environment.                         *)
(***************************************************************************)
EXTENDS ZlbMysql, SequencesExt

CONSTANTS
  Requests,     (* what the table can ask for                              *)
  OldImage,     (* what D:\ImageInstall.exe holds before                   *)
  NoImage,
  Ticks,        (* g_index, the seconds the question stays                 *)
  MaxRows       (* bound: rows of the table for this user                  *)

ASSUME AutoAssumption ==
  /\ \A r \in Requests : r = <<r[1], r[2]>>
  /\ OldImage \notin Requests /\ NoImage \notin Requests /\ OldImage # NoImage
  /\ Ticks \in Nat /\ MaxRows \in Nat

VARIABLES
  pc,        (* where _tmain is                                            *)
  box,       (* "none", "first" or "second" question on the screen         *)
  timer,     (* seconds left, -1 when no timer is set                      *)
  table,     (* the rows for this user                                     *)
  db, rs, rs1,
  found,     (* history: the rows that the two queries found               *)
  disk,      (* D:\ImageInstall.exe                                        *)
  copied,    (* CopyFile worked                                            *)
  ran,       (* what WinExec started                                       *)
  shutdown,  (* "none", "due" or "off"                                     *)
  byUser     (* a user closed the second question                          *)

askVars  == <<box, timer, byUser>>
dataVars == <<table, db, rs, rs1, found>>
outVars  == <<disk, copied, ran, shutdown>>
autoVars == <<pc, askVars, dataVars, outVars>>

Rows == UNION {[1 .. n -> Requests] : n \in 0 .. MaxRows}

AutoTypeOK ==
  /\ pc \in {"start", "ask", "net", "connect", "machine", "build", "copy",
             "delete", "run", "shutdown", "asked", "end", "crashed"}
  /\ box \in {"none", "first", "second"}
  /\ timer \in -1 .. Ticks
  /\ table \in Rows
  /\ disk \in Requests \cup {OldImage, NoImage}
  /\ ran \in Requests \cup {OldImage, NoImage}
  /\ shutdown \in {"none", "due", "off"}

AutoInit ==
  /\ pc = "start" /\ box = "none" /\ timer = -1
  /\ table \in Rows
  /\ db = NewDataBase /\ rs = NewRecordSet /\ rs1 = NewRecordSet
  /\ found = <<<<>>, <<>>>>
  /\ disk \in {OldImage, NoImage} /\ copied = FALSE
  /\ ran = NoImage /\ shutdown = "none" /\ byUser = FALSE

-----------------------------------------------------------------------------
(* The question.                                                           *)

(* Between ten and six the program ends at once. *)
Start ==
  /\ pc = "start"
  /\ \/ /\ pc' = "end"
        /\ UNCHANGED askVars
     \/ /\ pc' = "ask" /\ box' = "first" /\ timer' = Ticks
        /\ UNCHANGED byUser
  /\ UNCHANGED <<dataVars, outVars>>

(* Mutant: a yes leaves the timer set. *)
AnswerTimerOn ==
  /\ box = "first"
  /\ box' = "none"
  /\ pc' \in {"end", "net"}
  /\ UNCHANGED <<timer, byUser, dataVars, outVars>>

(* IDNO ends the program, and the timer with it; IDYES stops the timer.    *)
Answer ==
  /\ box = "first"
  /\ box' = "none"
  /\ timer' = -1
  /\ pc' \in {"end", "net"}
  /\ UNCHANGED <<byUser, dataVars, outVars>>

(* Mutant: the count stops at 0. *)
TimerProcStops ==
  /\ timer > 0 /\ box # "none"
  /\ timer' = timer - 1
  /\ UNCHANGED <<pc, box, byUser, dataVars, outVars>>

(* WM_TIMER, which a message box dispatches.  DestroyWindow takes whatever *)
(* question is up; MessageBox then returns neither IDYES nor IDNO.         *)
TimerProc ==
  /\ timer # -1 /\ box # "none"
  /\ \/ /\ timer > 0
        /\ timer' = timer - 1
        /\ UNCHANGED <<pc, box>>
     \/ /\ timer = 0
        /\ timer' = -1
        /\ box' = "none"
        /\ pc' = IF box = "first" THEN "net" ELSE "end"
  /\ UNCHANGED <<byUser, dataVars, outVars>>

-----------------------------------------------------------------------------
(* The update.                                                             *)

(* WNetAddConnection2: every outcome goes on but one.                      *)
AddConnection ==
  /\ pc = "net"
  /\ pc' \in {"connect", "end"}
  /\ UNCHANGED <<askVars, dataVars, outVars>>

ConnectDb ==
  /\ pc = "connect"
  /\ db' \in Connect(db)
  /\ pc' = "machine"
  /\ UNCHANGED <<askVars, table, rs, rs1, found, outVars>>

VAR_STRING == 253

(* A query that fails leaves m_recordcount unset, and the loop over it     *)
(* runs as often as what is there says: not at all, or over the end.       *)
Select(l, next, set, name, k) ==
  /\ pc = l
  /\ \E q \in Query(db, TRUE) :
       \/ /\ q[2]
          /\ db' = [q[1] EXCEPT !.pending = FALSE]
          /\ set' = ExecuteSelect(set, <<[name |-> name, type |-> VAR_STRING]>>,
                                  [r \in DOMAIN table |-> <<table[r][k]>>])
          /\ found' = [found EXCEPT ![k] = table]
          /\ pc' = next
       \/ /\ ~q[2]
          /\ db' = q[1]
          /\ pc' \in (IF q[1].handle = "crashed" THEN {"crashed"} ELSE {next, "crashed"})
          /\ UNCHANGED <<set, found>>
  /\ UNCHANGED <<askVars, table, outVars>>

SelectMachine ==
  /\ Select("machine", "build", rs, "machine", 1)
  /\ UNCHANGED rs1

SelectBuild ==
  /\ Select("build", "copy", rs1, "build", 2)
  /\ UNCHANGED rs

(* All rows one behind the other make the name, the last comparison is for *)
(* a build that is not known.                                              *)
Machine(set) == [k \in DOMAIN set.rows |-> set.rows[k][1]]
Build(set)   == IF Len(set.rows) = 1 THEN set.rows[1][1] ELSE "Debug"

(* Mutant: the machine is looked for in the last row only. *)
SourceLast(a, b) ==
  {r \in Requests : a.rows # <<>> /\ r = <<Last(Machine(a)), Build(b)>>}

(* The image that the path names, if there is one.                         *)
Source(a, b) == {r \in Requests : Machine(a) = <<r[1]>> /\ Build(b) = r[2]}

Copy ==
  /\ pc = "copy"
  /\ \/ \E image \in Source(rs, rs1) : disk' = image /\ copied' = TRUE
     \/ UNCHANGED <<disk, copied>>
  /\ pc' = "delete"
  /\ UNCHANGED <<askVars, dataVars, ran, shutdown>>

(* ExecuteSQL(sql, FALSE) removes the rows marked "no", all or none of     *)
(* them; the return value is 0 whatever happened.                          *)
Delete ==
  /\ pc = "delete"
  /\ \E q \in Query(db, FALSE) :
       /\ db' = q[1]
       /\ table' \in (IF q[2] THEN {<<>>, table} ELSE {table})
       /\ pc' = IF q[1].handle = "crashed" THEN "crashed" ELSE "run"
  /\ UNCHANGED <<askVars, rs, rs1, found, outVars>>

Run ==
  /\ pc = "run"
  /\ ran' = disk
  /\ pc' = "shutdown"
  /\ UNCHANGED <<askVars, dataVars, disk, copied, shutdown>>

Shutdown ==
  /\ pc = "shutdown"
  /\ shutdown' = "due"
  /\ box' = "second"
  /\ pc' = "asked"
  /\ UNCHANGED <<timer, byUser, dataVars, disk, copied, ran>>

(* The second question; the objects go out of scope.                       *)
AnswerShutdown ==
  /\ box = "second"
  /\ box' = "none"
  /\ byUser' = TRUE
  /\ shutdown' \in {"due", "off"}
  /\ db' = Destroy(db)
  /\ pc' = IF db'.handle = "crashed" THEN "crashed" ELSE "end"
  /\ UNCHANGED <<timer, table, rs, rs1, found, disk, copied, ran>>

Tmain ==
  \/ Start \/ AddConnection \/ ConnectDb \/ SelectMachine \/ SelectBuild
  \/ Copy \/ Delete \/ Run \/ Shutdown

(* Somebody else writes a request. *)
WriteTable ==
  /\ table' \in Rows
  /\ UNCHANGED <<pc, askVars, db, rs, rs1, found, outVars>>

AutoNext == Tmain \/ Answer \/ TimerProc \/ AnswerShutdown \/ WriteTable

(* The program runs and its timer ticks; the users need not answer.        *)
AutoSpec ==
  AutoInit /\ [][AutoNext]_autoVars /\ WF_autoVars(Tmain) /\ WF_autoVars(TimerProc)

-----------------------------------------------------------------------------
(* A copy that worked installs the machine of the only request there was,  *)
(* and its build too, put together again from two queries of one column    *)
(* each (0_PC.cxx:213-281, :296).  Not so when the table changed between   *)
(* them; and a second query that failed leaves the debug build.            *)
RunsWhatWasAsked ==
  copied /\ ran # NoImage =>
    /\ Len(found[1]) = 1 /\ ran[1] = found[1][1][1]
    /\ rs1.count = -1 => ran[2] = "Debug"
    /\ found[2] = found[1] => ran = found[1][1]

(* The timer of the first question is gone when the second one is put: it  *)
(* would take that for its own, which has the same title, and nobody could *)
(* stop the shutdown any more (0_PC.cxx:59, :300-302, :330-336).           *)
SecondQuestionStays ==
  /\ box = "second" => timer = -1
  /\ pc = "end" /\ shutdown # "none" => byUser

(* A question nobody answers does not hold the update up for ever.         *)
SilenceIsYes ==
  box = "first" ~> pc \in {"asked", "end", "crashed"}
=============================================================================
