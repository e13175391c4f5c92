----------------------------- MODULE PortSearch -----------------------------
(***************************************************************************)
(* The start of the program: the dialog that is up while CheckAll probes   *)
(* the COM ports for a watch, and the main dialog that offers the port it  *)
(* found.  The static `result' of checkComm is 0 until a port answers; the *)
(* main dialog asks for it once, with an argument that probes nothing.     *)
(*                                                                         *)
(* The user can close the first dialog at any time.  The search then goes  *)
(* on behind the main dialog, whose Sync button opens the offered port.    *)
(***************************************************************************)
EXTENDS Naturals

CONSTANTS
  MaxCom,    (* max_com, the number of ports probed                        *)
  Found,     (* where a probe can find a watch; Windows has no COM0        *)
  MayClose   (* the user may close the first dialog                        *)

ASSUME SearchAssumption ==
  /\ MaxCom \in Nat \ {0}
  /\ Found \subseteq 1 .. MaxCom - 1
  /\ MayClose \in BOOLEAN

Ports == 0 .. MaxCom - 1

VARIABLES
  watches,   (* ports with a watch that answers the stop command           *)
  ui,        (* "start", "main" or "ended"                                 *)
  closed,    (* the user closed the first dialog                           *)
  closing,   (* its WM_CLOSE is on its way                                 *)
  i,         (* CheckAll's port                                            *)
  pc,        (* CheckAll: "none", "loop", "write", "read", "close", "done" *)
  result,    (* the static in checkComm                                    *)
  open,      (* ports that checkComm holds                                 *)
  offered,   (* the number in IDC_COMM                                     *)
  sync       (* the port of Sync: "none", "open" or "failed"               *)

searchVars ==
  <<watches, ui, closed, closing, i, pc, result, open, offered, sync>>

SearchTypeOK ==
  /\ watches \in SUBSET Found
  /\ ui \in {"start", "main", "ended"}
  /\ closed \in BOOLEAN /\ closing \in BOOLEAN
  /\ i \in 0 .. MaxCom
  /\ pc \in {"none", "loop", "write", "read", "close", "done"}
  /\ result \in Ports
  /\ open \in SUBSET Ports
  /\ offered \in Ports
  /\ sync \in {"none", "open", "failed"}

SearchInit ==
  /\ watches \in SUBSET Found
  /\ ui = "start" /\ closed = FALSE /\ closing = FALSE
  /\ i = 0 /\ pc = "none"
  /\ result = 0 /\ open = {} /\ offered = 0
  /\ sync = "none"

-----------------------------------------------------------------------------
(* CheckAll and checkComm.                                                 *)

(* WM_INITDIALOG of the first dialog.                                      *)
StartSearch ==
  /\ ui = "start" /\ pc = "none"
  /\ pc' = "loop"
  /\ UNCHANGED <<watches, ui, closed, closing, i, result, open, offered, sync>>

InUse(p) == sync = "open" /\ offered = p

(* The static result ends the probing, not the loop.                       *)
Skip ==
  /\ pc = "loop" /\ i < MaxCom /\ result # 0
  /\ i' = i + 1
  /\ UNCHANGED <<watches, ui, closed, closing, pc, result, open, offered, sync>>

(* The port is not there, or not free.                                     *)
OpenFails ==
  /\ pc = "loop" /\ i < MaxCom /\ result = 0
  /\ i \notin watches \/ InUse(i)
  /\ i' = i + 1
  /\ UNCHANGED <<watches, ui, closed, closing, pc, result, open, offered, sync>>

OpenPort ==
  /\ pc = "loop" /\ i < MaxCom /\ result = 0
  /\ ~InUse(i)
  /\ open' = open \cup {i}
  /\ pc' = "write"
  /\ UNCHANGED <<watches, ui, closed, closing, i, result, offered, sync>>

(* Mutant: a port that cannot be written to is left open. *)
WriteFailsLeavesOpen ==
  /\ pc = "write" /\ i \notin watches
  /\ i' = i + 1
  /\ pc' = "loop"
  /\ UNCHANGED <<watches, ui, closed, closing, result, open, offered, sync>>

(* SetCommTimeouts or WriteFile fails: CloseHandle, return.                *)
WriteFails ==
  /\ pc = "write" /\ i \notin watches
  /\ open' = open \ {i}
  /\ i' = i + 1
  /\ pc' = "loop"
  /\ UNCHANGED <<watches, ui, closed, closing, result, offered, sync>>

Written ==
  /\ pc = "write"
  /\ pc' = "read"
  /\ UNCHANGED <<watches, ui, closed, closing, i, result, open, offered, sync>>

(* Mutant: any bytes are taken for the answer. *)
ReadPortAny ==
  /\ pc = "read"
  /\ result' = i
  /\ pc' = "close"
  /\ UNCHANGED <<watches, ui, closed, closing, i, open, offered, sync>>

(* ReadFile, and the search for checkack in what came.                     *)
ReadPort ==
  /\ pc = "read"
  /\ result' = IF i \in watches THEN i ELSE result
  /\ pc' = "close"
  /\ UNCHANGED <<watches, ui, closed, closing, i, open, offered, sync>>

ClosePort ==
  /\ pc = "close"
  /\ open' = open \ {i}
  /\ i' = i + 1
  /\ pc' = "loop"
  /\ UNCHANGED <<watches, ui, closed, closing, result, offered, sync>>

(* Mutant: the loop ends without a word to the dialog. *)
EndSearchSilent ==
  /\ pc = "loop" /\ i = MaxCom
  /\ pc' = "done"
  /\ UNCHANGED <<watches, ui, closed, closing, i, result, open, offered, sync>>

(* SendMessage(WM_CLOSE), of which the dialog makes an IDCANCEL.           *)
EndSearch ==
  /\ pc = "loop" /\ i = MaxCom
  /\ pc' = "done"
  /\ closing' = (ui = "start")
  /\ UNCHANGED <<watches, ui, closed, i, result, open, offered, sync>>

Search ==
  \/ Skip \/ OpenFails \/ OpenPort \/ WriteFails \/ Written
  \/ ReadPort \/ ClosePort \/ EndSearch

-----------------------------------------------------------------------------
(* The dialogs.                                                            *)

CloseEarly ==
  /\ MayClose
  /\ ui = "start" /\ ~closing
  /\ closed' = TRUE /\ closing' = TRUE
  /\ UNCHANGED <<watches, ui, i, pc, result, open, offered, sync>>

(* Mutant: the main dialog starts from COM1. *)
MainDialogOne ==
  /\ ui = "start" /\ closing
  /\ ui' = "main"
  /\ closing' = FALSE
  /\ offered' = IF result = 0 THEN 1 ELSE result
  /\ UNCHANGED <<watches, closed, i, pc, result, open, sync>>

(* EndDialog, and WM_INITDIALOG of the main dialog with checkComm(max_com).*)
MainDialog ==
  /\ ui = "start" /\ closing
  /\ ui' = "main"
  /\ closing' = FALSE
  /\ offered' = result
  /\ UNCHANGED <<watches, closed, i, pc, result, open, sync>>

(* Sync opens the offered port; CreateFile allows one handle.              *)
SyncOffered ==
  /\ ui = "main" /\ sync = "none"
  /\ sync' = IF offered \in open THEN "failed" ELSE "open"
  /\ UNCHANGED <<watches, ui, closed, closing, i, pc, result, open, offered>>

(* The end of _tWinMain ends CheckAll too.                                 *)
EndMain ==
  /\ ui = "main"
  /\ ui' = "ended"
  /\ pc' = "done"
  /\ open' = {}
  /\ sync' = "none"
  /\ UNCHANGED <<watches, closed, closing, i, result, offered>>

SearchNext ==
  \/ StartSearch \/ Search
  \/ CloseEarly \/ MainDialog \/ SyncOffered \/ EndMain

SearchSpec ==
  /\ SearchInit /\ [][SearchNext]_searchVars
  /\ WF_searchVars(StartSearch) /\ WF_searchVars(Search) /\ WF_searchVars(MainDialog)

-----------------------------------------------------------------------------
(* Whenever the main dialog comes up, it offers no port but one where a    *)
(* watch has answered, however far the search is; a search that was let    *)
(* run offers the first of them (MainProcFunc.cpp:31, :79,                 *)
(* w10_pc_user.cpp:52).  0 means none: were there a COM0, a watch on it    *)
(* would be passed over for one behind it.                                 *)
OffersFirstWatch ==
  /\ offered # 0 => offered \in watches
  /\ ui = "main" /\ ~closed =>
       IF watches = {} THEN offered = 0
                       ELSE offered \in watches /\ \A w \in watches : offered <= w

(* Such a search leaves no port open, so that Sync finds the offered port  *)
(* and every other one free: each exit of checkComm has its CloseHandle.   *)
LeavesPortsFree ==
  /\ ui = "main" /\ ~closed => open = {} /\ sync # "failed"
  /\ open \subseteq {i}

(* The first dialog goes away by itself, whatever the ports do.            *)
MainComesUp == <>(ui = "main")
=============================================================================
