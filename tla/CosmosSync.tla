----------------------------- MODULE CosmosSync -----------------------------
(***************************************************************************)
(* The download side of the program: the window procedure dlgMainProc, the *)
(* threads it starts (doSync for the Sync button, StopThread for Stop and  *)
(* for closing the window), the read thread that InitComIO starts for each *)
(* CosmosSpp object, the parse threads, and the watch at the other end of  *)
(* the serial port.                                                        *)
(*                                                                         *)
(* One action is one step of a thread between two points where another     *)
(* thread can interfere; what a thread does while nobody can see it is     *)
(* part of the same action.  flag is read again by every test of doSync's  *)
(* else-if chain, because it is neither volatile nor guarded and the debug *)
(* build reads it each time.                                               *)
(***************************************************************************)
EXTENDS LogReceiver, FiniteSets

CONSTANTS
  Syncers,      (* threads that can run doSync                             *)
  Stoppers,     (* threads that can run StopThread                         *)
  NoThread,     (* nobody                                                  *)
  MaxPorts,     (* bound: CosmosSpp objects alive at the same time         *)
  MaxItems,     (* bound: pieces that one ReadFile returns together        *)
  MaxRuns,      (* bound: how often the program is started                 *)
  PromptDevice, (* the watch answers within the Sleep(500)+Sleep(100)      *)
  GraceSleep,   (* a read thread ends within the destructor's Sleep(200)   *)
  MayFail       (* numbers of which doParseFile may make no .cosmos file   *)

Threads == Syncers \cup Stoppers
Ports   == 1 .. MaxPorts

ASSUME SyncAssumption ==
  /\ Syncers \cap Stoppers = {}
  /\ NoThread \notin Threads
  /\ MaxPorts \in Nat \ {0}
  /\ MaxItems \in Nat \ {0}
  /\ MaxRuns \in Nat \ {0}
  /\ PromptDevice \in BOOLEAN
  /\ GraceSleep \in BOOLEAN
  /\ MayFail \subseteq Sn

VARIABLES
  ui,         (* window thread: "loop", "refresh" (in Refresh), "closed",  *)
              (* "over" (main_cs is deleted)                               *)
  posted,     (* WM_UI_REFRESH messages in its queue                       *)
  stopShown,  (* Stop is shown and Sync hidden, or the other way round     *)
  mainCs,     (* owner of main_cs                                          *)
  pcio,       (* the global CosmosSpp pointer, 0 for NULL                  *)
  port,       (* hCom of each object: "null", "open" or "invalid"          *)
  registered, (* RegReadClass was called on the object                     *)
  portName,   (* getCommPort's static buffer: "prefix", "good" or "bad"    *)
  pc,         (* where each doSync thread is                               *)
  nameOk,     (* doSync's own copy of the port name names the port         *)
  i,          (* doSync's local i                                          *)
  st,         (* where each StopThread is                                  *)
  rpc,        (* where the read thread of each object is                   *)
  rbuf,       (* the pieces in its buffer                                  *)
  req,        (* requests on their way to the watch                        *)
  chan,       (* what the watch has sent and nobody has read               *)
  parsing,    (* numbers doParseFile threads were started for              *)
  parsed,     (* numbers for which a .cosmos file was written              *)
  run         (* how often the program was started                         *)

uiVars     == <<ui, posted, stopShown>>
portVars   == <<pcio, port, registered, portName>>
syncVars   == <<pc, nameOk, i>>
readVars   == <<rpc, rbuf>>
linkVars   == <<req, chan>>
parseVars  == <<parsing, parsed>>
allRecv    == <<recvVars, disk>>
vars == <<uiVars, mainCs, portVars, syncVars, st, readVars, linkVars,
          parseVars, run, allRecv>>

(* What a step of doSync, of StopThread and of a read thread usually       *)
(* leaves alone, and all that is not the window or a thread's position.    *)
syncElse == <<uiVars, st, readVars, linkVars, parseVars, run>>
stopElse == <<syncVars, readVars, parseVars, run, allRecv>>
readElse == <<uiVars, mainCs, portVars, syncVars, st, parseVars, run>>
dataVars == <<mainCs, portVars, readVars, linkVars, parseVars, run, allRecv>>

SyncPCs == {"idle", "test", "name", "copy", "open", "create", "announce",
            "post", "enter", "t0", "exist", "ask", "write", "leave", "t2",
            "t3", "fin", "t1", "notfound", "unknown", "end", "del",
            "unlink", "reset"}
StopPCs == {"idle", "text", "enter", "close", "free", "post"}
ReadPCs == {"none", "read", "proc", "init", "create", "count", "short", "fin"}

UiTypeOK     == /\ ui \in {"loop", "refresh", "closed", "over"}
                /\ posted \in Nat
                /\ stopShown \in BOOLEAN
PortTypeOK   == /\ pcio \in 0 .. MaxPorts
                /\ port \in [Ports -> {"null", "open", "invalid"}]
                /\ registered \in [Ports -> BOOLEAN]
                /\ portName \in {"prefix", "good", "bad"}
ThreadTypeOK == /\ mainCs \in Threads \cup {NoThread}
                /\ pc \in [Syncers -> SyncPCs]
                /\ nameOk \in [Syncers -> BOOLEAN]
                /\ i \in [Syncers -> 1 .. MaxSn]
                /\ st \in [Stoppers -> StopPCs]
LinkTypeOK   == /\ rpc \in [Ports -> ReadPCs]
                /\ rbuf \in [Ports -> Seq(Item)]
                /\ req \in Seq(Sn)
                /\ chan \in Seq(Item)
ParseTypeOK  == /\ parsing \subseteq Sn
                /\ parsed \subseteq Sn
                /\ run \in 1 .. MaxRuns

(* Every variable has its type.                                            *)
SyncTypeOK == /\ ReceiverTypeOK /\ UiTypeOK /\ PortTypeOK
              /\ ThreadTypeOK /\ LinkTypeOK /\ ParseTypeOK

(* What a process starts with; the folder and the .cosmos files stay.      *)
ProcessStart ==
  /\ ReceiverStart
  /\ ui = "loop" /\ posted = 0 /\ stopShown = FALSE
  /\ mainCs = NoThread
  /\ pcio = 0
  /\ port = [o \in Ports |-> "null"]
  /\ registered = [o \in Ports |-> FALSE]
  /\ portName = "prefix"
  /\ pc = [t \in Syncers |-> "idle"]
  /\ nameOk = [t \in Syncers |-> FALSE]
  /\ i = [t \in Syncers |-> 1]
  /\ st = [k \in Stoppers |-> "idle"]
  /\ rpc = [o \in Ports |-> "none"]
  /\ rbuf = [o \in Ports |-> <<>>]
  /\ req = <<>> /\ chan = <<>>
  /\ parsing = {}

(* Some of the logs were downloaded by earlier runs, and parsed if that    *)
(* did not fail.                                                           *)
Init ==
  /\ ProcessStart
  /\ \E old \in SUBSET Logs :
       /\ disk = [f \in Sn |-> IF f \in old THEN Content(f) ELSE NoFile]
       /\ \E none \in SUBSET MayFail : parsed = old \ none
  /\ run = 1

-----------------------------------------------------------------------------
(* Pieces shared by the actions.                                           *)

Lock(t)   == mainCs = NoThread /\ mainCs' = t
Unlock    == mainCs' = NoThread
Goto(t, l)     == pc' = [pc EXCEPT ![t] = l]
StopGoto(k, l) == st' = [st EXCEPT ![k] = l]
ReadGoto(o, l) == rpc' = [rpc EXCEPT ![o] = l]

(* SendDlgItemMessage, SetDlgItemText and GetDlgItemText return when the   *)
(* window thread is back in its message loop, or when the window is gone.  *)
UiAnswers == ui # "refresh"
WindowGone == ui \in {"closed", "over"}

(* PostMessage(g_hdlg, WM_UI_REFRESH): queued, or lost without a window.   *)
PostRefresh == posted' = IF WindowGone THEN posted ELSE posted + 1

(* pcio points to an object.  To use NULL, or to delete an object again,   *)
(* is a fault that ends the process: nothing is left to it but Exit.       *)
HasPort == pcio # 0

(* A read thread has not yet dealt with the answer to the last request.    *)
ReplyDue ==
  \/ req # <<>>
  \/ \E j \in DOMAIN chan : IsHeader(chan[j])
  \/ \E o \in Ports : \/ rpc[o] = "proc" /\ HasHeader(rbuf[o])
                      \/ rpc[o] \in {"init", "create"}

-----------------------------------------------------------------------------
(* The window thread.  Posted messages are retrieved before user input.    *)

InputReady == ui = "loop" /\ posted = 0

ClickSync(t) ==
  /\ InputReady /\ ~stopShown
  /\ pc[t] = "idle"
  /\ Goto(t, "test")
  /\ UNCHANGED <<dataVars, uiVars, nameOk, i, st>>

ClickStop(k) ==
  /\ InputReady /\ stopShown
  /\ st[k] = "idle"
  /\ StopGoto(k, "text")
  /\ UNCHANGED <<dataVars, uiVars, syncVars>>

(* IDOK and IDCANCEL: a StopThread(0), then EndDialog.                     *)
CloseWindow(k) ==
  /\ InputReady
  /\ st[k] = "idle"
  /\ StopGoto(k, "text")
  /\ ui' = "closed"
  /\ UNCHANGED <<dataVars, posted, stopShown, syncVars>>

TakeRefresh ==
  /\ ui = "loop" /\ posted > 0
  /\ ui' = "refresh"
  /\ posted' = posted - 1
  /\ UNCHANGED <<dataVars, stopShown, syncVars, st>>

(* Mutant: the EnterCriticalSection of Refresh is not commented out. *)
RefreshLocks ==
  /\ ui = "refresh"
  /\ mainCs = NoThread
  /\ stopShown' = (pcio # 0)
  /\ ui' = "loop"
  /\ UNCHANGED <<dataVars, posted, syncVars, st>>

(* Refresh reads pcio without main_cs.                                     *)
Refresh ==
  /\ ui = "refresh"
  /\ stopShown' = (pcio # 0)
  /\ ui' = "loop"
  /\ UNCHANGED <<dataVars, posted, syncVars, st>>

(* The message loop is left and _tWinMain deletes main_cs, whoever is in   *)
(* it or waits for it.  What the section does from then on is undefined;   *)
(* here, as Windows leaves it, it looks free, so that one thread can enter *)
(* it while another is still inside.  The end of the last of the MaxRuns   *)
(* processes is not followed.                                              *)
DeleteMainCs ==
  /\ ui = "closed"
  /\ run < MaxRuns
  /\ ui' = "over"
  /\ mainCs' = NoThread
  /\ UNCHANGED <<posted, stopShown, portVars, syncVars, st, readVars, linkVars,
                 parseVars, run, allRecv>>

(* _tWinMain returns and the process ends, with every thread wherever it   *)
(* is; the user starts the program again.                                  *)
Exit ==
  /\ ui = "over" /\ run < MaxRuns
  /\ run' = run + 1
  /\ ReceiverRestart
  /\ ui' = "loop" /\ posted' = 0 /\ stopShown' = FALSE
  /\ mainCs' = NoThread
  /\ pcio' = 0
  /\ port' = [o \in Ports |-> "null"]
  /\ registered' = [o \in Ports |-> FALSE]
  /\ portName' = "prefix"
  /\ pc' = [t \in Syncers |-> "idle"]
  /\ nameOk' = [t \in Syncers |-> FALSE]
  /\ i' = [t \in Syncers |-> 1]
  /\ st' = [k \in Stoppers |-> "idle"]
  /\ rpc' = [o \in Ports |-> "none"]
  /\ rbuf' = [o \in Ports |-> <<>>]
  /\ req' = <<>> /\ chan' = <<>>
  /\ parsing' = {}
  /\ UNCHANGED <<disk, parsed>>

-----------------------------------------------------------------------------
(* doSync: connect.                                                        *)

SyncTest(t) ==
  /\ pc[t] = "test"
  /\ Goto(t, IF pcio = 0 THEN "name" ELSE "post")
  /\ UNCHANGED <<dataVars, uiVars, nameOk, i, st>>

(* getCommPort appends the text of the combo box to its static buffer, so  *)
(* only its first call returns the name of a port.                         *)
GetCommPort(t) ==
  /\ pc[t] = "name"
  /\ UiAnswers
  /\ portName' = CASE WindowGone           -> portName
                   [] portName = "prefix"  -> "good"
                   [] OTHER                -> "bad"
  /\ Goto(t, "copy")
  /\ UNCHANGED <<syncElse, mainCs, pcio, port, registered, nameOk, i, allRecv>>

CopyName(t) ==
  /\ pc[t] = "copy"
  /\ nameOk' = [nameOk EXCEPT ![t] = (portName = "good")]
  /\ Goto(t, "open")
  /\ UNCHANGED <<dataVars, uiVars, i, st>>

OpenEnter(t) ==
  /\ pc[t] = "open"
  /\ Lock(t)
  /\ Goto(t, "create")
  /\ UNCHANGED <<syncElse, portVars, nameOk, i, allRecv>>

(* new CosmosSpp and InitComIO, which opens the port for itself alone,     *)
(* reports no failure, and starts the read thread.                         *)
Create(t) ==
  /\ pc[t] = "create"
  /\ \E o \in {q \in Ports : port[q] = "null" /\ rpc[q] = "none"} :
       /\ pcio' = o
       /\ \/ port' = [port EXCEPT ![o] = "invalid"]
          \/ /\ nameOk[t]
             /\ \A q \in Ports : port[q] # "open"
             /\ port' = [port EXCEPT ![o] = "open"]
       /\ registered' = [registered EXCEPT ![o] = FALSE]
       /\ ReadGoto(o, "read")
  /\ Goto(t, "announce")
  /\ UNCHANGED <<uiVars, mainCs, portName, nameOk, i, st, rbuf, linkVars,
                 parseVars, run, allRecv>>

(* The "port opened" message, RegReadClass, LeaveCriticalSection.          *)
Announce(t) ==
  /\ pc[t] = "announce"
  /\ UiAnswers /\ HasPort
  /\ registered' = [registered EXCEPT ![pcio] = TRUE]
  /\ Unlock
  /\ Goto(t, "post")
  /\ UNCHANGED <<syncElse, pcio, port, portName, nameOk, i, allRecv>>

Post(t) ==
  /\ pc[t] = "post"
  /\ PostRefresh
  /\ i' = [i EXCEPT ![t] = 1]
  /\ Goto(t, "enter")
  /\ UNCHANGED <<dataVars, ui, stopShown, nameOk, st>>

-----------------------------------------------------------------------------
(* doSync: one pass of the loop, from EnterCriticalSection to the Sleep.   *)

(* Mutant: without a port the loop is continued, not left. *)
LoopEnterContinues(t) ==
  /\ pc[t] = "enter"
  /\ PromptDevice => ~ReplyDue
  /\ pcio # 0
  /\ Goto(t, "t0") /\ Lock(t)
  /\ UNCHANGED <<syncElse, portVars, nameOk, i, allRecv>>

LoopEnter(t) ==
  /\ pc[t] = "enter"
  /\ PromptDevice => ~ReplyDue
  /\ mainCs = NoThread
  /\ IF pcio = 0
     THEN Goto(t, "end") /\ UNCHANGED mainCs
     ELSE Goto(t, "t0") /\ Lock(t)
  /\ UNCHANGED <<syncElse, portVars, nameOk, i, allRecv>>

(* The tests of the else-if chain, in its order: 0, 2, 3, 1.               *)
TestFlag(t) ==
  /\ \/ pc[t] = "t0" /\ Goto(t, IF flag = 0 THEN "exist" ELSE "t2")
     \/ pc[t] = "t2" /\ Goto(t, IF flag = 2 THEN "leave" ELSE "t3")
     \/ pc[t] = "t3" /\ Goto(t, IF flag = 3 THEN "fin" ELSE "t1")
     \/ pc[t] = "t1" /\ Goto(t, IF flag = 1 THEN "notfound" ELSE "unknown")
  /\ UNCHANGED <<dataVars, uiVars, nameOk, i, st>>

(* Mutant: every log is asked for, whatever the folder holds. *)
CheckFileExistNever(t) ==
  /\ pc[t] = "exist"
  /\ flag' = 1
  /\ Goto(t, "ask")
  /\ UNCHANGED <<syncElse, mainCs, portVars, nameOk, i, dwName, hfile,
                 lastFile, file_size, total_recv, disk>>

CheckFileExist(t) ==
  /\ pc[t] = "exist"
  /\ IF Exists(i[t])
     THEN /\ i' = [i EXCEPT ![t] = @ + 1]
          /\ Goto(t, "leave")
          /\ UNCHANGED flag
     ELSE /\ flag' = 1
          /\ Goto(t, "ask")
          /\ UNCHANGED i
  /\ UNCHANGED <<syncElse, mainCs, portVars, nameOk, dwName, hfile, lastFile,
                 file_size, total_recv, disk>>

(* "Downloading file", then rProc.dwName = i.                              *)
Ask(t) ==
  /\ pc[t] = "ask"
  /\ UiAnswers
  /\ dwName' = i[t]
  /\ Goto(t, "write")
  /\ UNCHANGED <<syncElse, mainCs, portVars, nameOk, i, flag, hfile, lastFile,
                 file_size, total_recv, disk>>

(* WriteCom(SPP+FREAD=i); whether it wrote anything is not looked at.      *)
WriteRequest(t) ==
  /\ pc[t] = "write" /\ HasPort
  /\ req' = IF port[pcio] = "open" THEN Append(req, i[t]) ELSE req
  /\ Goto(t, "leave")
  /\ UNCHANGED <<uiVars, mainCs, portVars, nameOk, i, st, readVars, chan,
                 parseVars, run, allRecv>>

(* flag = 3: start doParseFile(i), go to the next number.                  *)
Finish(t) ==
  /\ pc[t] = "fin"
  /\ parsing' = parsing \cup {i[t]}
  /\ i' = [i EXCEPT ![t] = @ + 1]
  /\ flag' = 0
  /\ Goto(t, "leave")
  /\ UNCHANGED <<uiVars, mainCs, portVars, nameOk, st, readVars, linkVars,
                 parsed, run, dwName, hfile, lastFile, file_size, total_recv,
                 disk>>

(* Mutant: the while lets i reach its bound. *)
LeaveOffByOne(t) ==
  /\ pc[t] = "leave"
  /\ UiAnswers
  /\ Unlock
  /\ Goto(t, IF i[t] <= MaxSn THEN "enter" ELSE "end")
  /\ UNCHANGED <<syncElse, portVars, nameOk, i, allRecv>>

(* The messages to the window, LeaveCriticalSection, Sleep(100), the while.*)
Leave(t) ==
  /\ pc[t] = "leave"
  /\ UiAnswers
  /\ Unlock
  /\ Goto(t, IF i[t] < MaxSn THEN "enter" ELSE "end")
  /\ UNCHANGED <<syncElse, portVars, nameOk, i, allRecv>>

(* Mutant: a break without LeaveCriticalSection. *)
GiveUpLocked(t) ==
  /\ pc[t] \in {"notfound", "unknown"}
  /\ pc[t] = "notfound" => UiAnswers
  /\ Goto(t, "end")
  /\ UNCHANGED <<syncElse, mainCs, portVars, nameOk, i, allRecv>>

(* "File NOT Found" goes to the window, "Unknown Flag" only to a debugger. *)
GiveUp(t) ==
  /\ pc[t] \in {"notfound", "unknown"}
  /\ pc[t] = "notfound" => UiAnswers
  /\ Unlock
  /\ Goto(t, "end")
  /\ UNCHANGED <<syncElse, portVars, nameOk, i, allRecv>>

-----------------------------------------------------------------------------
(* doSync: after the loop, without main_cs.                                *)

(* Mutant: a partial file is not deleted. *)
EndTestKeeps(t) ==
  /\ pc[t] = "end"
  /\ Goto(t, "reset")
  /\ UNCHANGED <<dataVars, uiVars, nameOk, i, st>>

EndTest(t) ==
  /\ pc[t] = "end"
  /\ Goto(t, IF flag = 2 THEN "del" ELSE "reset")
  /\ UNCHANGED <<dataVars, uiVars, nameOk, i, st>>

(* Mutant: DeleteFile before DeinitFile. *)
DeleteLastFileSwapped(t) ==
  /\ \/ pc[t] = "del" /\ DeleteNamed(parsing) /\ Goto(t, "unlink")
     \/ pc[t] = "unlink" /\ DeinitFile /\ Goto(t, "reset")
  /\ UNCHANGED <<syncElse, mainCs, portVars, nameOk, i>>

DeleteLastFile(t) ==
  /\ \/ pc[t] = "del" /\ DeinitFile /\ Goto(t, "unlink")
     \/ pc[t] = "unlink" /\ DeleteNamed(parsing) /\ Goto(t, "reset")
  /\ UNCHANGED <<syncElse, mainCs, portVars, nameOk, i>>

ResetFlag(t) ==
  /\ pc[t] = "reset"
  /\ flag' = 0
  /\ Goto(t, "idle")
  /\ UNCHANGED <<syncElse, mainCs, portVars, nameOk, i, dwName, hfile,
                 lastFile, file_size, total_recv, disk>>

-----------------------------------------------------------------------------
(* StopThread and StopSync.                                                *)

(* SetDlgItemText(IDC_MSG, "").                                            *)
StopText(k) ==
  /\ st[k] = "text"
  /\ UiAnswers
  /\ StopGoto(k, "enter")
  /\ UNCHANGED <<dataVars, uiVars, syncVars>>

(* Mutant: the port is deleted without main_cs. *)
StopEnterUnlocked(k) ==
  /\ st[k] = "enter"
  /\ StopGoto(k, IF pcio = 0 THEN "post" ELSE "close")
  /\ UNCHANGED <<stopElse, uiVars, mainCs, portVars, linkVars>>

StopEnter(k) ==
  /\ st[k] = "enter"
  /\ mainCs = NoThread
  /\ IF pcio = 0
     THEN StopGoto(k, "post") /\ UNCHANGED mainCs
     ELSE StopGoto(k, "close") /\ Lock(k)
  /\ UNCHANGED <<stopElse, uiVars, portVars, linkVars>>

(* Mutant: pcio is forgotten but its handle is not closed. *)
CloseComForgets(k) ==
  /\ st[k] = "close"
  /\ StopGoto(k, "free")
  /\ UNCHANGED <<stopElse, uiVars, mainCs, portVars, linkVars>>

(* The destructor's DeinitComIO.  With the port goes what it had buffered, *)
(* and the connection to the watch.                                        *)
CloseCom(k) ==
  /\ st[k] = "close"
  /\ HasPort /\ port[pcio] # "null"
  /\ port' = [port EXCEPT ![pcio] = "null"]
  /\ IF port[pcio] = "open"
     THEN req' = <<>> /\ chan' = <<>>
     ELSE UNCHANGED linkVars
  /\ StopGoto(k, "free")
  /\ UNCHANGED <<stopElse, uiVars, mainCs, pcio, registered, portName>>

(* After Sleep(200): pcio = NULL, LeaveCriticalSection.                    *)
FreePort(k) ==
  /\ st[k] = "free"
  /\ GraceSleep => rpc[pcio] \in {"read", "none"}
  /\ pcio' = 0
  /\ Unlock
  /\ StopGoto(k, "post")
  /\ UNCHANGED <<stopElse, uiVars, port, registered, portName, linkVars>>

(* Mutant: StopThread does not ask for a refresh. *)
StopPostNothing(k) ==
  /\ st[k] = "post"
  /\ StopGoto(k, "idle")
  /\ UNCHANGED <<dataVars, uiVars, syncVars>>

(* StopThread(1) asks for a refresh; StopThread(0) does not, and then the  *)
(* window is closed, which makes PostRefresh do nothing.                   *)
StopPost(k) ==
  /\ st[k] = "post"
  /\ PostRefresh
  /\ StopGoto(k, "idle")
  /\ UNCHANGED <<dataVars, ui, stopShown, syncVars>>

-----------------------------------------------------------------------------
(* ComIO::ReadThread, and rProc.proc() which it calls.                     *)

ReadCom(o) ==
  /\ rpc[o] = "read"
  /\ port[o] = "open"
  /\ \E k \in 1 .. MaxItems :
       /\ k <= Len(chan)
       /\ rbuf' = [rbuf EXCEPT ![o] = SubSeq(chan, 1, k)]
       /\ chan' = SubSeq(chan, k + 1, Len(chan))
  /\ ReadGoto(o, "proc")
  /\ UNCHANGED <<readElse, req, allRecv>>

ReadEnd(o) ==
  /\ rpc[o] = "read"
  /\ port[o] = "null"
  /\ ReadGoto(o, "none")
  /\ UNCHANGED <<readElse, rbuf, linkVars, allRecv>>

(* Without a registered object, or for content that no file waits for, the *)
(* bytes are dropped.                                                      *)
Proc(o) ==
  /\ rpc[o] = "proc"
  /\ IF registered[o] /\ HasHeader(rbuf[o])
     THEN /\ \E j \in HeaderIn(rbuf[o]) : ProcHeader(LogSize[rbuf[o][j][1]])
          /\ ReadGoto(o, IF flag' = 1 THEN "read" ELSE "init")
          /\ rbuf' = [rbuf EXCEPT ![o] = <<>>]
     ELSE IF registered[o] /\ Writable
     THEN \E k \in 0 .. Len(rbuf[o]) :
            LET part == SubSeq(rbuf[o], 1, k)
            IN  /\ ProcContent(part)
                /\ ReadGoto(o, IF k = Len(rbuf[o]) THEN "count" ELSE "short")
                /\ rbuf' = [rbuf EXCEPT ![o] = part]
     ELSE /\ ReadGoto(o, "read")
          /\ rbuf' = [rbuf EXCEPT ![o] = <<>>]
          /\ UNCHANGED allRecv
  /\ UNCHANGED <<readElse, linkVars>>

ProcFile(o) ==
  /\ \/ /\ rpc[o] = "init"
        /\ InitFileName
        /\ ReadGoto(o, "create")
        /\ UNCHANGED rbuf
     \/ /\ rpc[o] = "create"
        /\ InitFileCreate
        /\ ReadGoto(o, "read")
        /\ UNCHANGED rbuf
     \/ /\ rpc[o] \in {"count", "short"}
        /\ ProcCount(Len(rbuf[o]))
        /\ ReadGoto(o, IF total_recv' >= file_size THEN "fin" ELSE "read")
        /\ rbuf' = [rbuf EXCEPT ![o] = <<>>]
     \/ /\ rpc[o] = "fin"
        /\ ProcFinished
        /\ ReadGoto(o, "read")
        /\ UNCHANGED rbuf
  /\ UNCHANGED <<readElse, linkVars>>

-----------------------------------------------------------------------------
(* The watch (external): it answers one request after the other.           *)
DevReply ==
  /\ req # <<>>
  /\ req' = Tail(req)
  /\ chan' = chan \o <<<<Head(req), 0>>>> \o Content(Head(req))
  /\ UNCHANGED <<readElse, readVars, allRecv>>

(* doParseFile(n): it opens the log for itself alone, so it gives up on a  *)
(* file that is missing or still being written; also on a log that is      *)
(* shorter than its head, and when the .cosmos file cannot be created.     *)
ParseFile(n) ==
  /\ n \in parsing
  /\ parsing' = parsing \ {n}
  /\ \/ Exists(n) /\ hfile # n /\ parsed' = parsed \cup {n}
     \/ ~(Exists(n) /\ hfile # n /\ n \notin MayFail) /\ UNCHANGED parsed
  /\ UNCHANGED <<uiVars, mainCs, portVars, syncVars, st, readVars, linkVars,
                 run, allRecv>>

-----------------------------------------------------------------------------
SyncConnect(t) ==
  \/ SyncTest(t) \/ GetCommPort(t) \/ CopyName(t)
  \/ Create(t) \/ Announce(t) \/ Post(t)

SyncBody(t) ==
  \/ TestFlag(t) \/ CheckFileExist(t) \/ Ask(t) \/ WriteRequest(t)
  \/ Finish(t) \/ Leave(t) \/ GiveUp(t)
  \/ EndTest(t) \/ DeleteLastFile(t) \/ ResetFlag(t)

StopBody(k) == StopText(k) \/ CloseCom(k) \/ FreePort(k) \/ StopPost(k)

Reader(o) == ReadCom(o) \/ ReadEnd(o) \/ Proc(o) \/ ProcFile(o)

Window == TakeRefresh \/ Refresh

User ==
  \/ \E t \in Syncers : ClickSync(t)
  \/ \E k \in Stoppers : ClickStop(k) \/ CloseWindow(k)
  \/ DeleteMainCs \/ Exit

Next ==
  \/ User
  \/ Window
  \/ \E t \in Syncers : OpenEnter(t) \/ LoopEnter(t) \/ SyncConnect(t) \/ SyncBody(t)
  \/ \E k \in Stoppers : StopEnter(k) \/ StopBody(k)
  \/ \E o \in Ports : Reader(o)
  \/ DevReply
  \/ \E n \in Sn : ParseFile(n)

Spec == Init /\ [][Next]_vars

-----------------------------------------------------------------------------
(* Fairness: no thread is suspended for ever, and neither is the watch.    *)
(* main_cs needs strong fairness: it is free again and again (doSync       *)
(* sleeps 100 ms outside it in every pass), never for good.  The user      *)
(* promises nothing.                                                       *)
Fairness ==
  /\ WF_vars(TakeRefresh) /\ WF_vars(Refresh)
  /\ \A t \in Syncers : /\ WF_vars(SyncConnect(t)) /\ WF_vars(SyncBody(t))
                        /\ SF_vars(OpenEnter(t)) /\ SF_vars(LoopEnter(t))
  /\ \A k \in Stoppers : WF_vars(StopBody(k)) /\ SF_vars(StopEnter(k))
  /\ \A o \in Ports : WF_vars(Reader(o))
  /\ WF_vars(DevReply)
  /\ \A n \in Sn : WF_vars(ParseFile(n))

LiveSpec == Spec /\ Fairness

-----------------------------------------------------------------------------
(* Safety.                                                                 *)

SyncHolds(t) == pc[t] \in {"create", "announce", "t0", "exist", "ask", "write",
                           "leave", "t2", "t3", "fin", "t1", "notfound",
                           "unknown"}
StopHolds(k) == st[k] \in {"close", "free"}
UsesPort(t)  == SyncHolds(t) /\ pc[t] # "create"

(* main_cs is owned by the thread that is inside it and left on each of    *)
(* doSync's exits: the five places of MainProcFunc.cpp that leave it; as   *)
(* long as there is a main_cs (w10_pc_user.cpp:30 deletes it).             *)
LockDiscipline ==
  ui # "over" => /\ \A t \in Syncers : SyncHolds(t) <=> mainCs = t
                 /\ \A k \in Stoppers : StopHolds(k) <=> mainCs = k

(* A doSync thread inside its loop, and a StopThread that closes the port, *)
(* have the object pcio points to: nobody deletes it or sets pcio to NULL  *)
(* under them, although doSync tests pcio without main_cs before it opens  *)
(* the port (MainProcFunc.cpp:123) and the destructor sleeps half-way.     *)
(* Once main_cs is deleted, nothing prevents it.                           *)
PortAliveWhileUsed ==
  ui # "over" =>
    /\ \A t \in Syncers : UsesPort(t) => pcio # 0 /\ port[pcio] # "null"
    /\ \A k \in Stoppers : StopHolds(k) => pcio # 0
    /\ \A k \in Stoppers : st[k] = "close" => port[pcio] # "null"

(* The number doSync works on stays below the bound of its while.          *)
InBounds ==
  \A t \in Syncers :
    pc[t] \in {"enter", "t0", "exist", "t2", "t3", "fin"} => i[t] < MaxSn

(* pcio points to an object whose port was not closed, but for the moment  *)
(* between the destructor and pcio = NULL.                                 *)
PointerIsLive ==
  ui # "over" /\ pcio # 0 => \/ port[pcio] # "null"
                             \/ \E k \in Stoppers : st[k] = "free"

(* The inductive invariant behind the theorems.                            *)
SyncInv == /\ SyncTypeOK /\ OpenFileExists /\ InBounds
           /\ LockDiscipline /\ PointerIsLive /\ PortAliveWhileUsed

(* When the window has nothing left to do and no thread is on its way to   *)
(* PostMessage, the button that is shown fits pcio: Refresh reads pcio     *)
(* without main_cs (its Enter is commented out) and is still never stale   *)
(* for good.                                                               *)
RefreshOnItsWay ==
  \/ posted > 0
  \/ ui # "loop"
  \/ \E t \in Syncers : pc[t] \in {"announce", "post"}
  \/ \E k \in Stoppers : st[k] = "post"

ButtonFitsPort == stopShown = (pcio # 0) \/ RefreshOnItsWay

(* doSync opens the port that the user has chosen, each time it opens one. *)
OpensChosenPort ==
  \A t \in Syncers : pc[t] = "create" /\ ~WindowGone => nameOk[t]

(* Every port that is open is the one pcio points to, so that Stop can     *)
(* close it.                                                               *)
NoOrphanPort == \A o \in Ports : port[o] = "open" => o = pcio

(* "File NOT Found" is said, on an open port, of a log that the watch does *)
(* not have.                                                               *)
NotFoundIsTrue ==
  \A t \in Syncers :
    pc[t] = "notfound" /\ pcio # 0 /\ port[pcio] = "open" => LogSize[i[t]] = 0

(* checkFileExist lets doSync skip a log only when all of it is there.     *)
SkipsOnlyStored ==
  \A t \in Syncers : pc[t] = "exist" /\ Exists(i[t]) => Complete(i[t])

(* The number doSync hands to doParseFile is the number of a log that is   *)
(* completely written and closed: flag, i, dwName and the handle belong to *)
(* two threads, and agree at that point.                                   *)
FinishedIsComplete ==
  \A t \in Syncers : pc[t] = "fin" => Complete(i[t]) /\ hfile = 0

(* Once all threads have gone and the last answer is read, no partial log  *)
(* is left in the folder and the receiver is ready for a new request.      *)
Quiescent ==
  /\ \A t \in Syncers : pc[t] = "idle"
  /\ \A o \in Ports : rpc[o] \in {"none", "read"}
  /\ req = <<>> /\ chan = <<>>

QuiescentClean ==
  Quiescent => /\ flag = 0 /\ hfile = 0
               /\ \A f \in Sn : Exists(f) => Complete(f)

(* The folder and the parse threads do what LogStore allows.               *)
Store == [f \in Logs |-> IF Complete(f) THEN "stored"
                         ELSE IF Exists(f) THEN "receiving" ELSE "absent"]

Abstract == INSTANCE LogStore WITH Numbers <- Logs, store <- Store,
                                   parsed <- parsed \cap Logs

RefinesLogStore == Abstract!Spec

-----------------------------------------------------------------------------
(* Liveness.                                                               *)

(* Stop comes to its end, although doSync sits in main_cs most of the time *)
(* and sends messages to the window while it does.                         *)
StopCompletes == \A k \in Stoppers : st[k] = "text" ~> st[k] = "idle"

(* Bytes of a log are lost and flag stays 2 for good: they came in one     *)
(* buffer with their header (CosmosReadCommProc.cpp:139), were not written *)
(* (:162), or no file was created for them (:29).                          *)
Lossy ==
  \E o \in Ports : \/ HasHeader(rbuf[o]) /\ Len(rbuf[o]) > 1
                   \/ rpc[o] = "short"
                   \/ rpc[o] = "read" /\ o = pcio /\ flag = 2 /\ hfile = 0

(* A doSync whose port is taken away ends, and one that finds no port to   *)
(* start with too, unless it waits for bytes that are lost.                *)
Connecting == {"test", "name", "copy", "open", "create"}

SyncEnds ==
  \A t \in Syncers :
    /\ pc[t] \notin Connecting /\ pcio = 0 ~> pc[t] = "idle"
    /\ pc[t] = "test" ~> pc[t] = "idle" \/ Lossy

(* Without Stop, a download with an open port stores every log up to the   *)
(* first number that the watch does not have; there is no second request   *)
(* for a log of which bytes are lost.                                      *)
FirstLogs == {f \in 1 .. MaxSn - 1 : \A g \in 1 .. f : LogSize[g] > 0}

SyncCompletes ==
  \A t \in Syncers :
    (pc[t] = "post" /\ pcio # 0 /\ port[pcio] = "open")
      ~> \/ \A f \in FirstLogs : Complete(f)
         \/ \E k \in Stoppers : st[k] # "idle"
         \/ Lossy

(* "parse the file just downloaded": a log whose last piece has set flag 3 *)
(* gets parsed, unless a Stop comes in between: the NULL test of the next  *)
(* pass precedes the test of flag 3 (MainProcFunc.cpp:161).                *)
DownloadedIsParsed ==
  \A f \in Logs \ MayFail :
    flag = 3 /\ dwName = f /\ pcio # 0
      ~> f \in parsed \/ \E k \in Stoppers : st[k] # "idle"
=============================================================================
