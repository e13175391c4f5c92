----------------------------- MODULE LogReceiver -----------------------------
(***************************************************************************)
(* CosmosReadCommProc: the object that turns the bytes read from the watch *)
(* into log files.  There is exactly one of it (the global rProc); the     *)
(* read thread of a port calls its proc() with what one ReadFile returned, *)
(* and the download thread reads and writes its public members flag and    *)
(* dwName and calls its DeleteLastFile().  No lock protects any of it, so  *)
(* every operation is cut here at the points where the other thread can    *)
(* see the difference.                                                     *)
(*                                                                         *)
(* Data is abstract: the watch answers a request for log f with the header *)
(* <<f, 0>> ("FREAD,<size>") followed by the pieces <<f, 1>>, <<f, 2>> ..  *)
(* of the log, and a byte count is a number of pieces.                     *)
(***************************************************************************)
EXTENDS Naturals, Sequences

CONSTANTS
  MaxSn,    (* serial numbers are below MaxSn (1000000 in doSync)          *)
  LogSize,  (* pieces of each log on the watch, 0 when it has no such log  *)
  NoFile    (* what the folder holds under a number that has no .tmp file  *)

Sn   == 0 .. MaxSn
Item == Sn \X Nat

ASSUME ReceiverAssumption ==
  /\ MaxSn \in Nat \ {0, 1}
  /\ LogSize \in [Sn -> Nat]
  /\ NoFile \notin Seq(Item)

VARIABLES
  flag,       (* 0 before request, 1 requested, 2 writing, 3 finished      *)
  dwName,     (* number the next file is created under                     *)
  hfile,      (* number of the file that is open for writing, 0 for NULL   *)
  lastFile,   (* szLastFile: number of the file InitFile named last        *)
  file_size,  (* size announced by the header                              *)
  total_recv, (* pieces written since the header                           *)
  disk        (* the folder: what is stored under each number              *)

recvVars == <<flag, dwName, hfile, lastFile, file_size, total_recv>>

Content(f)  == [k \in 1 .. LogSize[f] |-> <<f, k>>]
Exists(f)   == disk[f] # NoFile
Complete(f) == disk[f] = Content(f)
Logs        == {f \in Sn : LogSize[f] > 0}

ReceiverTypeOK ==
  /\ flag \in 0 .. 3
  /\ dwName \in Sn
  /\ hfile \in Sn
  /\ lastFile \in Sn
  /\ file_size \in Nat
  /\ total_recv \in Nat
  /\ disk \in [Sn -> Seq(Item) \cup {NoFile}]

(* The handle that proc() writes to is the handle of a file in the folder. *)
OpenFileExists == hfile # 0 => disk[hfile] # NoFile

(* A new process: the constructor, and zero for the members of the global  *)
(* object that the constructor does not set.                               *)
ReceiverStart ==
  /\ flag = 0 /\ dwName = 0 /\ hfile = 0
  /\ lastFile = 0 /\ file_size = 0 /\ total_recv = 0

ReceiverRestart ==
  /\ flag' = 0 /\ dwName' = 0 /\ hfile' = 0
  /\ lastFile' = 0 /\ file_size' = 0 /\ total_recv' = 0

(* The tag is looked for in the whole buffer, not only at its start.       *)
IsHeader(item)   == item[2] = 0
HasHeader(chunk) == \E j \in DOMAIN chunk : IsHeader(chunk[j])
HeaderIn(chunk)  == {j \in DOMAIN chunk : /\ IsHeader(chunk[j])
                                         /\ \A m \in 1 .. (j - 1) : ~IsHeader(chunk[m])}

-----------------------------------------------------------------------------
(* Mutant: a header does not set flag to 2. *)
ProcHeaderKeepsFlag(size) ==
  /\ total_recv' = 0
  /\ file_size' = size
  /\ flag' = IF size = 0 THEN 1 ELSE flag
  /\ UNCHANGED <<dwName, hfile, lastFile, disk>>

(* Mutant: a header does not reset the count. *)
ProcHeaderKeepsCount(size) ==
  /\ file_size' = size
  /\ flag' = IF size = 0 THEN 1 ELSE 2
  /\ UNCHANGED <<total_recv, dwName, hfile, lastFile, disk>>

(* proc() on a buffer in which a tag is found: case 3, FREAD, with the     *)
(* size after the first comma.  The rest of the buffer is not looked at.   *)
ProcHeader(size) ==
  /\ total_recv' = 0
  /\ file_size' = size
  /\ flag' = IF size = 0 THEN 1 ELSE 2
  /\ UNCHANGED <<dwName, hfile, lastFile, disk>>

(* InitFile(dwName) up to the copy into szLastFile.                        *)
InitFileName ==
  /\ hfile' = 0
  /\ lastFile' = dwName
  /\ UNCHANGED <<flag, dwName, file_size, total_recv, disk>>

(* The rest of InitFile: CreateFile with CREATE_ALWAYS truncates.  It may  *)
(* fail (a doParseFile thread has the file open, the disk is full), and    *)
(* nobody looks: the invalid handle takes no writes, as NULL would not.    *)
InitFileCreate ==
  /\ \/ /\ disk' = [disk EXCEPT ![lastFile] = <<>>]
        /\ hfile' = lastFile
     \/ UNCHANGED <<disk, hfile>>
  /\ UNCHANGED <<flag, dwName, lastFile, file_size, total_recv>>

(* proc() on a buffer without a tag: the test and the WriteFile, which     *)
(* writes part of the buffer or all of it; none of it when it fails.       *)
Writable == flag = 2 /\ hfile # 0

ProcContent(part) ==
  /\ Writable
  /\ disk' = [disk EXCEPT ![hfile] = @ \o part]
  /\ UNCHANGED recvVars

(* Mutant: the file is not closed when it is complete. *)
ProcCountKeepsOpen(n) ==
  /\ total_recv' = total_recv + n
  /\ UNCHANGED <<flag, dwName, hfile, lastFile, file_size, disk>>

(* After the WriteFile: count what it wrote, and close the file at the     *)
(* end; a write that failed adds nothing and cannot be the last.           *)
ProcCount(n) ==
  /\ total_recv' = total_recv + n
  /\ hfile' = IF total_recv + n >= file_size THEN 0 ELSE hfile
  /\ UNCHANGED <<flag, dwName, lastFile, file_size, disk>>

ProcFinished ==
  /\ flag' = 3
  /\ UNCHANGED <<dwName, hfile, lastFile, file_size, total_recv, disk>>

(* DeinitFile(), as DeleteLastFile calls it.                               *)
DeinitFile ==
  /\ hfile' = 0
  /\ UNCHANGED <<flag, dwName, lastFile, file_size, total_recv, disk>>

(* DeleteFile(szLastFile): no effect before any file was named, on a       *)
(* number without a file, or on a file that someone has open.              *)
DeleteNamed(held) ==
  /\ \/ /\ lastFile \notin {0, hfile}
        /\ disk' = [disk EXCEPT ![lastFile] = NoFile]
     \/ /\ lastFile \in {0, hfile} \cup held
        /\ UNCHANGED disk
  /\ UNCHANGED recvVars
=============================================================================
