------------------------------- MODULE ComPort -------------------------------
(***************************************************************************)
(* ComIO, the object behind every serial port of the program, with what is *)
(* awkward about it: its critical section is a static member, so that all  *)
(* objects share one, which each constructor initialises and each          *)
(* destructor deletes; and the read thread that InitComIO starts keeps a   *)
(* plain pointer to the object and is never waited for.                    *)
(*                                                                         *)
(* A user is one of the two pointers to a ComIO: pcio, whose operations    *)
(* main_cs puts one behind the other (CosmosSync), and Form1->updateio.    *)
(* What the bytes mean is in CosmosSync and GWatchUpdate.                  *)
(*                                                                         *)
(* Heap blocks are reused.  A freed block, or one that InitComIO has not   *)
(* seen yet, holds "junk" for hCom, and a test of it may go either way.    *)
(*                                                                         *)
(* Nothing is assumed about timing, nor that one object is gone before the *)
(* next is made.  Two history variables remember what went wrong: misused  *)
(* and late.  No guard reads them, but for the bound GoesOn.               *)
(***************************************************************************)
EXTENDS Naturals, FiniteSets

CONSTANTS
  Users,      (* pcio and updateio                                         *)
  Single,     (* users that call InitComIO(TRUE): no read thread           *)
  Readers,    (* read threads                                              *)
  NoThread,   (* nobody owns cs                                            *)
  Deleted,    (* cs is not initialised                                     *)
  MaxObjects, (* bound: heap blocks                                        *)
  GoesOn      (* bound: FALSE if no object is made once cs is misused      *)

Objects == 1 .. MaxObjects
Threads == Users \cup Readers

ASSUME ComAssumption ==
  /\ Users \cap Readers = {}
  /\ Single \subseteq Users
  /\ {NoThread, Deleted} \cap Threads = {} /\ NoThread # Deleted
  /\ MaxObjects \in Nat \ {0}
  /\ GoesOn \in BOOLEAN

VARIABLES
  cs,    (* ComIO::cs: its owner, NoThread or Deleted                      *)
  hCom,  (* of each heap block: "junk", "null", "open" or "invalid"        *)
  obj,   (* each user's pointer, 0 for NULL                                *)
  upc,   (* where each user is                                             *)
  rpc,   (* where each read thread is                                      *)
  at,    (* the object its pointer names                                   *)
  misused,  (* cs was initialised while it was, or deleted while owned     *)
  late      (* read threads that the destructor of their object overtook   *)

history == <<misused, late>>
comVars == <<cs, hCom, obj, upc, rpc, at, history>>

UserPCs   == {"out", "made", "in", "enter", "io", "leave",
              "delete", "close", "sleep", "free"}
ReaderPCs == {"none", "test", "enter", "check", "read", "leave", "proc"}

ComTypeOK ==
  /\ cs \in Threads \cup {NoThread, Deleted}
  /\ hCom \in [Objects -> {"junk", "null", "open", "invalid"}]
  /\ obj \in [Users -> 0 .. MaxObjects]
  /\ upc \in [Users -> UserPCs]
  /\ rpc \in [Readers -> ReaderPCs]
  /\ at \in [Readers -> Objects]
  /\ misused \in BOOLEAN
  /\ late \subseteq Readers

ComInit ==
  /\ cs = Deleted
  /\ hCom = [a \in Objects |-> "junk"]
  /\ obj = [u \in Users |-> 0]
  /\ upc = [u \in Users |-> "out"]
  /\ rpc = [r \in Readers |-> "none"]
  /\ at = [r \in Readers |-> 1]
  /\ misused = FALSE
  /\ late = {}

UserGoto(u, l)   == upc' = [upc EXCEPT ![u] = l]
ReaderGoto(r, l) == rpc' = [rpc EXCEPT ![r] = l]

Freed(a)   == \A u \in Users : obj[u] # a
NonNull(a) == IF hCom[a] = "junk" THEN BOOLEAN ELSE {hCom[a] # "null"}

(* EnterCriticalSection; on a deleted section it waits for ever.           *)
Enter(x) == cs = NoThread /\ cs' = x

(* LeaveCriticalSection of a section that was initialised anew or deleted  *)
(* meanwhile leaves it with counts that nobody can enter on.               *)
LeaveCs(x) == cs' = IF cs = x THEN NoThread ELSE Deleted

-----------------------------------------------------------------------------
(* Construction.                                                           *)

(* Mutant: the constructor leaves the section as it is. *)
NewWithoutInitCS(u) ==
  /\ upc[u] = "out" /\ (misused => GoesOn)
  /\ \E a \in {b \in Objects : Freed(b)} : obj' = [obj EXCEPT ![u] = a]
  /\ misused' = (misused \/ cs # Deleted)
  /\ UserGoto(u, "made")
  /\ UNCHANGED <<cs, hCom, rpc, at, late>>

(* new ComIO: InitCS initialises cs, whoever is using it.                  *)
New(u) ==
  /\ upc[u] = "out" /\ (misused => GoesOn)
  /\ \E a \in {b \in Objects : Freed(b)} : obj' = [obj EXCEPT ![u] = a]
  /\ cs' = NoThread
  /\ misused' = (misused \/ cs # Deleted)
  /\ UserGoto(u, "made")
  /\ UNCHANGED <<hCom, rpc, at, late>>

(* InitComIO: the port opens for one handle at a time, a failure is        *)
(* neither noticed nor reported, and the read thread starts all the same.  *)
InitComIO(u) ==
  /\ upc[u] = "made"
  /\ \/ hCom' = [hCom EXCEPT ![obj[u]] = "invalid"]
     \/ /\ \A a \in Objects : hCom[a] # "open"
        /\ hCom' = [hCom EXCEPT ![obj[u]] = "open"]
  /\ IF u \in Single
     THEN UNCHANGED <<rpc, at>>
     ELSE \E r \in Readers : /\ rpc[r] = "none"
                             /\ ReaderGoto(r, "test")
                             /\ at' = [at EXCEPT ![r] = obj[u]]
  /\ UserGoto(u, "in")
  /\ UNCHANGED <<cs, obj, history>>

-----------------------------------------------------------------------------
(* WriteCom and ReadCom, called by a user.                                 *)

CallIo(u) ==
  /\ upc[u] = "in"
  /\ UserGoto(u, "enter")
  /\ UNCHANGED <<cs, hCom, obj, rpc, at, history>>

(* Mutant: ReadCom and WriteCom do not enter the section. *)
EnterIoUnlocked(u) ==
  /\ upc[u] = "enter"
  /\ UserGoto(u, IF hCom[obj[u]] = "open" THEN "io" ELSE "in")
  /\ UNCHANGED <<cs, hCom, obj, rpc, at, history>>

(* Enter, and the test of hCom; on an invalid handle the call fails.       *)
EnterIo(u) ==
  /\ upc[u] = "enter"
  /\ Enter(u)
  /\ UserGoto(u, IF hCom[obj[u]] = "open" THEN "io" ELSE "leave")
  /\ UNCHANGED <<hCom, obj, rpc, at, history>>

EndIo(u) ==
  /\ \/ upc[u] = "io" /\ UserGoto(u, "leave") /\ UNCHANGED cs
     \/ upc[u] = "leave" /\ UserGoto(u, "in") /\ LeaveCs(u)
  /\ UNCHANGED <<hCom, obj, rpc, at, history>>

-----------------------------------------------------------------------------
(* The read thread.                                                        *)

(* while(obj.getHandle()).                                                 *)
TestHandle(r) ==
  /\ rpc[r] = "test"
  /\ \E more \in NonNull(at[r]) :
       /\ ReaderGoto(r, IF more THEN "enter" ELSE "none")
       /\ late' = IF more THEN late ELSE late \ {r}
  /\ UNCHANGED <<cs, hCom, obj, upc, at, misused>>

EnterRead(r) ==
  /\ rpc[r] = "enter"
  /\ Enter(r)
  /\ ReaderGoto(r, "check")
  /\ UNCHANGED <<hCom, obj, upc, at, history>>

(* Mutant: ReadCom relies on the caller's getHandle. *)
CheckHandleNever(r) ==
  /\ rpc[r] = "check"
  /\ ReaderGoto(r, "read")
  /\ UNCHANGED <<cs, hCom, obj, upc, at, history>>

(* if(NULL != hCom); a ReadFile on a bad handle returns at once.           *)
CheckHandle(r) ==
  /\ rpc[r] = "check"
  /\ ReaderGoto(r, IF hCom[at[r]] = "open" THEN "read" ELSE "leave")
  /\ UNCHANGED <<cs, hCom, obj, upc, at, history>>

(* ReadFile returns within 100 ms, Leave, the registered proc and Sleep.   *)
ReadOn(r) ==
  /\ \/ rpc[r] = "read" /\ ReaderGoto(r, "leave") /\ UNCHANGED cs
     \/ rpc[r] = "leave" /\ ReaderGoto(r, "proc") /\ LeaveCs(r)
     \/ rpc[r] = "proc" /\ ReaderGoto(r, "test") /\ UNCHANGED cs
  /\ UNCHANGED <<hCom, obj, upc, at, history>>

-----------------------------------------------------------------------------
(* The destructor.                                                         *)

Delete(u) ==
  /\ upc[u] = "in"
  /\ UserGoto(u, "delete")
  /\ UNCHANGED <<cs, hCom, obj, rpc, at, history>>

EnterDelete(u) ==
  /\ upc[u] = "delete"
  /\ Enter(u)
  /\ UserGoto(u, "close")
  /\ UNCHANGED <<hCom, obj, rpc, at, history>>

(* The read threads of u's object that are at one of these steps.          *)
ReadersAt(u, steps) == {r \in Readers : at[r] = obj[u] /\ rpc[r] \in steps}

(* Mutant: the handle is closed, but hCom keeps its value. *)
DeinitKeepsHandle(u) ==
  /\ upc[u] = "close"
  /\ hCom' = [hCom EXCEPT ![obj[u]] = "invalid"]
  /\ late' = late \cup ReadersAt(u, {"enter"})
  /\ UserGoto(u, "sleep")
  /\ UNCHANGED <<cs, obj, rpc, at, misused>>

(* DeinitComIO.  A read thread that has passed its getHandle and waits for *)
(* cs is overtaken: only a test of hCom ends it, and it has had that.      *)
DeinitComIO(u) ==
  /\ upc[u] = "close"
  /\ hCom' = [hCom EXCEPT ![obj[u]] = "null"]
  /\ late' = late \cup ReadersAt(u, {"enter"})
  /\ UserGoto(u, "sleep")
  /\ UNCHANGED <<cs, obj, rpc, at, misused>>

(* Sleep(200) and LeaveCriticalSection: so is one whose proc or Sleep(50)  *)
(* took longer.                                                            *)
LeaveDelete(u) ==
  /\ upc[u] = "sleep"
  /\ LeaveCs(u)
  /\ late' = late \cup ReadersAt(u, {"test", "proc"})
  /\ UserGoto(u, "free")
  /\ UNCHANGED <<hCom, obj, rpc, at, misused>>

(* DeleteCriticalSection, the memory, and the pointer that the caller of   *)
(* delete sets to NULL.                                                    *)
Free(u) ==
  /\ upc[u] = "free"
  /\ cs' = Deleted
  /\ misused' = (misused \/ cs # NoThread)
  /\ hCom' = [hCom EXCEPT ![obj[u]] = "junk"]
  /\ obj' = [obj EXCEPT ![u] = 0]
  /\ UserGoto(u, "out")
  /\ UNCHANGED <<rpc, at, late>>

-----------------------------------------------------------------------------
Io(u)       == EnterIo(u) \/ EndIo(u)
Destroy(u)  == EnterDelete(u) \/ DeinitComIO(u) \/ LeaveDelete(u) \/ Free(u)
ReadStep(r) == TestHandle(r) \/ EnterRead(r) \/ CheckHandle(r) \/ ReadOn(r)

ComNext ==
  \/ \E u \in Users : New(u) \/ InitComIO(u) \/ CallIo(u) \/ Io(u) \/ Delete(u) \/ Destroy(u)
  \/ \E r \in Readers : ReadStep(r)

ComSpec == ComInit /\ [][ComNext]_comVars

(* Every thread keeps running.  Whoever waits for cs gets it in the end:   *)
(* the read thread leaves it in every pass, for its Sleep(50).             *)
ComLiveSpec ==
  /\ ComSpec
  /\ \A u \in Users : /\ SF_comVars(Io(u)) /\ SF_comVars(Destroy(u))
  /\ \A r \in Readers : SF_comVars(ReadStep(r))

-----------------------------------------------------------------------------
(* The shared section does its work: the handle is opened, used and closed *)
(* as PortUse says, whatever the order of reads, writes and deletions and  *)
(* however late a read thread is, until the section itself is initialised  *)
(* or deleted in use (ComIO.cpp:17, 21).                                   *)
Reading(r) == rpc[r] = "read"
Use == INSTANCE PortUse WITH
         open  <- {a \in Objects : hCom[a] = "open"},
         using <- {<<r, at[r]>> : r \in {q \in Readers : Reading(q)}}
                    \cup {<<u, obj[u]>> : u \in {v \in Users : upc[v] = "io"}}

RefinesPortUse ==
  /\ Use!UseInit
  /\ [][misused' \/ [Use!UseNext]_(Use!useVars)]_comVars

(* These are all the ways in which the destructor leaves a thread behind,  *)
(* waiting for a deleted section (ComIO.cpp:13, 77, 88): a second object   *)
(* was made beside the first; or a read thread stood between its getHandle *)
(* (:128) and its Enter (:77) while the handle was closed, or took longer  *)
(* over a pass than Sleep(200).  The late one then loses itself only, and  *)
(* nobody else holds the section when it is deleted.                       *)
NobodyIsLost ==
  ~misused =>
    /\ cs = Deleted => /\ \A u \in Users : upc[u] \notin {"enter", "delete"}
                       /\ \A r \in Readers : rpc[r] = "enter" => r \in late
    /\ \A u \in Users : upc[u] = "free" => cs \in late \cup {NoThread}

(* A read thread that is not late runs only as long as its object lives:   *)
(* it does not look at freed memory, and not at the next object that got   *)
(* the same block.                                                         *)
ReadsOwnObject ==
  ~misused => \A r \in Readers : rpc[r] # "none" /\ r \notin late =>
                \E u \in Users \ Single : obj[u] = at[r] /\ upc[u] # "made"

(* ComIO.cpp:66-67: to end the read thread nothing has to be done but to   *)
(* close the port.                                                         *)
ReaderEnds ==
  \A r \in Readers, u \in Users :
    rpc[r] # "none" /\ at[r] = obj[u] /\ upc[u] = "sleep" ~> rpc[r] = "none"

(* The destructor gets its turn beside read threads that have the section  *)
(* most of the time, late ones of earlier objects included, and returns.   *)
DeleteEnds == \A u \in Users : upc[u] = "delete" ~> upc[u] = "out" \/ misused
=============================================================================
