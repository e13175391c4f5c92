---------------------------- MODULE ComPortProofs ----------------------------
(***************************************************************************)
(* ComPort for every number of users, read threads and heap blocks, and    *)
(* for every timing of them: what the shared section guarantees until it   *)
(* is itself initialised or deleted while somebody uses it (misused), and  *)
(* what every read thread does that no destructor has overtaken (late).    *)
(***************************************************************************)
EXTENDS ComPort, TLAPS

Busy(u)    == upc[u] # "out"
Running(r) == rpc[r] # "none"

(* A user has an object from New to Free.                                  *)
PointerFits == \A u \in Users : Busy(u) <=> obj[u] # 0

(* New finds the section deleted, so there is no other object.             *)
OneUser == \A u, v \in Users : Busy(u) /\ Busy(v) => u = v

(* The handle of the object, as its user goes through its life.            *)
HandleFits ==
  \A u \in Users :
    /\ upc[u] \in {"in", "enter", "io", "leave", "delete", "close"}
         => hCom[obj[u]] \in {"open", "invalid"}
    /\ upc[u] = "io" => hCom[obj[u]] = "open"
    /\ upc[u] \in {"sleep", "free"} => hCom[obj[u]] = "null"

(* Nothing is open but that.                                               *)
OpenIsOwned ==
  \A a \in Objects : hCom[a] = "open" =>
    \E u \in Users : /\ obj[u] = a
                     /\ upc[u] \in {"in", "enter", "io", "leave", "delete", "close"}

(* A read thread that is not late belongs to the user's object.  It does   *)
(* not wait for cs once the handle is closed, and has ended when the       *)
(* destructor leaves cs.                                                   *)
OnTime(r) == Running(r) /\ r \notin late

ReaderFits ==
  /\ ReadsOwnObject
  /\ \A r \in Readers, u \in Users : OnTime(r) /\ Busy(u) =>
       /\ upc[u] = "sleep" => rpc[r] # "enter"
       /\ upc[u] # "free"

(* Late or not, a read thread is in a ReadFile on an open handle only: a   *)
(* late one may have found the next object in its block.                   *)
ReadingOpen == \A r \in Readers : Reading(r) => hCom[at[r]] = "open"

(* The owner of the section is the thread that is inside.                  *)
UserIn(u)   == upc[u] \in {"io", "leave", "close", "sleep"}
ReaderIn(r) == rpc[r] \in {"check", "read", "leave"}

SectionFits ==
  /\ \A u \in Users : UserIn(u) <=> cs = u
  /\ \A r \in Readers : ReaderIn(r) <=> cs = r
  /\ cs = Deleted => \A u \in Users : ~Busy(u)

Orderly ==
  OneUser /\ HandleFits /\ OpenIsOwned /\ ReaderFits /\ ReadingOpen /\ SectionFits

ComInv == ComTypeOK /\ PointerFits /\ (~misused => Orderly)

-----------------------------------------------------------------------------
(* At the start nobody has an object and every block is closed.            *)
LEMMA ComInvInit == ComInit => ComInv
<1> SUFFICES ASSUME ComInit PROVE ComInv
  OBVIOUS
<1>1. ComTypeOK
  <2>1. 1 \in Objects /\ 0 \in 0 .. MaxObjects
    BY ComAssumption DEF Objects
  <2> QED
    BY <2>1 DEF ComInit, ComTypeOK, UserPCs, ReaderPCs
<1>2. PointerFits /\ OneUser /\ HandleFits /\ OpenIsOwned /\ ReaderFits /\ ReadingOpen
  BY DEF ComInit, PointerFits, OneUser, Busy, HandleFits, OpenIsOwned, ReaderFits,
         ReadsOwnObject, OnTime, Running, ReadingOpen, Reading
<1>3. SectionFits
  BY ComAssumption DEF ComInit, SectionFits, UserIn, ReaderIn, Busy, Threads
<1> QED
  BY <1>1, <1>2, <1>3 DEF ComInv, Orderly

-----------------------------------------------------------------------------
(* Types.                                                                  *)
LEMMA ComTypeNext ==
  ComTypeOK /\ PointerFits /\ [ComNext]_comVars => ComTypeOK' /\ PointerFits'
<1> SUFFICES ASSUME ComTypeOK, PointerFits, [ComNext]_comVars
             PROVE  ComTypeOK' /\ PointerFits'
  OBVIOUS
<1> USE ComAssumption
    DEF ComTypeOK, PointerFits, Busy, UserPCs, ReaderPCs, Objects, Threads,
        UserGoto, ReaderGoto, history
<1>1. ASSUME NEW u \in Users, New(u) PROVE ComTypeOK' /\ PointerFits'
  BY <1>1 DEF New
<1>2. ASSUME NEW u \in Users, InitComIO(u) PROVE ComTypeOK' /\ PointerFits'
  <2>1. obj[u] \in Objects /\ upc' = [upc EXCEPT ![u] = "in"]
    BY <1>2 DEF InitComIO
  <2>2. hCom' \in [Objects -> {"junk", "null", "open", "invalid"}]
    BY <1>2 DEF InitComIO
  <2>3. rpc' \in [Readers -> ReaderPCs]
    <3>1. rpc' = rpc \/ \E r \in Readers : rpc' = [rpc EXCEPT ![r] = "test"]
      BY <1>2 DEF InitComIO
    <3> QED
      BY <3>1
  <2>4. at' \in [Readers -> Objects]
    <3>1. at' = at \/ \E r \in Readers : at' = [at EXCEPT ![r] = obj[u]]
      BY <1>2 DEF InitComIO
    <3> QED
      BY <2>1, <3>1
  <2> QED
    BY <1>2, <2>1, <2>2, <2>3, <2>4 DEF InitComIO
<1>3. ASSUME NEW u \in Users, CallIo(u) \/ Io(u) PROVE ComTypeOK' /\ PointerFits'
  BY <1>3 DEF CallIo, Io, EnterIo, EndIo, Enter, LeaveCs
<1>4. ASSUME NEW u \in Users, Delete(u) \/ Destroy(u) PROVE ComTypeOK' /\ PointerFits'
  <2>1. CASE Delete(u) \/ EnterDelete(u)
    BY <2>1 DEF Delete, EnterDelete, Enter
  <2>2. CASE DeinitComIO(u)
    BY <2>2 DEF DeinitComIO, ReadersAt
  <2>3. CASE LeaveDelete(u)
    BY <2>3 DEF LeaveDelete, LeaveCs, ReadersAt
  <2>4. CASE Free(u)
    <3>1. hCom' \in [Objects -> {"junk", "null", "open", "invalid"}]
      BY <2>4 DEF Free
    <3>2. obj' \in [Users -> 0 .. MaxObjects]
      BY <2>4 DEF Free
    <3>3. upc' \in [Users -> UserPCs]
      BY <2>4 DEF Free
    <3>4. PointerFits'
      BY <2>4 DEF Free
    <3> QED
      BY <2>4, <3>1, <3>2, <3>3, <3>4 DEF Free
  <2> QED
    BY <1>4, <2>1, <2>2, <2>3, <2>4 DEF Destroy
<1>5. ASSUME NEW r \in Readers, ReadStep(r) PROVE ComTypeOK' /\ PointerFits'
  BY <1>5 DEF ReadStep, TestHandle, EnterRead, CheckHandle, ReadOn, Enter, LeaveCs
<1>6. CASE UNCHANGED comVars
  BY <1>6 DEF comVars
<1> QED
  BY <1>1, <1>2, <1>3, <1>4, <1>5, <1>6 DEF ComNext

-----------------------------------------------------------------------------
(* What a misused section breaks stays so: the steps to look at are those  *)
(* before.                                                                 *)
LEMMA MisusedStays ==
  ASSUME ComTypeOK, [ComNext]_comVars PROVE misused => misused'
  BY DEF ComTypeOK, ComNext, New, InitComIO, CallIo, Io, EnterIo, EndIo, Delete, Destroy,
         EnterDelete, DeinitComIO, LeaveDelete, Free, ReadStep, TestHandle,
         EnterRead, CheckHandle, ReadOn, comVars, history

(* Each part of the invariant, action by action.                           *)

(* A second user constructs an object only after the first is done.        *)
LEMMA OneUserNext ==
  ASSUME ComTypeOK, OneUser, SectionFits, ~misused', [ComNext]_comVars PROVE OneUser'
<1> USE ComAssumption
    DEF ComTypeOK, UserPCs, Objects, OneUser, Busy, UserGoto, ReaderGoto
<1>1. ASSUME NEW u \in Users, New(u) PROVE OneUser'
  BY <1>1 DEF New, SectionFits
<1>2. ASSUME NEW u \in Users, InitComIO(u) PROVE OneUser'
  BY <1>2 DEF InitComIO
<1>3. ASSUME NEW u \in Users, CallIo(u) \/ Io(u) PROVE OneUser'
  <2>1. CASE CallIo(u)
    BY <2>1 DEF CallIo
  <2>2. CASE EnterIo(u)
    BY <2>2 DEF EnterIo, Enter
  <2>3. CASE EndIo(u)
    <3>1. PICK l \in {"leave", "in"} : upc' = [upc EXCEPT ![u] = l]
      BY <2>3 DEF EndIo
    <3>2. upc[u] \in {"io", "leave"} /\ UNCHANGED <<hCom, obj, rpc, at, history>>
      BY <2>3 DEF EndIo
    <3> QED
      BY <3>1, <3>2
  <2> QED
    BY <1>3, <2>1, <2>2, <2>3 DEF Io
<1>4. ASSUME NEW u \in Users, Delete(u) \/ Destroy(u) PROVE OneUser'
  <2>1. CASE Delete(u) \/ EnterDelete(u) \/ DeinitComIO(u)
    BY <2>1 DEF Delete, EnterDelete, DeinitComIO
  <2>2. CASE LeaveDelete(u)
    BY <2>2 DEF LeaveDelete
  <2>3. CASE Free(u)
    BY <2>3 DEF Free
  <2> QED
    BY <1>4, <2>1, <2>2, <2>3 DEF Destroy
<1>5. ASSUME NEW r \in Readers, ReadStep(r) PROVE OneUser'
  BY <1>5 DEF ReadStep, TestHandle, EnterRead, CheckHandle, ReadOn
<1>6. CASE UNCHANGED comVars
  BY <1>6 DEF comVars
<1> QED
  BY <1>1, <1>2, <1>3, <1>4, <1>5, <1>6 DEF ComNext

(* hCom of a user's block follows where the user is.                       *)
LEMMA HandleNext ==
  ASSUME ComTypeOK, PointerFits, OneUser, HandleFits, SectionFits, ~misused',
         [ComNext]_comVars
  PROVE  HandleFits'
<1> USE ComAssumption
    DEF ComTypeOK, UserPCs, Objects, PointerFits, OneUser, Busy, HandleFits,
        UserGoto, ReaderGoto
<1>1. ASSUME NEW u \in Users, New(u) PROVE HandleFits'
  BY <1>1 DEF New, SectionFits
<1>2. ASSUME NEW u \in Users, InitComIO(u) PROVE HandleFits'
  BY <1>2 DEF InitComIO
<1>3. ASSUME NEW u \in Users, CallIo(u) \/ Io(u) PROVE HandleFits'
  BY <1>3 DEF CallIo, Io, EnterIo, EndIo
<1>4. ASSUME NEW u \in Users, Delete(u) \/ Destroy(u) PROVE HandleFits'
  <2>1. CASE Delete(u) \/ EnterDelete(u)
    BY <2>1 DEF Delete, EnterDelete
  <2>2. CASE DeinitComIO(u)
    BY <2>2 DEF DeinitComIO
  <2>3. CASE LeaveDelete(u)
    BY <2>3 DEF LeaveDelete
  <2>4. CASE Free(u)
    BY <2>4 DEF Free
  <2> QED
    BY <1>4, <2>1, <2>2, <2>3, <2>4 DEF Destroy
<1>5. ASSUME NEW r \in Readers, ReadStep(r) PROVE HandleFits'
  BY <1>5 DEF ReadStep, TestHandle, EnterRead, CheckHandle, ReadOn
<1>6. CASE UNCHANGED comVars
  BY <1>6 DEF comVars
<1> QED
  BY <1>1, <1>2, <1>3, <1>4, <1>5, <1>6 DEF ComNext

(* No block stays open that no user has.                                   *)
LEMMA OwnedNext ==
  ASSUME ComTypeOK, PointerFits, OneUser, HandleFits, OpenIsOwned, SectionFits,
         ~misused', [ComNext]_comVars
  PROVE  OpenIsOwned'
<1> USE ComAssumption
    DEF ComTypeOK, UserPCs, Objects, PointerFits, OneUser, Busy, OpenIsOwned,
        UserGoto, ReaderGoto
<1>1. ASSUME NEW u \in Users, New(u) PROVE OpenIsOwned'
  BY <1>1 DEF New, SectionFits
<1>2. ASSUME NEW u \in Users, InitComIO(u) PROVE OpenIsOwned'
  BY <1>2 DEF InitComIO
<1>3. ASSUME NEW u \in Users, CallIo(u) \/ Io(u) PROVE OpenIsOwned'
  <2>1. CASE CallIo(u)
    BY <2>1 DEF CallIo
  <2>2. CASE EnterIo(u)
    BY <2>2 DEF EnterIo, Enter
  <2>3. CASE EndIo(u)
    <3>1. PICK l \in {"leave", "in"} : upc' = [upc EXCEPT ![u] = l]
      BY <2>3 DEF EndIo
    <3>2. upc[u] \in {"io", "leave"} /\ UNCHANGED <<hCom, obj, rpc, at, history>>
      BY <2>3 DEF EndIo
    <3> QED
      BY <3>1, <3>2
  <2> QED
    BY <1>3, <2>1, <2>2, <2>3 DEF Io
<1>4. ASSUME NEW u \in Users, Delete(u) \/ Destroy(u) PROVE OpenIsOwned'
  <2>1. CASE Delete(u) \/ EnterDelete(u)
    BY <2>1 DEF Delete, EnterDelete, Enter
  <2>2. CASE DeinitComIO(u)
    BY <2>2 DEF DeinitComIO
  <2>3. CASE LeaveDelete(u)
    BY <2>3 DEF LeaveDelete, LeaveCs, HandleFits
  <2>4. CASE Free(u)
    BY <2>4 DEF Free, HandleFits
  <2> QED
    BY <1>4, <2>1, <2>2, <2>3, <2>4 DEF Destroy
<1>5. ASSUME NEW r \in Readers, ReadStep(r) PROVE OpenIsOwned'
  BY <1>5 DEF ReadStep, TestHandle, EnterRead, CheckHandle, ReadOn
<1>6. CASE UNCHANGED comVars
  BY <1>6 DEF comVars
<1> QED
  BY <1>1, <1>2, <1>3, <1>4, <1>5, <1>6 DEF ComNext

(* A read thread ends within the sleep of its destructor, or is late.      *)
LEMMA ReaderNext ==
  ASSUME ComTypeOK, PointerFits, OneUser, HandleFits, ReaderFits, SectionFits,
         ~misused, ~misused', [ComNext]_comVars
  PROVE  ReaderFits'
<1> USE ComAssumption
    DEF ComTypeOK, UserPCs, ReaderPCs, Objects, PointerFits, OneUser, Busy, OnTime, Running,
        ReaderFits, ReadsOwnObject, UserGoto, ReaderGoto, history
<1>1. ASSUME NEW u \in Users, New(u) PROVE ReaderFits'
  BY <1>1 DEF New, SectionFits
<1>2. ASSUME NEW u \in Users, InitComIO(u) PROVE ReaderFits'
  BY <1>2 DEF InitComIO
<1>3. ASSUME NEW u \in Users, CallIo(u) \/ Io(u) PROVE ReaderFits'
  <2>1. CASE CallIo(u)
    BY <2>1 DEF CallIo
  <2>2. CASE EnterIo(u)
    BY <2>2 DEF EnterIo, Enter
  <2>3. CASE EndIo(u)
    <3>1. PICK l \in {"leave", "in"} : upc' = [upc EXCEPT ![u] = l]
      BY <2>3 DEF EndIo
    <3>2. upc[u] \in {"io", "leave"} /\ UNCHANGED <<hCom, obj, rpc, at, history>>
      BY <2>3 DEF EndIo
    <3> QED
      BY <3>1, <3>2
  <2> QED
    BY <1>3, <2>1, <2>2, <2>3 DEF Io
<1>4. ASSUME NEW u \in Users, Delete(u) \/ Destroy(u) PROVE ReaderFits'
  <2>1. CASE Delete(u)
    BY <2>1 DEF Delete
  <2>2. CASE EnterDelete(u)
    BY <2>2 DEF EnterDelete
  <2>3. CASE DeinitComIO(u)
    <3>1. /\ upc[u] = "close" /\ upc' = [upc EXCEPT ![u] = "sleep"]
          /\ obj' = obj /\ rpc' = rpc /\ at' = at /\ misused' = misused
      BY <2>3 DEF DeinitComIO
    <3>2. late' = late \cup {r \in Readers : at[r] = obj[u] /\ rpc[r] \in {"enter"}}
      BY <2>3 DEF DeinitComIO, ReadersAt
    <3>3. \A r \in Readers : OnTime(r)' => OnTime(r) /\ rpc[r] # "enter" /\ at[r] = obj[u]
      BY <3>1, <3>2
    <3> QED
      BY <3>1, <3>3
  <2>4. CASE LeaveDelete(u)
    <3>1. /\ upc[u] = "sleep" /\ upc' = [upc EXCEPT ![u] = "free"]
          /\ obj' = obj /\ rpc' = rpc /\ at' = at /\ misused' = misused
      BY <2>4 DEF LeaveDelete
    <3>2. late' = late \cup {r \in Readers : at[r] = obj[u] /\ rpc[r] \in {"test", "proc"}}
      BY <2>4 DEF LeaveDelete, ReadersAt
    <3>3. cs = u /\ \A r \in Readers : rpc[r] \notin {"check", "read", "leave"}
      BY <3>1 DEF SectionFits, UserIn, ReaderIn
    <3>4. ASSUME NEW r \in Readers, OnTime(r)' PROVE FALSE
      BY <3>1, <3>2, <3>3, <3>4
    <3> QED
      BY <3>4
  <2>5. CASE Free(u)
    <3>1. \A r \in Readers : ~OnTime(r)
      BY <2>5 DEF Free
    <3>2. \A r \in Readers : ~OnTime(r)'
      BY <2>5, <3>1 DEF Free
    <3> QED
      BY <3>2
  <2> QED
    BY <1>4, <2>1, <2>2, <2>3, <2>4, <2>5 DEF Destroy
<1>5. ASSUME NEW r \in Readers, ReadStep(r) PROVE ReaderFits'
  <2>0. hCom' = hCom /\ obj' = obj /\ upc' = upc /\ at' = at /\ misused' = misused
    BY <1>5 DEF ReadStep, TestHandle, EnterRead, CheckHandle, ReadOn
  <2>1. ASSUME NEW l \in ReaderPCs, rpc' = [rpc EXCEPT ![r] = l], rpc[r] # "none",
               late' = late, l # "enter"
        PROVE  ReaderFits'
    <3>1. \A q \in Readers : OnTime(q)' => OnTime(q) /\ (rpc'[q] = "enter" => rpc[q] = "enter")
      BY <2>1
    <3> QED
      BY <2>0, <3>1
  <2>2. CASE TestHandle(r)
    <3>1. CASE rpc' = [rpc EXCEPT ![r] = "none"]
      <4>1. \A q \in Readers : OnTime(q)' => OnTime(q) /\ rpc'[q] = rpc[q]
        BY <2>2, <3>1 DEF TestHandle
      <4> QED
        BY <2>0, <4>1
    <3>2. CASE rpc' = [rpc EXCEPT ![r] = "enter"] /\ late' = late /\ TRUE \in NonNull(at[r])
      <4>1. \A u \in Users : obj[u] = at[r] => upc[u] \notin {"sleep", "free"}
        BY <3>2 DEF HandleFits, NonNull
      <4>2. \A q \in Readers : OnTime(q)' => OnTime(q) /\ (q # r => rpc'[q] = rpc[q])
        BY <2>2, <3>2 DEF TestHandle
      <4> QED
        BY <2>0, <4>1, <4>2
    <3> QED
      BY <2>2, <3>1, <3>2 DEF TestHandle
  <2>3. CASE EnterRead(r)
    BY <2>1, <2>3 DEF EnterRead
  <2>4. CASE CheckHandle(r)
    BY <2>1, <2>4 DEF CheckHandle
  <2>5. CASE ReadOn(r)
    BY <2>1, <2>5 DEF ReadOn
  <2> QED
    BY <1>5, <2>2, <2>3, <2>4, <2>5 DEF ReadStep
<1>6. CASE UNCHANGED comVars
  BY <1>6 DEF comVars
<1> QED
  BY <1>1, <1>2, <1>3, <1>4, <1>5, <1>6 DEF ComNext

(* A handle is opened, closed and forgotten while no read thread is in a   *)
(* ReadFile on it.                                                         *)
LEMMA ReadingNext ==
  ASSUME ComTypeOK, PointerFits, HandleFits, ReadingOpen, SectionFits, OneUser,
         OpenIsOwned, [ComNext]_comVars
  PROVE  ReadingOpen'
<1> USE ComAssumption
    DEF ComTypeOK, UserPCs, ReaderPCs, Objects, PointerFits, Busy, ReadingOpen, Reading,
        UserGoto, ReaderGoto, history
<1>1. ASSUME NEW u \in Users, New(u) PROVE ReadingOpen'
  BY <1>1 DEF New
<1>2. ASSUME NEW u \in Users, InitComIO(u) PROVE ReadingOpen'
  <2>1. upc[u] = "made" /\ \A r \in Readers : at[r] \in Objects
    BY <1>2 DEF InitComIO
  <2>2. ASSUME NEW a \in Objects, hCom[a] = "open" PROVE FALSE
    <3>1. PICK v \in Users : upc[v] # "out" /\ upc[v] # "made"
      BY <2>2 DEF OpenIsOwned
    <3> QED
      BY <2>1, <3>1 DEF OneUser
  <2>3. \A r \in Readers : rpc[r] # "read"
    BY <2>1, <2>2
  <2>4. rpc' = rpc \/ \E r \in Readers : rpc' = [rpc EXCEPT ![r] = "test"]
    BY <1>2 DEF InitComIO
  <2>5. \A r \in Readers : rpc'[r] # "read"
    BY <2>3, <2>4
  <2> QED
    BY <2>5
<1>3. ASSUME NEW u \in Users, CallIo(u) \/ Io(u) PROVE ReadingOpen'
  BY <1>3 DEF CallIo, Io, EnterIo, EndIo
<1>4. ASSUME NEW u \in Users, Delete(u) \/ Destroy(u) PROVE ReadingOpen'
  <2>1. CASE Delete(u) \/ EnterDelete(u) \/ LeaveDelete(u)
    BY <2>1 DEF Delete, EnterDelete, LeaveDelete
  <2>2. CASE DeinitComIO(u)
    <3>1. cs = u
      BY <2>2 DEF DeinitComIO, SectionFits, UserIn
    <3>2. \A r \in Readers : rpc[r] # "read"
      BY <3>1 DEF SectionFits, ReaderIn
    <3> QED
      BY <2>2, <3>2 DEF DeinitComIO
  <2>3. CASE Free(u)
    <3>1. upc[u] = "free" /\ hCom[obj[u]] = "null" /\ hCom' = [hCom EXCEPT ![obj[u]] = "junk"]
      BY <2>3 DEF Free, HandleFits
    <3> QED
      BY <2>3, <3>1 DEF Free
  <2> QED
    BY <1>4, <2>1, <2>2, <2>3 DEF Destroy
<1>5. ASSUME NEW r \in Readers, ReadStep(r) PROVE ReadingOpen'
  <2>1. CASE TestHandle(r)
    BY <2>1 DEF TestHandle
  <2>2. CASE EnterRead(r)
    BY <2>2 DEF EnterRead
  <2>3. CASE CheckHandle(r)
    BY <2>3 DEF CheckHandle
  <2>4. CASE ReadOn(r)
    BY <2>4 DEF ReadOn
  <2> QED
    BY <1>5, <2>1, <2>2, <2>3, <2>4 DEF ReadStep
<1>6. CASE UNCHANGED comVars
  BY <1>6 DEF comVars
<1> QED
  BY <1>1, <1>2, <1>3, <1>4, <1>5, <1>6 DEF ComNext

(* Enter and Leave match, and cs is deleted after its last user.           *)
LEMMA SectionNext ==
  ASSUME ComTypeOK, OneUser, SectionFits, ~misused, ~misused', [ComNext]_comVars
  PROVE  SectionFits'
<1> USE ComAssumption
    DEF ComTypeOK, UserPCs, ReaderPCs, Objects, Threads, Busy, SectionFits,
        UserIn, ReaderIn, UserGoto, ReaderGoto, history
<1>1. ASSUME NEW u \in Users, New(u) PROVE SectionFits'
  <2>1. cs = Deleted /\ cs' = NoThread /\ rpc' = rpc /\ upc' = [upc EXCEPT ![u] = "made"]
    BY <1>1 DEF New
  <2> QED
    BY <2>1
<1>2. ASSUME NEW u \in Users, InitComIO(u) PROVE SectionFits'
  BY <1>2 DEF InitComIO
<1>3. ASSUME NEW u \in Users, CallIo(u) \/ Io(u) PROVE SectionFits'
  <2>1. CASE CallIo(u)
    BY <2>1 DEF CallIo
  <2>2. CASE EnterIo(u)
    BY <2>2 DEF EnterIo, Enter
  <2>3. CASE EndIo(u)
    BY <2>3 DEF EndIo, LeaveCs
  <2> QED
    BY <1>3, <2>1, <2>2, <2>3 DEF Io
<1>4. ASSUME NEW u \in Users, Delete(u) \/ Destroy(u) PROVE SectionFits'
  <2>1. CASE Delete(u)
    BY <2>1 DEF Delete
  <2>2. CASE EnterDelete(u)
    BY <2>2 DEF EnterDelete, Enter
  <2>3. CASE DeinitComIO(u)
    BY <2>3 DEF DeinitComIO
  <2>4. CASE LeaveDelete(u)
    BY <2>4 DEF LeaveDelete, LeaveCs
  <2>5. CASE Free(u)
    <3>1. \A v \in Users : v # u => ~Busy(v)
      BY <2>5 DEF Free, OneUser
    <3>2. cs = NoThread /\ cs' = Deleted /\ rpc' = rpc /\ upc' = [upc EXCEPT ![u] = "out"]
      BY <2>5 DEF Free
    <3>3. \A r \in Readers : ~ReaderIn(r)
      BY <3>2
    <3> QED
      BY <3>1, <3>2, <3>3
  <2> QED
    BY <1>4, <2>1, <2>2, <2>3, <2>4, <2>5 DEF Destroy
<1>5. ASSUME NEW r \in Readers, ReadStep(r) PROVE SectionFits'
  <2>1. CASE TestHandle(r)
    BY <2>1 DEF TestHandle, NonNull
  <2>2. CASE EnterRead(r)
    BY <2>2 DEF EnterRead, Enter
  <2>3. CASE CheckHandle(r)
    BY <2>3 DEF CheckHandle
  <2>4. CASE ReadOn(r)
    BY <2>4 DEF ReadOn, LeaveCs
  <2> QED
    BY <1>5, <2>1, <2>2, <2>3, <2>4 DEF ReadStep
<1>6. CASE UNCHANGED comVars
  BY <1>6 DEF comVars
<1> QED
  BY <1>1, <1>2, <1>3, <1>4, <1>5, <1>6 DEF ComNext

(* The parts of ComInv together.                                           *)
LEMMA ComInvNext == ComInv /\ [ComNext]_comVars => ComInv'
<1> SUFFICES ASSUME ComInv, [ComNext]_comVars PROVE ComInv'
  OBVIOUS
<1>1. ComTypeOK /\ PointerFits /\ ComTypeOK' /\ PointerFits'
  BY ComTypeNext DEF ComInv
<1>2. ASSUME ~misused' PROVE Orderly'
  <2>1. ~misused /\ OneUser /\ HandleFits /\ OpenIsOwned /\ ReaderFits /\ ReadingOpen
          /\ SectionFits
    BY <1>1, <1>2, MisusedStays DEF ComInv, Orderly
  <2>2. OneUser' /\ HandleFits' /\ OpenIsOwned'
    BY <1>1, <1>2, <2>1, OneUserNext, HandleNext, OwnedNext
  <2>3. ReaderFits' /\ ReadingOpen' /\ SectionFits'
    BY <1>1, <1>2, <2>1, ReaderNext, ReadingNext, SectionNext
  <2> QED
    BY <2>2, <2>3 DEF Orderly
<1> QED
  BY <1>1, <1>2 DEF ComInv

(* ComInv is an invariant, with no assumption about timing.                *)
LEMMA ComInvAlways == ComSpec => []ComInv
  BY ComInvInit, ComInvNext, PTL DEF ComSpec

-----------------------------------------------------------------------------
(* Pointers name heap blocks, and the position of each thread is one of    *)
(* its steps, whatever becomes of the section.                             *)
THEOREM ComTypes == ComSpec => []ComTypeOK
<1>1. ComInv => ComTypeOK
  BY DEF ComInv
<1> QED
  BY <1>1, ComInvAlways, PTL

-----------------------------------------------------------------------------
(* Who waits for a deleted section, or is left in one, while the section   *)
(* was not misused, is a read thread that its own destructor overtook      *)
(* (ComIO.cpp:13, 77, 128).                                                *)
THEOREM NobodyLost == ComSpec => []NobodyIsLost
<1>1. ComInv => NobodyIsLost
  <2> SUFFICES ASSUME ComInv, ~misused
               PROVE  /\ cs = Deleted =>
                           /\ \A u \in Users : upc[u] \notin {"enter", "delete"}
                           /\ \A r \in Readers : rpc[r] = "enter" => r \in late
                      /\ \A u \in Users : upc[u] = "free" => cs \in late \cup {NoThread}
    BY DEF NobodyIsLost
  <2> USE DEF ComInv, Orderly
  <2>1. ASSUME cs = Deleted
        PROVE  /\ \A u \in Users : upc[u] \notin {"enter", "delete"}
               /\ \A r \in Readers : rpc[r] = "enter" => r \in late
    <3>1. \A u \in Users : upc[u] = "out" /\ obj[u] = 0
      BY <2>1 DEF SectionFits, PointerFits, Busy
    <3>2. \A r \in Readers : rpc[r] # "none" => r \in late
      BY <3>1, ComAssumption DEF ComTypeOK, Objects, ReaderFits, ReadsOwnObject
    <3> QED
      BY <3>1, <3>2
  <2>2. ASSUME NEW u \in Users, upc[u] = "free" PROVE cs \in late \cup {NoThread}
    <3>1. Busy(u) /\ cs # Deleted
      BY <2>2 DEF SectionFits, Busy
    <3>2. \A v \in Users : cs # v
      BY <2>2, <3>1 DEF SectionFits, UserIn, OneUser, Busy
    <3>3. CASE cs \in Readers
      <4>1. Running(cs)
        BY <3>3 DEF SectionFits, ReaderIn, Running
      <4> QED
        BY <2>2, <3>1, <3>3, <4>1 DEF ReaderFits, OnTime
    <3> QED
      BY <3>1, <3>2, <3>3 DEF ComTypeOK, Threads
  <2> QED
    BY <2>1, <2>2
<1> QED
  BY <1>1, ComInvAlways, PTL

(* The read thread that nobody waits for does not outlive its object,      *)
(* unless it took longer over a pass than the destructor's Sleep(200).     *)
THEOREM OwnObjectRead == ComSpec => []ReadsOwnObject
<1>1. ComInv => ReadsOwnObject
  BY DEF ComInv, Orderly, ReaderFits, ReadsOwnObject
<1> QED
  BY <1>1, ComInvAlways, PTL

-----------------------------------------------------------------------------
(* The refinement.                                                         *)

OpenNow  == {a \in Objects : hCom[a] = "open"}
UsingNow == {<<r, at[r]>> : r \in {q \in Readers : Reading(q)}}
              \cup {<<u, obj[u]>> : u \in {v \in Users : upc[v] = "io"}}

(* Only the owner of the section is in a ReadFile or WriteFile.            *)
LEMMA OwnerUses ==
  ASSUME ComInv, ~misused
  PROVE  /\ \A r \in Readers : rpc[r] = "read" => cs = r
         /\ \A u \in Users : upc[u] = "io" => cs = u
  BY DEF ComInv, Orderly, SectionFits, UserIn, ReaderIn

(* Who goes neither into a ReadFile or WriteFile nor out of one changes    *)
(* nothing that PortUse sees of them.                                      *)
LEMMA SameUse ==
  ASSUME ComTypeOK,
         \A u \in Users : /\ upc'[u] = "io" <=> upc[u] = "io"
                          /\ upc[u] = "io" => obj'[u] = obj[u],
         \A r \in Readers : /\ rpc'[r] = "read" <=> rpc[r] = "read"
                            /\ rpc[r] = "read" => at'[r] = at[r]
  PROVE  UsingNow' = UsingNow
<1>1. ASSUME NEW x PROVE x \in UsingNow' => x \in UsingNow
  BY DEF UsingNow, Reading
<1>2. ASSUME NEW x PROVE x \in UsingNow => x \in UsingNow'
  BY DEF UsingNow, Reading
<1> QED
  BY <1>1, <1>2

(* A handle is only opened when there is none, and with the user's object  *)
(* between its construction and its deletion it is the only one.           *)
LEMMA OpenBefore ==
  ASSUME ComInv, ~misused, NEW u \in Users, upc[u] = "made" PROVE OpenNow = {}
  BY DEF ComInv, Orderly, OneUser, Busy, OpenIsOwned, OpenNow

(* Only the block of the user that has an object can be open.              *)
LEMMA OpenOnly ==
  ASSUME ComInv, ~misused, NEW u \in Users, Busy(u) PROVE OpenNow \subseteq {obj[u]}
  BY DEF ComInv, Orderly, OneUser, Busy, OpenIsOwned, OpenNow

(* The steps of PortUse. *)
Same    == OpenNow' = OpenNow /\ UsingNow' = UsingNow
Opens   == /\ OpenNow = {} /\ UsingNow = {} /\ UsingNow' = UsingNow
           /\ \E a \in Objects : OpenNow' = {a}
Begins  == /\ UsingNow = {} /\ OpenNow' = OpenNow
           /\ \E a \in Objects, x \in Threads : a \in OpenNow /\ UsingNow' = {<<x, a>>}
Ends    == UsingNow # {} /\ UsingNow' = {} /\ OpenNow' = OpenNow
Closing == /\ OpenNow # {} /\ UsingNow = {} /\ OpenNow' = {} /\ UsingNow' = UsingNow
UseMove == Same \/ Opens \/ Begins \/ Ends \/ Closing

(* InitComIO opens, or fails to and changes nothing.                       *)
LEMMA MoveInit ==
  ASSUME ComInv, ~misused, NEW u \in Users, InitComIO(u) PROVE UseMove
<1> USE DEF ComInv, Orderly, ComTypeOK
<1>1. /\ obj[u] \in Objects /\ upc[u] = "made" /\ obj' = obj
      /\ upc' = [upc EXCEPT ![u] = "in"]
  BY DEF InitComIO, UserGoto, PointerFits, Busy, Objects
<1>2. OpenNow = {}
  BY <1>1, OpenBefore
<1>3. \A r \in Readers : rpc[r] # "read"
  BY <1>2 DEF ReadingOpen, Reading, OpenNow
<1>4. \A r \in Readers : rpc'[r] # "read"
  BY <1>3 DEF InitComIO, ReaderGoto
<1>5. \A v \in Users : upc[v] # "io" /\ upc'[v] # "io"
  BY <1>1 DEF OneUser, Busy
<1>6. UsingNow = {} /\ UsingNow' = {}
  BY <1>3, <1>4, <1>5 DEF UsingNow, Reading
<1>7. OpenNow' \subseteq {obj[u]}
  BY <1>1, <1>2 DEF InitComIO, OpenNow
<1> QED
  BY <1>1, <1>2, <1>6, <1>7 DEF UseMove, Same, Opens

(* A call of WriteCom or ReadCom begins and ends a use.                    *)
LEMMA MoveIo ==
  ASSUME ComInv, ~misused, NEW u \in Users, CallIo(u) \/ Io(u)
  PROVE  UseMove
<1>1. CASE CallIo(u) \/ (EndIo(u) /\ upc[u] # "io")
  <2>1. ComTypeOK
    BY DEF ComInv
  <2>2. hCom' = hCom /\ obj' = obj /\ rpc' = rpc /\ at' = at
    BY <1>1 DEF CallIo, EndIo
  <2>3. \A v \in Users : upc'[v] = "io" <=> upc[v] = "io"
    BY <1>1, <2>1 DEF CallIo, EndIo, UserGoto, ComTypeOK
  <2> QED
    BY <2>1, <2>2, <2>3, SameUse DEF UseMove, Same, OpenNow
<1>2. CASE EnterIo(u)
  <2>1. /\ \A r \in Readers : rpc[r] # "read"
        /\ \A v \in Users : upc[v] # "io"
    BY <1>2, OwnerUses, ComAssumption DEF EnterIo, Enter, Threads
  <2>2. obj[u] \in Objects /\ upc' = [upc EXCEPT ![u] = IF hCom[obj[u]] = "open" THEN "io" ELSE "leave"]
    BY <1>2 DEF ComInv, ComTypeOK, PointerFits, Busy, EnterIo, UserGoto, Objects
  <2>3. hCom' = hCom /\ obj' = obj /\ rpc' = rpc /\ at' = at
    BY <1>2 DEF EnterIo
  <2>4. UsingNow = {} /\ OpenNow' = OpenNow
    BY <2>1, <2>3 DEF UsingNow, Reading, OpenNow
  <2>5. UsingNow' = IF hCom[obj[u]] = "open" THEN {<<u, obj[u]>>} ELSE {}
    BY <2>1, <2>2, <2>3 DEF UsingNow, Reading, ComInv, ComTypeOK
  <2> QED
    BY <2>2, <2>4, <2>5 DEF UseMove, Same, Begins, OpenNow, Threads
<1>3. CASE EndIo(u) /\ upc[u] = "io"
  <2>1. /\ \A r \in Readers : rpc[r] # "read"
        /\ \A v \in Users : upc[v] = "io" => v = u
    BY <1>3, OwnerUses, ComAssumption DEF Threads
  <2>2. /\ upc' = [upc EXCEPT ![u] = "leave"]
        /\ hCom' = hCom /\ obj' = obj /\ rpc' = rpc /\ at' = at
    BY <1>3 DEF EndIo, UserGoto
  <2>3. UsingNow # {}
    BY <1>3 DEF UsingNow
  <2>4. UsingNow' = {} /\ OpenNow' = OpenNow
    BY <2>1, <2>2 DEF UsingNow, Reading, OpenNow, ComInv, ComTypeOK
  <2> QED
    BY <2>3, <2>4 DEF UseMove, Ends
<1> QED
  BY <1>1, <1>2, <1>3 DEF Io

(* The destructor closes a port that nobody is using.                      *)
LEMMA MoveDelete ==
  ASSUME ComInv, ~misused, NEW u \in Users, Delete(u) \/ Destroy(u)
  PROVE  UseMove
<1>0. ComTypeOK
  BY DEF ComInv
<1>1. CASE Delete(u) \/ EnterDelete(u) \/ LeaveDelete(u) \/ Free(u)
  <2>1. /\ rpc' = rpc /\ at' = at
        /\ \A v \in Users : /\ upc'[v] = "io" <=> upc[v] = "io"
                            /\ upc[v] = "io" => obj'[v] = obj[v]
    <3>1. CASE Delete(u)
      BY <1>0, <3>1 DEF Delete, UserGoto, ComTypeOK
    <3>2. CASE EnterDelete(u)
      BY <1>0, <3>2 DEF EnterDelete, UserGoto, ComTypeOK, Enter
    <3>3. CASE LeaveDelete(u)
      BY <1>0, <3>3 DEF LeaveDelete, UserGoto, ComTypeOK, LeaveCs
    <3>4. CASE Free(u)
      BY <1>0, <3>4 DEF Free, UserGoto, ComTypeOK
    <3> QED
      BY <1>1, <3>1, <3>2, <3>3, <3>4
  <2>2. OpenNow' = OpenNow
    <3>1. CASE Free(u)
      BY <1>0, <3>1 DEF Free, ComInv, Orderly, HandleFits, OpenNow, ComTypeOK
    <3>2. CASE hCom' = hCom
      BY <3>2 DEF OpenNow
    <3> QED
      BY <1>1, <3>1, <3>2 DEF Delete, EnterDelete, LeaveDelete
  <2> QED
    BY <1>0, <2>1, <2>2, SameUse DEF UseMove, Same
<1>2. CASE DeinitComIO(u)
  <2>1. /\ \A r \in Readers : rpc[r] # "read"
        /\ \A v \in Users : upc[v] # "io"
    <3>1. cs = u /\ upc[u] # "io"
      BY <1>2 DEF DeinitComIO, ComInv, Orderly, SectionFits, UserIn
    <3> QED
      BY <3>1, OwnerUses, ComAssumption
  <2>2. /\ upc' = [upc EXCEPT ![u] = "sleep"] /\ hCom' = [hCom EXCEPT ![obj[u]] = "null"]
        /\ obj' = obj /\ rpc' = rpc /\ at' = at
    BY <1>2 DEF DeinitComIO, UserGoto
  <2>3. UsingNow = {} /\ UsingNow' = {}
    BY <1>0, <2>1, <2>2 DEF UsingNow, Reading, ComTypeOK
  <2>4. OpenNow \subseteq {obj[u]}
    BY <1>2, OpenOnly DEF DeinitComIO, Busy
  <2>5. OpenNow' = {}
    BY <1>0, <2>2, <2>4 DEF OpenNow, ComTypeOK
  <2> QED
    BY <2>3, <2>5 DEF UseMove, Same, Closing
<1> QED
  BY <1>1, <1>2 DEF Destroy

(* A pass of the read thread begins and ends a use.                        *)
LEMMA MoveRead ==
  ASSUME ComInv, ~misused, NEW r \in Readers, ReadStep(r) PROVE UseMove
<1>0. ComTypeOK
  BY DEF ComInv
<1>1. hCom' = hCom /\ obj' = obj /\ upc' = upc /\ at' = at
  BY DEF ReadStep, TestHandle, EnterRead, CheckHandle, ReadOn
<1>2. PICK l \in ReaderPCs : rpc' = [rpc EXCEPT ![r] = l]
  BY DEF ReadStep, TestHandle, EnterRead, CheckHandle, ReadOn, ReaderGoto, ReaderPCs
<1>3. CASE rpc[r] # "read" /\ l # "read"
  <2>1. \A q \in Readers : rpc'[q] = "read" <=> rpc[q] = "read"
    BY <1>0, <1>2, <1>3 DEF ComTypeOK
  <2> QED
    BY <1>0, <1>1, <2>1, SameUse DEF UseMove, Same, OpenNow
<1>4. CASE rpc[r] # "read" /\ l = "read"
  <2>1. rpc[r] = "check" /\ hCom[at[r]] = "open"
    BY <1>0, <1>2, <1>4
    DEF ReadStep, TestHandle, EnterRead, CheckHandle, ReadOn, ReaderGoto, ComTypeOK
  <2>2. /\ \A q \in Readers : rpc[q] # "read"
        /\ \A v \in Users : upc[v] # "io"
    BY <1>4, <2>1, OwnerUses, ComAssumption DEF ComInv, Orderly, SectionFits, ReaderIn
  <2>3. UsingNow = {} /\ OpenNow' = OpenNow /\ at[r] \in OpenNow
    BY <1>0, <1>1, <2>1, <2>2 DEF UsingNow, Reading, OpenNow, ComTypeOK
  <2>4. UsingNow' = {<<r, at[r]>>}
    BY <1>0, <1>1, <1>2, <1>4, <2>2 DEF UsingNow, Reading, ComTypeOK
  <2> QED
    BY <1>0, <2>3, <2>4 DEF UseMove, Begins, Threads, ComTypeOK
<1>5. CASE rpc[r] = "read"
  <2>1. l = "leave"
    BY <1>0, <1>2, <1>5
    DEF ReadStep, TestHandle, EnterRead, CheckHandle, ReadOn, ReaderGoto, ComTypeOK
  <2>2. /\ \A q \in Readers : rpc[q] = "read" => q = r
        /\ \A v \in Users : upc[v] # "io"
    BY <1>5, OwnerUses, ComAssumption
  <2>3. UsingNow # {}
    BY <1>5 DEF UsingNow, Reading
  <2>4. UsingNow' = {} /\ OpenNow' = OpenNow
    BY <1>0, <1>1, <1>2, <2>1, <2>2 DEF UsingNow, Reading, OpenNow, ComTypeOK
  <2> QED
    BY <2>3, <2>4 DEF UseMove, Ends
<1> QED
  BY <1>3, <1>4, <1>5

(* Taking a heap block opens nothing.                                      *)
LEMMA MoveNew ==
  ASSUME ComInv, NEW u \in Users, New(u) PROVE UseMove
<1>1. ComTypeOK
  BY DEF ComInv
<1>2. /\ hCom' = hCom /\ rpc' = rpc /\ at' = at
      /\ \A v \in Users : /\ upc'[v] = "io" <=> upc[v] = "io"
                          /\ upc[v] = "io" => obj'[v] = obj[v]
  BY <1>1 DEF New, UserGoto, ComTypeOK
<1> QED
  BY <1>1, <1>2, SameUse DEF UseMove, Same, OpenNow

(* Every step of ComPort is one of the moves of PortUse.                   *)
LEMMA MoveNext ==
  ASSUME ComInv, ~misused, [ComNext]_comVars PROVE UseMove
<1>1. CASE UNCHANGED comVars
  BY <1>1, SameUse DEF ComInv, comVars, UseMove, Same, OpenNow
<1>2. CASE ComNext
  BY <1>2, MoveNew, MoveInit, MoveIo, MoveDelete, MoveRead DEF ComNext
<1> QED
  BY <1>1, <1>2

(* Until the section is initialised or deleted in use, ReadFile, WriteFile *)
(* and CloseHandle follow each other on every port as PortUse says,        *)
(* although each object initialises and deletes the section of all.        *)
THEOREM ComPortIsPortUse == ComSpec => RefinesPortUse
<1>1. ComInit => Use!UseInit
  BY DEF ComInit, Use!UseInit, Reading
<1>2. ComInv /\ [ComNext]_comVars => [misused' \/ [Use!UseNext]_Use!useVars]_comVars
  <2> SUFFICES ASSUME ComInv, [ComNext]_comVars, ~misused' PROVE [Use!UseNext]_Use!useVars
    OBVIOUS
  <2>1. ~misused
    BY MisusedStays DEF ComInv
  <2>2. UseMove => [Use!UseNext]_Use!useVars
    BY DEF UseMove, Same, Opens, Begins, Ends, Closing, OpenNow, UsingNow,
           Use!UseNext, Use!Open, Use!Begin, Use!End, Use!Close, Use!useVars
  <2> QED
    BY <2>1, <2>2, MoveNext
<1> QED
  BY <1>1, <1>2, ComInvAlways, PTL DEF ComSpec, RefinesPortUse
=============================================================================
