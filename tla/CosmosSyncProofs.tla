-------------------------- MODULE CosmosSyncProofs --------------------------
(***************************************************************************)
(* Theorems about CosmosSync, for any number of doSync and StopThread      *)
(* threads, any set of logs and any device timing.                         *)
(***************************************************************************)
EXTENDS CosmosSync, SequenceTheorems, TLAPS

-----------------------------------------------------------------------------
(* The data of the receiver.                                               *)

(* What the watch sends for a log is a sequence of pieces.                 *)
LEMMA ContentIsSeq ==
  ASSUME NEW f \in Sn
  PROVE  Content(f) \in Seq(Item) /\ <<<<f, 0>>>> \in Seq(Item)
<1>1. LogSize[f] \in Nat
  BY ReceiverAssumption
<1>2. Content(f) \in [1 .. LogSize[f] -> Item]
  BY <1>1 DEF Content, Item
<1>3. Content(f) \in Seq(Item)
  BY <1>1, <1>2, SeqDef
<1>4. <<f, 0>> \in Item
  BY DEF Item
<1> QED
  BY <1>3, <1>4

(* The size that a header announces.                                       *)
LEMMA HeaderSize ==
  ASSUME NEW chunk \in Seq(Item), NEW j \in HeaderIn(chunk)
  PROVE  LogSize[chunk[j][1]] \in Nat
<1>1. chunk[j] \in Sn \X Nat
  BY DEF HeaderIn, Item
<1> QED
  BY <1>1, ReceiverAssumption

-----------------------------------------------------------------------------
(* The type invariant and the lock.                                        *)

(* The program starts in the invariant.                                    *)
LEMMA SyncInvInit == Init => SyncInv
<1> SUFFICES ASSUME Init PROVE SyncInv
  OBVIOUS
<1>1. ReceiverTypeOK
  <2>1. PICK old \in SUBSET Logs :
          disk = [f \in Sn |-> IF f \in old THEN Content(f) ELSE NoFile]
    BY DEF Init
  <2>2. \A f \in Sn : Content(f) \in Seq(Item)
    BY ContentIsSeq
  <2>3. disk \in [Sn -> Seq(Item) \cup {NoFile}]
    BY <2>1, <2>2
  <2> QED
    BY <2>3, ReceiverAssumption DEF Init, ProcessStart, ReceiverStart, ReceiverTypeOK, Sn
<1>2. UiTypeOK
  BY DEF Init, ProcessStart, UiTypeOK
<1>3. PortTypeOK
  BY SyncAssumption DEF Init, ProcessStart, PortTypeOK
<1>4. ParseTypeOK
  <2>1. PICK old \in SUBSET Logs : \E none \in SUBSET MayFail : parsed = old \ none
    BY DEF Init
  <2>2. parsed \subseteq Sn
    BY <2>1 DEF Logs
  <2> QED
    BY <2>2, SyncAssumption DEF Init, ProcessStart, ParseTypeOK
<1>5. OpenFileExists
  BY DEF Init, ProcessStart, ReceiverStart, OpenFileExists
<1>6. ThreadTypeOK
  BY ReceiverAssumption
  DEF Init, ProcessStart, ThreadTypeOK, SyncPCs, StopPCs
<1>7. LinkTypeOK
  BY DEF Init, ProcessStart, LinkTypeOK, ReadPCs
<1>8. InBounds
  BY DEF Init, ProcessStart, InBounds
<1>9. LockDiscipline
  BY SyncAssumption
  DEF Init, ProcessStart, LockDiscipline, SyncHolds, StopHolds, Threads
<1>10. PointerIsLive /\ PortAliveWhileUsed
  BY DEF Init, ProcessStart, PointerIsLive, PortAliveWhileUsed, UsesPort, SyncHolds, StopHolds
<1> QED
  BY <1>1, <1>2, <1>3, <1>4, <1>5, <1>6, <1>7, <1>8, <1>9, <1>10
  DEF SyncInv, SyncTypeOK

-----------------------------------------------------------------------------
(* Types, one part of SyncTypeOK at a time.                                *)

(* Only PostMessage, its retrieval, Refresh and EndDialog touch what the   *)
(* window holds, and they keep its type.                                   *)
LEMMA UiTypeNext ==
  UiTypeOK /\ [Next]_vars => UiTypeOK'
<1> SUFFICES ASSUME UiTypeOK, [Next]_vars PROVE UiTypeOK'
  OBVIOUS
<1> USE DEF UiTypeOK, PostRefresh, WindowGone, vars, uiVars, portVars, syncVars, readVars,
        linkVars, parseVars, allRecv, recvVars, syncElse, stopElse, readElse,
        dataVars
<1>1. ASSUME NEW t \in Syncers, Post(t) PROVE UiTypeOK'
  BY <1>1 DEF Post
<1>2. ASSUME NEW t \in Syncers,
             ClickSync(t) \/ SyncTest(t) \/ GetCommPort(t) \/ CopyName(t) \/
             OpenEnter(t) \/ Create(t) \/ Announce(t) \/ LoopEnter(t) \/
             TestFlag(t) \/ CheckFileExist(t) \/ Ask(t) \/ WriteRequest(t) \/
             Finish(t) \/ Leave(t) \/ GiveUp(t) \/ EndTest(t) \/
             DeleteLastFile(t) \/ ResetFlag(t)
      PROVE  UNCHANGED uiVars
  BY <1>2 DEF ClickSync, SyncTest, GetCommPort, CopyName, OpenEnter, Create,
              Announce, LoopEnter, TestFlag, CheckFileExist, Ask, WriteRequest,
              Finish, Leave, GiveUp, EndTest, DeleteLastFile, ResetFlag
<1>3. ASSUME NEW k \in Stoppers, CloseWindow(k) PROVE UiTypeOK'
  BY <1>3 DEF CloseWindow
<1>4. ASSUME NEW k \in Stoppers, StopPost(k) PROVE UiTypeOK'
  BY <1>4 DEF StopPost
<1>5. ASSUME NEW k \in Stoppers,
             ClickStop(k) \/ StopText(k) \/ StopEnter(k) \/ CloseCom(k) \/
             FreePort(k)
      PROVE  UNCHANGED uiVars
  BY <1>5 DEF ClickStop, StopText, StopEnter, CloseCom, FreePort
<1>6. ASSUME NEW o \in Ports,
             ReadCom(o) \/ ReadEnd(o) \/ Proc(o) \/ ProcFile(o)
      PROVE  UNCHANGED uiVars
  BY <1>6 DEF ReadCom, ReadEnd, Proc, ProcFile
<1>7. ASSUME NEW n \in Sn,
             ParseFile(n)
      PROVE  UNCHANGED uiVars
  BY <1>7 DEF ParseFile
<1>8. CASE TakeRefresh
  BY <1>8 DEF TakeRefresh
<1>9. CASE Refresh
  BY <1>9 DEF Refresh
<1>10. CASE Exit
  BY <1>10 DEF Exit
<1>11. ASSUME DevReply
      PROVE  UNCHANGED uiVars
  BY <1>11 DEF DevReply
<1>12. CASE DeleteMainCs
  BY <1>12 DEF DeleteMainCs
<1>13. CASE UNCHANGED uiVars
  BY <1>13
<1> QED
  BY <1>1, <1>2, <1>3, <1>4, <1>5, <1>6, <1>7, <1>8, <1>9, <1>10, <1>11, <1>12,
     <1>13
  DEF Next, User, Window, SyncConnect, SyncBody, StopBody, Reader

(* The steps of doSync and StopThread that touch pcio, the objects or      *)
(* getCommPort's buffer keep their types.                                  *)
LEMMA PortTypeNext ==
  PortTypeOK /\ [Next]_vars => PortTypeOK'
<1> SUFFICES ASSUME PortTypeOK, [Next]_vars PROVE PortTypeOK'
  OBVIOUS
<1> USE SyncAssumption 
    DEF PortTypeOK, Ports, vars, uiVars, portVars, syncVars, readVars,
        linkVars, parseVars, allRecv, recvVars, syncElse, stopElse, readElse,
        dataVars
<1>1. ASSUME NEW t \in Syncers, GetCommPort(t) PROVE PortTypeOK'
  BY <1>1 DEF GetCommPort
<1>2. ASSUME NEW t \in Syncers, Create(t) PROVE PortTypeOK'
  <2>1. PICK o \in Ports :
          /\ pcio' = o
          /\ \/ port' = [port EXCEPT ![o] = "invalid"]
             \/ port' = [port EXCEPT ![o] = "open"]
          /\ registered' = [registered EXCEPT ![o] = FALSE]
    BY <1>2 DEF Create
  <2> QED
    BY <1>2, <2>1 DEF Create
<1>3. ASSUME NEW t \in Syncers, Announce(t) PROVE PortTypeOK'
  BY <1>3 DEF Announce
<1>4. ASSUME NEW t \in Syncers,
             ClickSync(t) \/ SyncTest(t) \/ CopyName(t) \/ OpenEnter(t) \/
             Post(t) \/ LoopEnter(t) \/ TestFlag(t) \/ CheckFileExist(t) \/
             Ask(t) \/ WriteRequest(t) \/ Finish(t) \/ Leave(t) \/ GiveUp(t) \/
             EndTest(t) \/ DeleteLastFile(t) \/ ResetFlag(t)
      PROVE  UNCHANGED portVars
  BY <1>4 DEF ClickSync, SyncTest, CopyName, OpenEnter, Post, LoopEnter,
              TestFlag, CheckFileExist, Ask, WriteRequest, Finish, Leave,
              GiveUp, EndTest, DeleteLastFile, ResetFlag
<1>5. ASSUME NEW k \in Stoppers, CloseCom(k) PROVE PortTypeOK'
  BY <1>5 DEF CloseCom
<1>6. ASSUME NEW k \in Stoppers, FreePort(k) PROVE PortTypeOK'
  BY <1>6 DEF FreePort
<1>7. ASSUME NEW k \in Stoppers,
             ClickStop(k) \/ CloseWindow(k) \/ StopText(k) \/ StopEnter(k) \/
             StopPost(k)
      PROVE  UNCHANGED portVars
  BY <1>7 DEF ClickStop, CloseWindow, StopText, StopEnter, StopPost
<1>8. ASSUME NEW o \in Ports,
             ReadCom(o) \/ ReadEnd(o) \/ Proc(o) \/ ProcFile(o)
      PROVE  UNCHANGED portVars
  BY <1>8 DEF ReadCom, ReadEnd, Proc, ProcFile
<1>9. ASSUME NEW n \in Sn,
             ParseFile(n)
      PROVE  UNCHANGED portVars
  BY <1>9 DEF ParseFile
<1>10. CASE Exit
  BY <1>10 DEF Exit
<1>11. ASSUME TakeRefresh \/ Refresh \/ DevReply \/ DeleteMainCs
      PROVE  UNCHANGED portVars
  BY <1>11 DEF TakeRefresh, Refresh, DevReply, DeleteMainCs
<1>12. CASE UNCHANGED portVars
  BY <1>12
<1> QED
  BY <1>1, <1>2, <1>3, <1>4, <1>5, <1>6, <1>7, <1>8, <1>9, <1>10, <1>11, <1>12
  DEF Next, User, Window, SyncConnect, SyncBody, StopBody, Reader

(* Every step of the read thread, and every access of doSync to the        *)
(* receiver, keeps its type; the file that proc() writes to is one that    *)
(* InitFile has created and DeleteLastFile has not removed.                *)
LEMMA ReceiverNext ==
  SyncTypeOK /\ OpenFileExists /\ [Next]_vars => (ReceiverTypeOK /\ OpenFileExists)'
<1> SUFFICES ASSUME SyncTypeOK, OpenFileExists, [Next]_vars PROVE (ReceiverTypeOK /\ OpenFileExists)'
  OBVIOUS
<1> USE ReceiverAssumption 
    DEF SyncTypeOK, ReceiverTypeOK, OpenFileExists, ThreadTypeOK, LinkTypeOK,
        vars, uiVars, portVars, syncVars, readVars, linkVars, parseVars,
        allRecv, recvVars, syncElse, stopElse, readElse, dataVars
<1>1. ASSUME NEW t \in Syncers, CheckFileExist(t) PROVE (ReceiverTypeOK /\ OpenFileExists)'
  BY <1>1 DEF CheckFileExist
<1>2. ASSUME NEW t \in Syncers, Ask(t) PROVE (ReceiverTypeOK /\ OpenFileExists)'
  BY <1>2 DEF Ask, Sn
<1>3. ASSUME NEW t \in Syncers, Finish(t) PROVE (ReceiverTypeOK /\ OpenFileExists)'
  BY <1>3 DEF Finish
<1>4. ASSUME NEW t \in Syncers, DeleteLastFile(t) PROVE (ReceiverTypeOK /\ OpenFileExists)'
  <2>1. CASE DeinitFile
    BY <2>1 DEF DeinitFile, Sn
  <2>2. CASE DeleteNamed(parsing)
    BY <2>2 DEF DeleteNamed
  <2> QED
    BY <1>4, <2>1, <2>2 DEF DeleteLastFile
<1>5. ASSUME NEW t \in Syncers, ResetFlag(t) PROVE (ReceiverTypeOK /\ OpenFileExists)'
  BY <1>5 DEF ResetFlag
<1>6. ASSUME NEW t \in Syncers,
             ClickSync(t) \/ SyncTest(t) \/ GetCommPort(t) \/ CopyName(t) \/
             OpenEnter(t) \/ Create(t) \/ Announce(t) \/ Post(t) \/
             LoopEnter(t) \/ TestFlag(t) \/ WriteRequest(t) \/ Leave(t) \/
             GiveUp(t) \/ EndTest(t)
      PROVE  UNCHANGED allRecv
  BY <1>6 DEF ClickSync, SyncTest, GetCommPort, CopyName, OpenEnter, Create,
              Announce, Post, LoopEnter, TestFlag, WriteRequest, Leave, GiveUp,
              EndTest
<1>7. ASSUME NEW k \in Stoppers,
             ClickStop(k) \/ CloseWindow(k) \/ StopText(k) \/ StopEnter(k) \/
             CloseCom(k) \/ FreePort(k) \/ StopPost(k)
      PROVE  UNCHANGED allRecv
  BY <1>7 DEF ClickStop, CloseWindow, StopText, StopEnter, CloseCom, FreePort,
              StopPost
<1>8. ASSUME NEW o \in Ports, Proc(o) PROVE (ReceiverTypeOK /\ OpenFileExists)'
  <2>1. CASE UNCHANGED allRecv
    BY <2>1
  <2>2. ASSUME NEW j \in HeaderIn(rbuf[o]), ProcHeader(LogSize[rbuf[o][j][1]])
        PROVE  (ReceiverTypeOK /\ OpenFileExists)'
    BY <2>2, HeaderSize DEF ProcHeader
  <2>3. ASSUME NEW k \in 0 .. Len(rbuf[o]), ProcContent(SubSeq(rbuf[o], 1, k))
        PROVE  (ReceiverTypeOK /\ OpenFileExists)'
    <3>1. disk[hfile] \in Seq(Item) /\ SubSeq(rbuf[o], 1, k) \in Seq(Item)
      BY <2>3 DEF ProcContent, Writable
    <3>2. disk[hfile] \o SubSeq(rbuf[o], 1, k) \in Seq(Item)
      BY <3>1
    <3> QED
      BY <2>3, <3>2 DEF ProcContent
  <2> QED
    BY <1>8, <2>1, <2>2, <2>3 DEF Proc
<1>9. ASSUME NEW o \in Ports, ProcFile(o) PROVE (ReceiverTypeOK /\ OpenFileExists)'
  <2>1. Len(rbuf[o]) \in Nat
    OBVIOUS
  <2>2. CASE InitFileName
    BY <2>2 DEF InitFileName, Sn
  <2>3. CASE InitFileCreate
    <3>1. <<>> \in Seq(Item)
      OBVIOUS
    <3> QED
      BY <2>3, <3>1 DEF InitFileCreate
  <2>4. CASE ProcCount(Len(rbuf[o]))
    BY <2>1, <2>4 DEF ProcCount, Sn
  <2>5. CASE ProcFinished
    BY <2>5 DEF ProcFinished
  <2> QED
    BY <1>9, <2>2, <2>3, <2>4, <2>5 DEF ProcFile
<1>10. ASSUME NEW o \in Ports,
             ReadCom(o) \/ ReadEnd(o)
      PROVE  UNCHANGED allRecv
  BY <1>10 DEF ReadCom, ReadEnd
<1>11. ASSUME NEW n \in Sn,
             ParseFile(n)
      PROVE  UNCHANGED allRecv
  BY <1>11 DEF ParseFile
<1>12. CASE Exit
  BY <1>12 DEF Exit, ReceiverRestart, Sn
<1>13. ASSUME TakeRefresh \/ Refresh \/ DevReply \/ DeleteMainCs
      PROVE  UNCHANGED allRecv
  BY <1>13 DEF TakeRefresh, Refresh, DevReply, DeleteMainCs
<1>14. CASE UNCHANGED allRecv
  BY <1>14
<1> QED
  BY <1>1, <1>2, <1>3, <1>4, <1>5, <1>6, <1>7, <1>8, <1>9, <1>10, <1>11, <1>12,
     <1>13, <1>14
  DEF Next, User, Window, SyncConnect, SyncBody, StopBody, Reader

(* The positions of doSync and StopThread, the owner of main_cs, and i,    *)
(* which checkFileExist and the end of a download may only increment       *)
(* inside the bound.                                                       *)
LEMMA ThreadTypeNext ==
  ThreadTypeOK /\ InBounds /\ [Next]_vars => ThreadTypeOK'
<1> SUFFICES ASSUME ThreadTypeOK, InBounds, [Next]_vars PROVE ThreadTypeOK'
  OBVIOUS
<1> USE ReceiverAssumption 
    DEF ThreadTypeOK, InBounds, SyncPCs, StopPCs, Threads, Lock, Unlock, Goto,
        StopGoto, vars, uiVars, portVars, syncVars, readVars, linkVars,
        parseVars, allRecv, recvVars, syncElse, stopElse, readElse, dataVars
<1>1. ASSUME NEW t \in Syncers, ClickSync(t) PROVE ThreadTypeOK'
  BY <1>1 DEF ClickSync
<1>2. ASSUME NEW t \in Syncers, SyncTest(t) PROVE ThreadTypeOK'
  BY <1>2 DEF SyncTest
<1>3. ASSUME NEW t \in Syncers, GetCommPort(t) PROVE ThreadTypeOK'
  BY <1>3 DEF GetCommPort
<1>4. ASSUME NEW t \in Syncers, CopyName(t) PROVE ThreadTypeOK'
  BY <1>4 DEF CopyName
<1>5. ASSUME NEW t \in Syncers, OpenEnter(t) PROVE ThreadTypeOK'
  BY <1>5 DEF OpenEnter
<1>6. ASSUME NEW t \in Syncers, Create(t) PROVE ThreadTypeOK'
  BY <1>6 DEF Create
<1>7. ASSUME NEW t \in Syncers, Announce(t) PROVE ThreadTypeOK'
  BY <1>7 DEF Announce
<1>8. ASSUME NEW t \in Syncers, Post(t) PROVE ThreadTypeOK'
  BY <1>8 DEF Post
<1>9. ASSUME NEW t \in Syncers, LoopEnter(t) PROVE ThreadTypeOK'
  BY <1>9 DEF LoopEnter
<1>10. ASSUME NEW t \in Syncers, TestFlag(t) PROVE ThreadTypeOK'
  BY <1>10 DEF TestFlag
<1>11. ASSUME NEW t \in Syncers, CheckFileExist(t) PROVE ThreadTypeOK'
  <2>1. i[t] + 1 \in 1 .. MaxSn
    BY <1>11 DEF CheckFileExist
  <2> QED
    BY <1>11, <2>1 DEF CheckFileExist
<1>12. ASSUME NEW t \in Syncers, Ask(t) PROVE ThreadTypeOK'
  BY <1>12 DEF Ask
<1>13. ASSUME NEW t \in Syncers, WriteRequest(t) PROVE ThreadTypeOK'
  BY <1>13 DEF WriteRequest
<1>14. ASSUME NEW t \in Syncers, Finish(t) PROVE ThreadTypeOK'
  BY <1>14 DEF Finish
<1>15. ASSUME NEW t \in Syncers, Leave(t) PROVE ThreadTypeOK'
  BY <1>15 DEF Leave
<1>16. ASSUME NEW t \in Syncers, GiveUp(t) PROVE ThreadTypeOK'
  BY <1>16 DEF GiveUp
<1>17. ASSUME NEW t \in Syncers, EndTest(t) PROVE ThreadTypeOK'
  BY <1>17 DEF EndTest
<1>18. ASSUME NEW t \in Syncers, DeleteLastFile(t) PROVE ThreadTypeOK'
  BY <1>18 DEF DeleteLastFile
<1>19. ASSUME NEW t \in Syncers, ResetFlag(t) PROVE ThreadTypeOK'
  BY <1>19 DEF ResetFlag
<1>20. ASSUME NEW k \in Stoppers, ClickStop(k) PROVE ThreadTypeOK'
  BY <1>20 DEF ClickStop
<1>21. ASSUME NEW k \in Stoppers, CloseWindow(k) PROVE ThreadTypeOK'
  BY <1>21 DEF CloseWindow
<1>22. ASSUME NEW k \in Stoppers, StopText(k) PROVE ThreadTypeOK'
  BY <1>22 DEF StopText
<1>23. ASSUME NEW k \in Stoppers, StopEnter(k) PROVE ThreadTypeOK'
  BY <1>23 DEF StopEnter
<1>24. ASSUME NEW k \in Stoppers, CloseCom(k) PROVE ThreadTypeOK'
  BY <1>24 DEF CloseCom
<1>25. ASSUME NEW k \in Stoppers, FreePort(k) PROVE ThreadTypeOK'
  BY <1>25 DEF FreePort
<1>26. ASSUME NEW k \in Stoppers, StopPost(k) PROVE ThreadTypeOK'
  BY <1>26 DEF StopPost
<1>27. ASSUME NEW o \in Ports,
             ReadCom(o) \/ ReadEnd(o) \/ Proc(o) \/ ProcFile(o)
      PROVE  UNCHANGED <<mainCs, syncVars, st>>
  BY <1>27 DEF ReadCom, ReadEnd, Proc, ProcFile
<1>28. ASSUME NEW n \in Sn,
             ParseFile(n)
      PROVE  UNCHANGED <<mainCs, syncVars, st>>
  BY <1>28 DEF ParseFile
<1>29. CASE Exit
  BY <1>29 DEF Exit
<1>30. ASSUME TakeRefresh \/ Refresh \/ DevReply
      PROVE  UNCHANGED <<mainCs, syncVars, st>>
  BY <1>30 DEF TakeRefresh, Refresh, DevReply
<1>31. CASE DeleteMainCs
  BY <1>31 DEF DeleteMainCs
<1>32. CASE UNCHANGED <<mainCs, syncVars, st>>
  BY <1>32
<1> QED
  BY <1>1, <1>2, <1>3, <1>4, <1>5, <1>6, <1>7, <1>8, <1>9, <1>10, <1>11, <1>12,
     <1>13, <1>14, <1>15, <1>16, <1>17, <1>18, <1>19, <1>20, <1>21, <1>22,
     <1>23, <1>24, <1>25, <1>26, <1>27, <1>28, <1>29, <1>30, <1>31, <1>32
  DEF Next, User, Window, SyncConnect, SyncBody, StopBody, Reader

(* The read threads' buffers, the requests and the answers of the watch    *)
(* stay sequences of pieces of logs.                                       *)
LEMMA LinkTypeNext ==
  SyncTypeOK /\ [Next]_vars => LinkTypeOK'
<1> SUFFICES ASSUME SyncTypeOK, [Next]_vars PROVE LinkTypeOK'
  OBVIOUS
<1> USE DEF SyncTypeOK, LinkTypeOK, ReadGoto, ReadPCs, vars, uiVars, portVars,
        syncVars, readVars, linkVars, parseVars, allRecv, recvVars, syncElse,
        stopElse, readElse, dataVars
<1>1. ASSUME NEW t \in Syncers, Create(t) PROVE LinkTypeOK'
  BY <1>1 DEF Create
<1>2. ASSUME NEW t \in Syncers, WriteRequest(t) PROVE LinkTypeOK'
  <2>1. i[t] \in Sn
    BY DEF ThreadTypeOK, Sn
  <2>2. req' \in Seq(Sn)
    BY <1>2, <2>1 DEF WriteRequest
  <2> QED
    BY <1>2, <2>2 DEF WriteRequest
<1>3. ASSUME NEW t \in Syncers,
             ClickSync(t) \/ SyncTest(t) \/ GetCommPort(t) \/ CopyName(t) \/
             OpenEnter(t) \/ Announce(t) \/ Post(t) \/ LoopEnter(t) \/
             TestFlag(t) \/ CheckFileExist(t) \/ Ask(t) \/ Finish(t) \/
             Leave(t) \/ GiveUp(t) \/ EndTest(t) \/ DeleteLastFile(t) \/
             ResetFlag(t)
      PROVE  UNCHANGED <<readVars, linkVars>>
  BY <1>3 DEF ClickSync, SyncTest, GetCommPort, CopyName, OpenEnter, Announce,
              Post, LoopEnter, TestFlag, CheckFileExist, Ask, Finish, Leave,
              GiveUp, EndTest, DeleteLastFile, ResetFlag
<1>4. ASSUME NEW k \in Stoppers, CloseCom(k) PROVE LinkTypeOK'
  <2>9. <<>> \in Seq(Sn) /\ <<>> \in Seq(Item)
    OBVIOUS
  <2>1. req' \in Seq(Sn) /\ chan' \in Seq(Item)
    <3>1. CASE port[pcio] = "open"
      BY <1>4, <2>9, <3>1 DEF CloseCom
    <3>2. CASE port[pcio] # "open"
      BY <1>4, <3>2 DEF CloseCom
    <3> QED
      BY <3>1, <3>2
  <2> QED
    BY <1>4, <2>1 DEF CloseCom
<1>5. ASSUME NEW k \in Stoppers,
             ClickStop(k) \/ CloseWindow(k) \/ StopText(k) \/ StopEnter(k) \/
             FreePort(k) \/ StopPost(k)
      PROVE  UNCHANGED <<readVars, linkVars>>
  BY <1>5 DEF ClickStop, CloseWindow, StopText, StopEnter, FreePort, StopPost
<1>6. ASSUME NEW o \in Ports, ReadCom(o) PROVE LinkTypeOK'
  <2>1. \A k \in 1 .. MaxItems : k <= Len(chan) =>
          SubSeq(chan, 1, k) \in Seq(Item) /\ SubSeq(chan, k + 1, Len(chan)) \in Seq(Item)
    BY SyncAssumption
  <2>2. rbuf' \in [Ports -> Seq(Item)] /\ chan' \in Seq(Item)
    BY <1>6, <2>1 DEF ReadCom
  <2> QED
    BY <1>6, <2>2 DEF ReadCom
<1>7. ASSUME NEW o \in Ports, ReadEnd(o) PROVE LinkTypeOK'
  BY <1>7 DEF ReadEnd
<1>8. ASSUME NEW o \in Ports, Proc(o) PROVE LinkTypeOK'
  <2>1. rpc' \in [Ports -> ReadPCs]
    BY <1>8 DEF Proc
  <2>9. <<>> \in Seq(Item)
    OBVIOUS
  <2>2. rbuf' \in [Ports -> Seq(Item)]
    <3>1. CASE rbuf' = [rbuf EXCEPT ![o] = <<>>]
      BY <2>9, <3>1
    <3>2. ASSUME NEW k \in 0 .. Len(rbuf[o]),
                 rbuf' = [rbuf EXCEPT ![o] = SubSeq(rbuf[o], 1, k)]
          PROVE  rbuf' \in [Ports -> Seq(Item)]
      <4>1. SubSeq(rbuf[o], 1, k) \in Seq(Item)
        OBVIOUS
      <4> QED
        BY <3>2, <4>1
    <3> QED
      BY <1>8, <3>1, <3>2 DEF Proc
  <2> QED
    BY <1>8, <2>1, <2>2 DEF Proc
<1>9. ASSUME NEW o \in Ports, ProcFile(o) PROVE LinkTypeOK'
  <2>1. rpc' \in [Ports -> ReadPCs]
    BY <1>9 DEF ProcFile
  <2>9. <<>> \in Seq(Item)
    OBVIOUS
  <2>2. rbuf' \in [Ports -> Seq(Item)]
    <3>1. CASE rbuf' = [rbuf EXCEPT ![o] = <<>>]
      BY <2>9, <3>1
    <3>2. CASE rbuf' = rbuf
      BY <3>2
    <3> QED
      BY <1>9, <3>1, <3>2 DEF ProcFile
  <2> QED
    BY <1>9, <2>1, <2>2 DEF ProcFile
<1>10. ASSUME NEW n \in Sn,
             ParseFile(n)
      PROVE  UNCHANGED <<readVars, linkVars>>
  BY <1>10 DEF ParseFile
<1>11. CASE Exit
  BY <1>11 DEF Exit
<1>12. CASE DevReply
  <2>1. Head(req) \in Sn /\ Tail(req) \in Seq(Sn)
    BY <1>12 DEF DevReply
  <2>2. chan' \in Seq(Item)
    BY <1>12, <2>1, ContentIsSeq DEF DevReply
  <2> QED
    BY <1>12, <2>1, <2>2 DEF DevReply
<1>13. ASSUME TakeRefresh \/ Refresh \/ DeleteMainCs
      PROVE  UNCHANGED <<readVars, linkVars>>
  BY <1>13 DEF TakeRefresh, Refresh, DeleteMainCs
<1>14. CASE UNCHANGED <<readVars, linkVars>>
  BY <1>14
<1> QED
  BY <1>1, <1>2, <1>3, <1>4, <1>5, <1>6, <1>7, <1>8, <1>9, <1>10, <1>11, <1>12,
     <1>13, <1>14
  DEF Next, User, Window, SyncConnect, SyncBody, StopBody, Reader

(* Only numbers of logs are handed to doParseFile.                         *)
LEMMA ParseTypeNext ==
  SyncTypeOK /\ [Next]_vars => ParseTypeOK'
<1> SUFFICES ASSUME SyncTypeOK, [Next]_vars PROVE ParseTypeOK'
  OBVIOUS
<1> USE SyncAssumption, ReceiverAssumption 
    DEF SyncTypeOK, ThreadTypeOK, ParseTypeOK, vars, uiVars, portVars,
        syncVars, readVars, linkVars, parseVars, allRecv, recvVars, syncElse,
        stopElse, readElse, dataVars
<1>1. ASSUME NEW t \in Syncers, Finish(t) PROVE ParseTypeOK'
  <2>1. i[t] \in Sn
    BY DEF ThreadTypeOK, Sn
  <2> QED
    BY <1>1, <2>1 DEF Finish
<1>2. ASSUME NEW t \in Syncers,
             ClickSync(t) \/ SyncTest(t) \/ GetCommPort(t) \/ CopyName(t) \/
             OpenEnter(t) \/ Create(t) \/ Announce(t) \/ Post(t) \/
             LoopEnter(t) \/ TestFlag(t) \/ CheckFileExist(t) \/ Ask(t) \/
             WriteRequest(t) \/ Leave(t) \/ GiveUp(t) \/ EndTest(t) \/
             DeleteLastFile(t) \/ ResetFlag(t)
      PROVE  UNCHANGED <<parseVars, run>>
  BY <1>2 DEF ClickSync, SyncTest, GetCommPort, CopyName, OpenEnter, Create,
              Announce, Post, LoopEnter, TestFlag, CheckFileExist, Ask,
              WriteRequest, Leave, GiveUp, EndTest, DeleteLastFile, ResetFlag
<1>3. ASSUME NEW k \in Stoppers,
             ClickStop(k) \/ CloseWindow(k) \/ StopText(k) \/ StopEnter(k) \/
             CloseCom(k) \/ FreePort(k) \/ StopPost(k)
      PROVE  UNCHANGED <<parseVars, run>>
  BY <1>3 DEF ClickStop, CloseWindow, StopText, StopEnter, CloseCom, FreePort,
              StopPost
<1>4. ASSUME NEW o \in Ports,
             ReadCom(o) \/ ReadEnd(o) \/ Proc(o) \/ ProcFile(o)
      PROVE  UNCHANGED <<parseVars, run>>
  BY <1>4 DEF ReadCom, ReadEnd, Proc, ProcFile
<1>5. ASSUME NEW n \in Sn, ParseFile(n) PROVE ParseTypeOK'
  BY <1>5 DEF ParseFile
<1>6. CASE Exit
  BY <1>6 DEF Exit
<1>7. ASSUME TakeRefresh \/ Refresh \/ DevReply \/ DeleteMainCs
      PROVE  UNCHANGED <<parseVars, run>>
  BY <1>7 DEF TakeRefresh, Refresh, DevReply, DeleteMainCs
<1>8. CASE UNCHANGED <<parseVars, run>>
  BY <1>8
<1> QED
  BY <1>1, <1>2, <1>3, <1>4, <1>5, <1>6, <1>7, <1>8
  DEF Next, User, Window, SyncConnect, SyncBody, StopBody, Reader

-----------------------------------------------------------------------------
(* The loop, the lock and the port.                                        *)

(* doSync's do-while keeps i below its bound wherever the loop goes on.    *)
LEMMA BoundsNext ==
  ThreadTypeOK /\ InBounds /\ [Next]_vars => InBounds'
<1> SUFFICES ASSUME ThreadTypeOK, InBounds, [Next]_vars PROVE InBounds'
  OBVIOUS
<1> USE ReceiverAssumption 
    DEF ThreadTypeOK, InBounds, Goto, SyncPCs, vars, uiVars, portVars,
        syncVars, readVars, linkVars, parseVars, allRecv, recvVars, syncElse,
        stopElse, readElse, dataVars
<1>1. ASSUME NEW t \in Syncers, ClickSync(t) PROVE InBounds'
  BY <1>1 DEF ClickSync
<1>2. ASSUME NEW t \in Syncers, SyncTest(t) PROVE InBounds'
  BY <1>2 DEF SyncTest
<1>3. ASSUME NEW t \in Syncers, GetCommPort(t) PROVE InBounds'
  BY <1>3 DEF GetCommPort
<1>4. ASSUME NEW t \in Syncers, CopyName(t) PROVE InBounds'
  BY <1>4 DEF CopyName
<1>5. ASSUME NEW t \in Syncers, OpenEnter(t) PROVE InBounds'
  BY <1>5 DEF OpenEnter
<1>6. ASSUME NEW t \in Syncers, Create(t) PROVE InBounds'
  BY <1>6 DEF Create
<1>7. ASSUME NEW t \in Syncers, Announce(t) PROVE InBounds'
  BY <1>7 DEF Announce
<1>8. ASSUME NEW t \in Syncers, Post(t) PROVE InBounds'
  BY <1>8 DEF Post
<1>9. ASSUME NEW t \in Syncers, LoopEnter(t) PROVE InBounds'
  BY <1>9 DEF LoopEnter
<1>10. ASSUME NEW t \in Syncers, TestFlag(t) PROVE InBounds'
  BY <1>10 DEF TestFlag
<1>11. ASSUME NEW t \in Syncers, CheckFileExist(t) PROVE InBounds'
  BY <1>11 DEF CheckFileExist
<1>12. ASSUME NEW t \in Syncers, Ask(t) PROVE InBounds'
  BY <1>12 DEF Ask
<1>13. ASSUME NEW t \in Syncers, WriteRequest(t) PROVE InBounds'
  BY <1>13 DEF WriteRequest
<1>14. ASSUME NEW t \in Syncers, Finish(t) PROVE InBounds'
  BY <1>14 DEF Finish
<1>15. ASSUME NEW t \in Syncers, Leave(t) PROVE InBounds'
  BY <1>15 DEF Leave
<1>16. ASSUME NEW t \in Syncers, GiveUp(t) PROVE InBounds'
  BY <1>16 DEF GiveUp
<1>17. ASSUME NEW t \in Syncers, EndTest(t) PROVE InBounds'
  BY <1>17 DEF EndTest
<1>18. ASSUME NEW t \in Syncers, DeleteLastFile(t) PROVE InBounds'
  BY <1>18 DEF DeleteLastFile
<1>19. ASSUME NEW t \in Syncers, ResetFlag(t) PROVE InBounds'
  BY <1>19 DEF ResetFlag
<1>20. ASSUME NEW k \in Stoppers,
             ClickStop(k) \/ CloseWindow(k) \/ StopText(k) \/ StopEnter(k) \/
             CloseCom(k) \/ FreePort(k) \/ StopPost(k)
      PROVE  UNCHANGED <<pc, i>>
  BY <1>20 DEF ClickStop, CloseWindow, StopText, StopEnter, CloseCom, FreePort,
               StopPost
<1>21. ASSUME NEW o \in Ports,
             ReadCom(o) \/ ReadEnd(o) \/ Proc(o) \/ ProcFile(o)
      PROVE  UNCHANGED <<pc, i>>
  BY <1>21 DEF ReadCom, ReadEnd, Proc, ProcFile
<1>22. ASSUME NEW n \in Sn,
             ParseFile(n)
      PROVE  UNCHANGED <<pc, i>>
  BY <1>22 DEF ParseFile
<1>23. CASE Exit
  BY <1>23 DEF Exit
<1>24. ASSUME TakeRefresh \/ Refresh \/ DevReply \/ DeleteMainCs
      PROVE  UNCHANGED <<pc, i>>
  BY <1>24 DEF TakeRefresh, Refresh, DevReply, DeleteMainCs
<1>25. CASE UNCHANGED <<pc, i>>
  BY <1>25
<1> QED
  BY <1>1, <1>2, <1>3, <1>4, <1>5, <1>6, <1>7, <1>8, <1>9, <1>10, <1>11, <1>12,
     <1>13, <1>14, <1>15, <1>16, <1>17, <1>18, <1>19, <1>20, <1>21, <1>22,
     <1>23, <1>24, <1>25
  DEF Next, User, Window, SyncConnect, SyncBody, StopBody, Reader

(* A doSync or StopThread that entered main_cs leaves it on each of its    *)
(* ways out, and nobody else does.                                         *)
LEMMA LockNext ==
  ThreadTypeOK /\ LockDiscipline /\ [Next]_vars => LockDiscipline'
<1> SUFFICES ASSUME ThreadTypeOK, LockDiscipline, [Next]_vars PROVE LockDiscipline'
  OBVIOUS
<1> USE SyncAssumption 
    DEF ThreadTypeOK, LockDiscipline, Threads, SyncHolds, StopHolds, Lock,
        Unlock, Goto, StopGoto, vars, uiVars, portVars, syncVars, readVars,
        linkVars, parseVars, allRecv, recvVars, syncElse, stopElse, readElse,
        dataVars
<1>1. ASSUME NEW t \in Syncers, ClickSync(t) PROVE LockDiscipline'
  BY <1>1 DEF ClickSync
<1>2. ASSUME NEW t \in Syncers, SyncTest(t) PROVE LockDiscipline'
  BY <1>2 DEF SyncTest
<1>3. ASSUME NEW t \in Syncers, GetCommPort(t) PROVE LockDiscipline'
  BY <1>3 DEF GetCommPort
<1>4. ASSUME NEW t \in Syncers, CopyName(t) PROVE LockDiscipline'
  BY <1>4 DEF CopyName
<1>5. ASSUME NEW t \in Syncers, OpenEnter(t) PROVE LockDiscipline'
  BY <1>5 DEF OpenEnter
<1>6. ASSUME NEW t \in Syncers, Create(t) PROVE LockDiscipline'
  BY <1>6 DEF Create
<1>7. ASSUME NEW t \in Syncers, Announce(t) PROVE LockDiscipline'
  BY <1>7 DEF Announce
<1>8. ASSUME NEW t \in Syncers, Post(t) PROVE LockDiscipline'
  BY <1>8 DEF Post
<1>9. ASSUME NEW t \in Syncers, LoopEnter(t) PROVE LockDiscipline'
  BY <1>9 DEF LoopEnter
<1>10. ASSUME NEW t \in Syncers, TestFlag(t) PROVE LockDiscipline'
  BY <1>10 DEF TestFlag
<1>11. ASSUME NEW t \in Syncers, CheckFileExist(t) PROVE LockDiscipline'
  BY <1>11 DEF CheckFileExist
<1>12. ASSUME NEW t \in Syncers, Ask(t) PROVE LockDiscipline'
  BY <1>12 DEF Ask
<1>13. ASSUME NEW t \in Syncers, WriteRequest(t) PROVE LockDiscipline'
  BY <1>13 DEF WriteRequest
<1>14. ASSUME NEW t \in Syncers, Finish(t) PROVE LockDiscipline'
  BY <1>14 DEF Finish
<1>15. ASSUME NEW t \in Syncers, Leave(t) PROVE LockDiscipline'
  BY <1>15 DEF Leave
<1>16. ASSUME NEW t \in Syncers, GiveUp(t) PROVE LockDiscipline'
  BY <1>16 DEF GiveUp
<1>17. ASSUME NEW t \in Syncers, EndTest(t) PROVE LockDiscipline'
  BY <1>17 DEF EndTest
<1>18. ASSUME NEW t \in Syncers, DeleteLastFile(t) PROVE LockDiscipline'
  BY <1>18 DEF DeleteLastFile
<1>19. ASSUME NEW t \in Syncers, ResetFlag(t) PROVE LockDiscipline'
  BY <1>19 DEF ResetFlag
<1>20. ASSUME NEW k \in Stoppers, ClickStop(k) PROVE LockDiscipline'
  BY <1>20 DEF ClickStop
<1>21. ASSUME NEW k \in Stoppers, CloseWindow(k) PROVE LockDiscipline'
  BY <1>21 DEF CloseWindow, InputReady
<1>22. ASSUME NEW k \in Stoppers, StopText(k) PROVE LockDiscipline'
  BY <1>22 DEF StopText
<1>23. ASSUME NEW k \in Stoppers, StopEnter(k) PROVE LockDiscipline'
  BY <1>23 DEF StopEnter
<1>24. ASSUME NEW k \in Stoppers, CloseCom(k) PROVE LockDiscipline'
  BY <1>24 DEF CloseCom
<1>25. ASSUME NEW k \in Stoppers, FreePort(k) PROVE LockDiscipline'
  BY <1>25 DEF FreePort
<1>26. ASSUME NEW k \in Stoppers, StopPost(k) PROVE LockDiscipline'
  BY <1>26 DEF StopPost
<1>27. ASSUME NEW o \in Ports,
             ReadCom(o) \/ ReadEnd(o) \/ Proc(o) \/ ProcFile(o)
      PROVE  UNCHANGED <<ui, mainCs, pc, st>>
  BY <1>27 DEF ReadCom, ReadEnd, Proc, ProcFile
<1>28. ASSUME NEW n \in Sn,
             ParseFile(n)
      PROVE  UNCHANGED <<ui, mainCs, pc, st>>
  BY <1>28 DEF ParseFile
<1>29. CASE Exit
  BY <1>29 DEF Exit
<1>30. CASE TakeRefresh \/ Refresh \/ DeleteMainCs
  BY <1>30 DEF TakeRefresh, Refresh, DeleteMainCs
<1>31. CASE DevReply
  BY <1>31 DEF DevReply
<1>32. CASE UNCHANGED <<ui, mainCs, pc, st>>
  BY <1>32
<1> QED
  BY <1>1, <1>2, <1>3, <1>4, <1>5, <1>6, <1>7, <1>8, <1>9, <1>10, <1>11, <1>12,
     <1>13, <1>14, <1>15, <1>16, <1>17, <1>18, <1>19, <1>20, <1>21, <1>22,
     <1>23, <1>24, <1>25, <1>26, <1>27, <1>28, <1>29, <1>30, <1>31, <1>32
  DEF Next, User, Window, SyncConnect, SyncBody, StopBody, Reader

(* pcio is set, closed and cleared by the owner of main_cs only.           *)
LEMMA PortAliveNext ==
  SyncTypeOK /\ LockDiscipline /\ PointerIsLive /\ PortAliveWhileUsed /\ [Next]_vars => (PointerIsLive /\ PortAliveWhileUsed)'
<1> SUFFICES ASSUME SyncTypeOK, LockDiscipline, PointerIsLive, PortAliveWhileUsed, [Next]_vars PROVE (PointerIsLive /\ PortAliveWhileUsed)'
  OBVIOUS
<1> USE SyncAssumption 
    DEF SyncTypeOK, ThreadTypeOK, PortTypeOK, LockDiscipline, PointerIsLive,
        PortAliveWhileUsed, UsesPort, Threads, Ports, SyncHolds, StopHolds,
        HasPort, Lock, Unlock, Goto, StopGoto, vars, uiVars, portVars, syncVars,
        readVars, linkVars, parseVars, allRecv, recvVars, syncElse, stopElse,
        readElse, dataVars
<1>1. ASSUME NEW t \in Syncers, ClickSync(t) PROVE (PointerIsLive /\ PortAliveWhileUsed)'
  BY <1>1 DEF ClickSync
<1>2. ASSUME NEW t \in Syncers, SyncTest(t) PROVE (PointerIsLive /\ PortAliveWhileUsed)'
  BY <1>2 DEF SyncTest
<1>3. ASSUME NEW t \in Syncers, GetCommPort(t) PROVE (PointerIsLive /\ PortAliveWhileUsed)'
  BY <1>3 DEF GetCommPort
<1>4. ASSUME NEW t \in Syncers, CopyName(t) PROVE (PointerIsLive /\ PortAliveWhileUsed)'
  BY <1>4 DEF CopyName
<1>5. ASSUME NEW t \in Syncers, OpenEnter(t) PROVE (PointerIsLive /\ PortAliveWhileUsed)'
  BY <1>5 DEF OpenEnter
<1>6. ASSUME NEW t \in Syncers, Create(t) PROVE (PointerIsLive /\ PortAliveWhileUsed)'
  BY <1>6 DEF Create
<1>7. ASSUME NEW t \in Syncers, Announce(t) PROVE (PointerIsLive /\ PortAliveWhileUsed)'
  BY <1>7 DEF Announce
<1>8. ASSUME NEW t \in Syncers, Post(t) PROVE (PointerIsLive /\ PortAliveWhileUsed)'
  BY <1>8 DEF Post
<1>9. ASSUME NEW t \in Syncers, LoopEnter(t) PROVE (PointerIsLive /\ PortAliveWhileUsed)'
  BY <1>9 DEF LoopEnter
<1>10. ASSUME NEW t \in Syncers, TestFlag(t) PROVE (PointerIsLive /\ PortAliveWhileUsed)'
  BY <1>10 DEF TestFlag
<1>11. ASSUME NEW t \in Syncers, CheckFileExist(t) PROVE (PointerIsLive /\ PortAliveWhileUsed)'
  BY <1>11 DEF CheckFileExist
<1>12. ASSUME NEW t \in Syncers, Ask(t) PROVE (PointerIsLive /\ PortAliveWhileUsed)'
  BY <1>12 DEF Ask
<1>13. ASSUME NEW t \in Syncers, WriteRequest(t) PROVE (PointerIsLive /\ PortAliveWhileUsed)'
  BY <1>13 DEF WriteRequest
<1>14. ASSUME NEW t \in Syncers, Finish(t) PROVE (PointerIsLive /\ PortAliveWhileUsed)'
  BY <1>14 DEF Finish
<1>15. ASSUME NEW t \in Syncers, Leave(t) PROVE (PointerIsLive /\ PortAliveWhileUsed)'
  BY <1>15 DEF Leave
<1>16. ASSUME NEW t \in Syncers, GiveUp(t) PROVE (PointerIsLive /\ PortAliveWhileUsed)'
  BY <1>16 DEF GiveUp
<1>17. ASSUME NEW t \in Syncers, EndTest(t) PROVE (PointerIsLive /\ PortAliveWhileUsed)'
  BY <1>17 DEF EndTest
<1>18. ASSUME NEW t \in Syncers, DeleteLastFile(t) PROVE (PointerIsLive /\ PortAliveWhileUsed)'
  <2>1. \/ pc[t] = "del" /\ pc' = [pc EXCEPT ![t] = "unlink"]
        \/ pc[t] = "unlink" /\ pc' = [pc EXCEPT ![t] = "reset"]
    BY <1>18 DEF DeleteLastFile
  <2>2. UNCHANGED <<ui, mainCs, pcio, port, st>>
    BY <1>18 DEF DeleteLastFile
  <2>3. PointerIsLive'
    BY <2>2
  <2>4. CASE pc[t] = "del" /\ pc' = [pc EXCEPT ![t] = "unlink"]
    BY <2>2, <2>4
  <2>5. CASE pc[t] = "unlink" /\ pc' = [pc EXCEPT ![t] = "reset"]
    BY <2>2, <2>5
  <2> QED
    BY <2>1, <2>3, <2>4, <2>5
<1>19. ASSUME NEW t \in Syncers, ResetFlag(t) PROVE (PointerIsLive /\ PortAliveWhileUsed)'
  BY <1>19 DEF ResetFlag
<1>20. ASSUME NEW k \in Stoppers, ClickStop(k) PROVE (PointerIsLive /\ PortAliveWhileUsed)'
  BY <1>20 DEF ClickStop
<1>21. ASSUME NEW k \in Stoppers, CloseWindow(k) PROVE (PointerIsLive /\ PortAliveWhileUsed)'
  BY <1>21 DEF CloseWindow, InputReady
<1>22. ASSUME NEW k \in Stoppers, StopText(k) PROVE (PointerIsLive /\ PortAliveWhileUsed)'
  BY <1>22 DEF StopText
<1>23. ASSUME NEW k \in Stoppers, StopEnter(k) PROVE (PointerIsLive /\ PortAliveWhileUsed)'
  BY <1>23 DEF StopEnter
<1>24. ASSUME NEW k \in Stoppers, CloseCom(k) PROVE (PointerIsLive /\ PortAliveWhileUsed)'
  BY <1>24 DEF CloseCom
<1>25. ASSUME NEW k \in Stoppers, FreePort(k) PROVE (PointerIsLive /\ PortAliveWhileUsed)'
  BY <1>25 DEF FreePort
<1>26. ASSUME NEW k \in Stoppers, StopPost(k) PROVE (PointerIsLive /\ PortAliveWhileUsed)'
  BY <1>26 DEF StopPost
<1>27. ASSUME NEW o \in Ports,
             ReadCom(o) \/ ReadEnd(o) \/ Proc(o) \/ ProcFile(o)
      PROVE  UNCHANGED <<ui, mainCs, pcio, port, pc, st>>
  BY <1>27 DEF ReadCom, ReadEnd, Proc, ProcFile
<1>28. ASSUME NEW n \in Sn,
             ParseFile(n)
      PROVE  UNCHANGED <<ui, mainCs, pcio, port, pc, st>>
  BY <1>28 DEF ParseFile
<1>29. CASE Exit
  BY <1>29 DEF Exit
<1>30. CASE TakeRefresh \/ Refresh \/ DeleteMainCs
  BY <1>30 DEF TakeRefresh, Refresh, DeleteMainCs
<1>31. CASE DevReply
  BY <1>31 DEF DevReply
<1>32. CASE UNCHANGED <<ui, mainCs, pcio, port, pc, st>>
  BY <1>32
<1> QED
  BY <1>1, <1>2, <1>3, <1>4, <1>5, <1>6, <1>7, <1>8, <1>9, <1>10, <1>11, <1>12,
     <1>13, <1>14, <1>15, <1>16, <1>17, <1>18, <1>19, <1>20, <1>21, <1>22,
     <1>23, <1>24, <1>25, <1>26, <1>27, <1>28, <1>29, <1>30, <1>31, <1>32
  DEF Next, User, Window, SyncConnect, SyncBody, StopBody, Reader

(* Every step of the program keeps the inductive invariant.                *)
LEMMA SyncInvNext == SyncInv /\ [Next]_vars => SyncInv'
<1> SUFFICES ASSUME SyncInv, [Next]_vars PROVE SyncInv'
  OBVIOUS
<1>1. SyncTypeOK'
  BY UiTypeNext, PortTypeNext, ReceiverNext, ThreadTypeNext, LinkTypeNext,
     ParseTypeNext DEF SyncInv, SyncTypeOK
<1>2. OpenFileExists'
  BY ReceiverNext DEF SyncInv
<1>3. InBounds' /\ LockDiscipline'
  BY BoundsNext, LockNext DEF SyncInv, SyncTypeOK
<1>4. (PointerIsLive /\ PortAliveWhileUsed)'
  BY PortAliveNext DEF SyncInv
<1> QED
  BY <1>1, <1>2, <1>3, <1>4 DEF SyncInv

-----------------------------------------------------------------------------
(* The button.                                                             *)

(* Every change of pcio, and every Refresh that may have missed it, still  *)
(* has a WM_UI_REFRESH behind it.                                          *)
LEMMA ButtonNext ==
  UiTypeOK /\ ThreadTypeOK /\ ButtonFitsPort /\ [Next]_vars => ButtonFitsPort'
<1> SUFFICES ASSUME UiTypeOK, ThreadTypeOK, ButtonFitsPort, [Next]_vars PROVE ButtonFitsPort'
  OBVIOUS
<1> USE DEF UiTypeOK, ThreadTypeOK, ButtonFitsPort, RefreshOnItsWay, PostRefresh,
        WindowGone, Goto, StopGoto, vars, uiVars, portVars, syncVars, readVars, linkVars,
        parseVars, allRecv, recvVars, syncElse, stopElse, readElse, dataVars
<1>1. ASSUME NEW t \in Syncers, ClickSync(t) PROVE ButtonFitsPort'
  BY <1>1 DEF ClickSync
<1>2. ASSUME NEW t \in Syncers, SyncTest(t) PROVE ButtonFitsPort'
  BY <1>2 DEF SyncTest
<1>3. ASSUME NEW t \in Syncers, GetCommPort(t) PROVE ButtonFitsPort'
  BY <1>3 DEF GetCommPort
<1>4. ASSUME NEW t \in Syncers, CopyName(t) PROVE ButtonFitsPort'
  BY <1>4 DEF CopyName
<1>5. ASSUME NEW t \in Syncers, OpenEnter(t) PROVE ButtonFitsPort'
  BY <1>5 DEF OpenEnter
<1>6. ASSUME NEW t \in Syncers, Create(t) PROVE ButtonFitsPort'
  BY <1>6 DEF Create
<1>7. ASSUME NEW t \in Syncers, Announce(t) PROVE ButtonFitsPort'
  BY <1>7 DEF Announce
<1>8. ASSUME NEW t \in Syncers, Post(t) PROVE ButtonFitsPort'
  BY <1>8 DEF Post
<1>9. ASSUME NEW t \in Syncers, LoopEnter(t) PROVE ButtonFitsPort'
  BY <1>9 DEF LoopEnter
<1>10. ASSUME NEW t \in Syncers, TestFlag(t) PROVE ButtonFitsPort'
  BY <1>10 DEF TestFlag
<1>11. ASSUME NEW t \in Syncers, CheckFileExist(t) PROVE ButtonFitsPort'
  BY <1>11 DEF CheckFileExist
<1>12. ASSUME NEW t \in Syncers, Ask(t) PROVE ButtonFitsPort'
  BY <1>12 DEF Ask
<1>13. ASSUME NEW t \in Syncers, WriteRequest(t) PROVE ButtonFitsPort'
  BY <1>13 DEF WriteRequest
<1>14. ASSUME NEW t \in Syncers, Finish(t) PROVE ButtonFitsPort'
  BY <1>14 DEF Finish
<1>15. ASSUME NEW t \in Syncers, Leave(t) PROVE ButtonFitsPort'
  BY <1>15 DEF Leave
<1>16. ASSUME NEW t \in Syncers, GiveUp(t) PROVE ButtonFitsPort'
  BY <1>16 DEF GiveUp
<1>17. ASSUME NEW t \in Syncers, EndTest(t) PROVE ButtonFitsPort'
  BY <1>17 DEF EndTest
<1>18. ASSUME NEW t \in Syncers, DeleteLastFile(t) PROVE ButtonFitsPort'
  BY <1>18 DEF DeleteLastFile
<1>19. ASSUME NEW t \in Syncers, ResetFlag(t) PROVE ButtonFitsPort'
  BY <1>19 DEF ResetFlag
<1>20. ASSUME NEW k \in Stoppers, ClickStop(k) PROVE ButtonFitsPort'
  BY <1>20 DEF ClickStop
<1>21. ASSUME NEW k \in Stoppers, CloseWindow(k) PROVE ButtonFitsPort'
  BY <1>21 DEF CloseWindow
<1>22. ASSUME NEW k \in Stoppers, StopText(k) PROVE ButtonFitsPort'
  BY <1>22 DEF StopText
<1>23. ASSUME NEW k \in Stoppers, StopEnter(k) PROVE ButtonFitsPort'
  BY <1>23 DEF StopEnter
<1>24. ASSUME NEW k \in Stoppers, CloseCom(k) PROVE ButtonFitsPort'
  BY <1>24 DEF CloseCom
<1>25. ASSUME NEW k \in Stoppers, FreePort(k) PROVE ButtonFitsPort'
  BY <1>25 DEF FreePort
<1>26. ASSUME NEW k \in Stoppers, StopPost(k) PROVE ButtonFitsPort'
  BY <1>26 DEF StopPost
<1>27. ASSUME NEW o \in Ports,
             ReadCom(o) \/ ReadEnd(o) \/ Proc(o) \/ ProcFile(o)
      PROVE  UNCHANGED <<uiVars, pcio, pc, st>>
  BY <1>27 DEF ReadCom, ReadEnd, Proc, ProcFile
<1>28. ASSUME NEW n \in Sn,
             ParseFile(n)
      PROVE  UNCHANGED <<uiVars, pcio, pc, st>>
  BY <1>28 DEF ParseFile
<1>29. CASE TakeRefresh
  BY <1>29 DEF TakeRefresh
<1>30. CASE Refresh
  BY <1>30 DEF Refresh
<1>31. CASE Exit
  BY <1>31 DEF Exit
<1>32. ASSUME DevReply
      PROVE  UNCHANGED <<uiVars, pcio, pc, st>>
  BY <1>32 DEF DevReply
<1>33. CASE DeleteMainCs
  BY <1>33 DEF DeleteMainCs
<1>34. CASE UNCHANGED <<uiVars, pcio, pc, st>>
  BY <1>34
<1> QED
  BY <1>1, <1>2, <1>3, <1>4, <1>5, <1>6, <1>7, <1>8, <1>9, <1>10, <1>11, <1>12,
     <1>13, <1>14, <1>15, <1>16, <1>17, <1>18, <1>19, <1>20, <1>21, <1>22,
     <1>23, <1>24, <1>25, <1>26, <1>27, <1>28, <1>29, <1>30, <1>31, <1>32,
     <1>33, <1>34
  DEF Next, User, Window, SyncConnect, SyncBody, StopBody, Reader

-----------------------------------------------------------------------------
(* The theorems.                                                           *)

(* The strengthened invariant holds in every state of the program.         *)
THEOREM SyncInvariant == Spec => []SyncInv
<1>1. Init => SyncInv
  BY SyncInvInit
<1>2. SyncInv /\ [Next]_vars => SyncInv'
  BY SyncInvNext
<1> QED
  BY <1>1, <1>2, PTL DEF Spec

(* Type correctness of the download side: window, doSync, StopThread, read *)
(* threads and receiver.                                                   *)
THEOREM TypeCorrect == Spec => []SyncTypeOK
<1>1. SyncInv => SyncTypeOK
  BY DEF SyncInv
<1> QED
  BY <1>1, SyncInvariant, PTL

(* main_cs excludes: whoever is between its EnterCriticalSection and its   *)
(* LeaveCriticalSection owns it, on each of the exits of doSync's loop.    *)
THEOREM LockIsKept == Spec => []LockDiscipline
<1>1. SyncInv => LockDiscipline
  BY DEF SyncInv
<1> QED
  BY <1>1, SyncInvariant, PTL

(* However many doSync and StopThread threads the user starts, none uses   *)
(* the CosmosSpp object after another has closed or deleted it.            *)
THEOREM PortStaysAlive == Spec => []PortAliveWhileUsed
<1>1. SyncInv => PortAliveWhileUsed
  BY DEF SyncInv
<1> QED
  BY <1>1, SyncInvariant, PTL

(* Refresh, which reads pcio without main_cs, leaves the wrong button only *)
(* while another WM_UI_REFRESH is still to come.                           *)
THEOREM ButtonFits == Spec => []ButtonFitsPort
<1>1. Init => ButtonFitsPort
  BY DEF Init, ProcessStart, ButtonFitsPort
<1>2. SyncInv /\ ButtonFitsPort /\ [Next]_vars => ButtonFitsPort'
  BY ButtonNext DEF SyncInv, SyncTypeOK
<1> QED
  BY <1>1, <1>2, SyncInvariant, PTL DEF Spec

-----------------------------------------------------------------------------
(***************************************************************************)
(* What doSync downloads: theorems for one doSync thread, for any set of   *)
(* logs of any size, any number of StopThread threads and port objects,    *)
(* and reads of any length.  The watch answers within doSync's sleeps and  *)
(* a read thread ends within the destructor's, which is what the code      *)
(* relies on.  What is said of logs that doSync does not touch supposes    *)
(* that the program was not started again.                                 *)
(***************************************************************************)

-----------------------------------------------------------------------------
(* The vocabulary of the invariant.                                        *)

(* Pieces a, a + 1, .. , b - 1 of what the watch sends for f, in order; 0  *)
(* is the header.                                                          *)
Pieces(f, a, b) == [k \in 1 .. (b - a) |-> <<f, a + k - 1>>]
End(f)          == LogSize[f] + 1

(* Where the read thread of pcio's object is; one that has ended, or that  *)
(* the program has forgotten, does as little as one that waits.            *)
Pos == IF pcio = 0 \/ rpc[pcio] = "none" THEN "read" ELSE rpc[pcio]

PortOpen == pcio # 0 /\ port[pcio] = "open"

(* Every log in the folder is all there, but perhaps f.  A program that    *)
(* ended during a download leaves its successor a partial log, so this is  *)
(* claimed of a program that is started once.                              *)
OneRun      == MaxRuns = 1
WholeBut(f) == OneRun => \A g \in Sn : g # f /\ Exists(g) => Complete(g)
AllWhole    == OneRun => \A g \in Sn : Exists(g) => Complete(g)

(* What the watch still has to deliver of f from piece c on: all of it, or *)
(* nothing once the port was closed.                                       *)
Rest(f, c) == chan = Pieces(f, c, End(f)) \/ chan = <<>>

(* No request is under way and no file is open.                            *)
Quiet == req = <<>> /\ chan = <<>> /\ Pos = "read" /\ hfile = 0 /\ AllWhole

Between == flag = 0 /\ Quiet

(* The request for dwName is answered: nothing came of it, or the log.     *)
Settled ==
  /\ Quiet
  /\ \/ flag = 1 /\ (PortOpen => LogSize[dwName] = 0)
     \/ flag = 3 /\ Complete(dwName)

Missing == hfile = 0 /\ AllWhole /\ dwName # 0 /\ ~Exists(dwName)

(* The request is on its way to the watch.                                 *)
Asked == /\ flag = 1 /\ req = <<dwName>> /\ chan = <<>>
         /\ Pos = "read" /\ Missing

(* The answer is on its way, or the read thread has its header.            *)
Answered ==
  /\ flag = 1 /\ req = <<>> /\ Missing
  /\ \/ /\ Pos = "read"
        /\ chan = Pieces(dwName, 0, End(dwName))
     \/ /\ Pos = "proc"
        /\ \E c \in 1 .. End(dwName) :
             /\ rbuf[pcio] = Pieces(dwName, 0, c)
             /\ Rest(dwName, c)

(* InitFile.                                                               *)
Opening ==
  /\ flag = 2 /\ req = <<>> /\ Missing
  /\ file_size = LogSize[dwName] /\ file_size > 0 /\ total_recv = 0
  /\ Pos \in {"init", "create"}
  /\ Pos = "create" => lastFile = dwName
  /\ \E c \in 1 .. End(dwName) : Rest(dwName, c)

(* The file holds the pieces before b; or it is too short to be completed, *)
(* because some were dropped or not written; or it could not be created.   *)
Held(b) ==
  \/ hfile = 0 /\ ~Exists(dwName)
  \/ /\ hfile = dwName
     /\ disk[dwName] = Pieces(dwName, 1, b) \/ Len(disk[dwName]) < b - 1

(* What the file holds is counted, but for the last n pieces.              *)
Tally(n) == total_recv + n = IF hfile = 0 THEN 0 ELSE Len(disk[dwName])

(* The read thread waits for the pieces from c on, and is done with those  *)
(* before b.                                                               *)
Reached(b, c) ==
  /\ Held(b) /\ Rest(dwName, c)
  /\ \/ Pos = "read" /\ b = c /\ Tally(0)
     \/ Pos = "proc" /\ rbuf[pcio] = Pieces(dwName, b, c) /\ Tally(0)
     \/ Pos \in {"count", "short"} /\ b = c /\ hfile # 0 /\ Tally(Len(rbuf[pcio]))

(* The file is open and incomplete, or complete and not yet counted, or    *)
(* there is none.                                                          *)
Writing ==
  /\ flag = 2 /\ req = <<>> /\ WholeBut(dwName)
  /\ lastFile = dwName /\ dwName # 0
  /\ file_size = LogSize[dwName] /\ total_recv < file_size
  /\ \E b, c \in 1 .. End(dwName) : b <= c /\ Reached(b, c)

(* The file is complete and closed, but flag does not say so yet.          *)
Ending ==
  /\ flag = 2 /\ req = <<>> /\ chan = <<>> /\ Pos = "fin"
  /\ hfile = 0 /\ AllWhole /\ Complete(dwName)

(* What is left of a download that Stop interrupted, once it is closed.    *)
Torn ==
  /\ flag = 2 /\ req = <<>> /\ chan = <<>> /\ pcio = 0
  /\ hfile = 0 /\ lastFile = dwName /\ dwName # 0
  /\ WholeBut(dwName) /\ disk[dwName] # Content(dwName)

InWork == Settled \/ Writing \/ Ending
Active == InWork \/ Asked \/ Answered \/ Opening

(* flag, dwName, the file and the wire belong to the number doSync has got *)
(* to, at each of its steps.                                               *)
Position(t) ==
  /\ pc[t] \in {"idle", "test", "name", "copy", "open", "create", "announce",
                "post", "exist"} => Between
  /\ pc[t] \in {"enter", "leave"} => Between \/ (i[t] = dwName /\ Active)
  /\ pc[t] = "leave" => flag = 0 \/ i[t] < MaxSn
  /\ pc[t] = "t0" => Between \/ (i[t] = dwName /\ InWork)
  /\ pc[t] = "t2" => i[t] = dwName /\ InWork
  /\ pc[t] \in {"t3", "t1", "notfound", "fin"} => i[t] = dwName /\ Settled
  /\ pc[t] \in {"ask", "write"} =>
       flag = 1 /\ Quiet /\ ~Exists(i[t]) /\ i[t] < MaxSn
  /\ pc[t] = "write" => dwName = i[t]
  /\ pc[t] \in {"t1", "notfound"} => flag = 1
  /\ pc[t] = "fin" => flag = 3
  /\ pc[t] # "unknown"
  /\ pc[t] = "end" => Between \/ Settled \/ (Writing /\ pcio = 0)
  /\ pc[t] = "del" => Writing /\ pcio = 0
  /\ pc[t] = "unlink" => Torn
  /\ pc[t] = "reset" => Quiet

(* The objects other than pcio's are closed and their read threads do      *)
(* nothing but end; without an open port nothing is on the wire.  None of  *)
(* it needs main_cs, which _tWinMain deletes before the threads end.       *)
PortsFit(t) ==
  /\ NoOrphanPort
  /\ pc[t] \in {"name", "copy", "open", "create"} => pcio = 0
  /\ \A k \in Stoppers : st[k] = "free" => pcio # 0 /\ port[pcio] = "null"
  /\ \A j, k \in Stoppers : st[j] = "free" /\ st[k] = "free" => j = k

ReadersFit(t) ==
  /\ \A o \in Ports : rpc[o] \notin {"read", "none"} => o = pcio
  /\ pcio # 0 /\ pc[t] # "announce" => registered[pcio]
  /\ ~PortOpen => req = <<>> /\ chan = <<>>

ParsesWhole == \A n \in parsing : Complete(n)

DownloadInv(t) == SyncInv /\ PortsFit(t) /\ ReadersFit(t) /\ Position(t) /\ ParsesWhole

-----------------------------------------------------------------------------
(* What a step of the other threads and of the watch may do to a download, *)
(* and what any step may do to the folder: one number at a time, and never *)
(* one that is complete.                                                   *)
Moves ==
  /\ dwName' = dwName
  /\ Quiet => Quiet' /\ flag' = flag /\ disk' = disk
  /\ Settled => Settled'
  /\ Asked \/ Answered \/ Opening => Active'
  /\ Writing \/ Ending => InWork'
  /\ Writing /\ pcio = 0 => Writing' /\ pcio' = 0
  /\ Torn => Torn'

StoreStep ==
  \/ disk' = disk
  \/ \E f \in Sn, s \in Seq(Item) \cup {NoFile} :
       /\ ~Complete(f) /\ WholeBut(f)
       /\ disk' = [disk EXCEPT ![f] = s]
       /\ Exists(f) \/ s # Content(f)

-----------------------------------------------------------------------------
(* Pieces.                                                                 *)

(* The watch has a header and then LogSize[f] pieces to send.              *)
LEMMA EndIsNat ==
  ASSUME NEW f \in Sn
  PROVE  LogSize[f] \in Nat /\ End(f) \in Nat \ {0}
BY ReceiverAssumption DEF End

(* What Pieces is made of.                                                 *)
LEMMA PiecesAre ==
  ASSUME NEW f \in Sn, NEW a \in Nat, NEW b \in Nat, a <= b
  PROVE  /\ Pieces(f, a, b) \in Seq(Item)
         /\ Len(Pieces(f, a, b)) = b - a
         /\ \A k \in 1 .. (b - a) : Pieces(f, a, b)[k] = <<f, a + k - 1>>
<1>1. b - a \in Nat
  OBVIOUS
<1>2. \A k \in 1 .. (b - a) : <<f, a + k - 1>> \in Item
  BY DEF Item
<1>3. Pieces(f, a, b) \in [1 .. (b - a) -> Item]
  BY <1>2 DEF Pieces
<1>4. Pieces(f, a, b) \in Seq(Item)
  BY <1>1, <1>3, SeqDef
<1>5. Len(Pieces(f, a, b)) = b - a
  BY <1>1, <1>3, <1>4, LenProperties
<1> QED
  BY <1>4, <1>5 DEF Pieces

(* A sequence is known by its length and its members.                      *)
LEMMA PiecesOnly ==
  ASSUME NEW f \in Sn, NEW a \in Nat, NEW s \in Seq(Item),
         \A k \in 1 .. Len(s) : s[k] = <<f, a + k - 1>>
  PROVE  s = Pieces(f, a, a + Len(s))
<1> DEFINE n == Len(s)
           b == a + n
           p == Pieces(f, a, b)
<1>1. n \in Nat
  BY LenProperties
<1>2. b \in Nat /\ a <= b /\ b - a = n
  BY <1>1
<1> HIDE DEF b
<1>3. p \in Seq(Item) /\ Len(p) = n /\ \A k \in 1 .. n : p[k] = <<f, a + k - 1>>
  <2>1. /\ p \in Seq(Item) /\ Len(p) = b - a
        /\ \A k \in 1 .. (b - a) : p[k] = <<f, a + k - 1>>
    BY <1>2, PiecesAre
  <2> HIDE DEF p, n
  <2> QED
    BY <1>2, <2>1
<1>4. \A k \in 1 .. n : s[k] = p[k]
  BY <1>3
<1> HIDE DEF p
<1>5. s = p
  BY <1>3, <1>4, SeqEqual
<1> QED
  BY <1>5 DEF p, b

(* An empty stretch of a log is no pieces at all.                          *)
LEMMA NoPieces ==
  ASSUME NEW f \in Sn, NEW a \in Nat
  PROVE  Pieces(f, a, a) = <<>>
<1>1. Pieces(f, a, a) \in Seq(Item) /\ Len(Pieces(f, a, a)) = 0
  BY PiecesAre
<1> QED
  BY <1>1, EmptySeq

(* ReadFile takes a first part of what has arrived and leaves the others.  *)
LEMMA PiecesSplit ==
  ASSUME NEW f \in Sn, NEW a \in Nat, NEW b \in Nat,
         NEW k \in Nat, NEW m \in Nat, m = a + k, m <= b
  PROVE  /\ SubSeq(Pieces(f, a, b), 1, k) = Pieces(f, a, m)
         /\ SubSeq(Pieces(f, a, b), k + 1, Len(Pieces(f, a, b))) = Pieces(f, m, b)
<1> DEFINE p == Pieces(f, a, b)
<1>1. \A j \in 1 .. (b - a) : p[j] = <<f, a + j - 1>> /\ p[j] \in Item
  <2> TAKE j \in 1 .. (b - a)
  <2>1. p[j] = <<f, a + j - 1>>
    BY DEF Pieces
  <2>2. a + j - 1 \in Nat
    OBVIOUS
  <2>3. <<f, a + j - 1>> \in Item
    BY <2>2 DEF Item
  <2> QED
    BY <2>1, <2>3
<1> HIDE DEF p
<1>2. SubSeq(p, 1, k) = Pieces(f, a, a + k)
  <2> DEFINE s == SubSeq(p, 1, k)
  <2>1. \A j \in 1 .. k : p[j] \in Item
    BY <1>1
  <2>2. s \in Seq(Item) /\ Len(s) = k /\ \A j \in 1 .. k : s[j] = p[j]
    BY <2>1, SubSeqProperties, 1 \in Int, k \in Int
  <2>3. \A j \in 1 .. k : s[j] = <<f, a + j - 1>>
    BY <1>1, <2>2
  <2> HIDE DEF s
  <2>5. s = Pieces(f, a, a + Len(s))
    BY <2>2, <2>3, PiecesOnly
  <2> QED
    BY <2>2, <2>5 DEF s
<1>3. SubSeq(p, k + 1, b - a) = Pieces(f, a + k, b)
  <2> DEFINE s == SubSeq(p, k + 1, b - a)
  <2>1. \A j \in (k + 1) .. (b - a) : p[j] \in Item
    BY <1>1
  <2>2. /\ s \in Seq(Item)
        /\ Len(s) = (IF k + 1 <= b - a THEN (b - a) - (k + 1) + 1 ELSE 0)
        /\ \A j \in 1 .. ((b - a) - (k + 1) + 1) : s[j] = p[k + 1 + j - 1]
    BY <2>1, SubSeqProperties, k + 1 \in Int, b - a \in Int
  <2>3. Len(s) = b - (a + k)
    BY <2>2
  <2>4. \A j \in 1 .. (b - (a + k)) : s[j] = <<f, (a + k) + j - 1>>
    <3> TAKE j \in 1 .. (b - (a + k))
    <3>1. s[j] = p[k + j] /\ k + j \in 1 .. (b - a)
      <4>1. j \in 1 .. ((b - a) - (k + 1) + 1) /\ k + 1 + j - 1 = k + j
        OBVIOUS
      <4>2. s[j] = p[k + 1 + j - 1]
        BY <2>2, <4>1
      <4> QED
        BY <4>1, <4>2
    <3>2. p[k + j] = <<f, a + (k + j) - 1>>
      BY <1>1, <3>1
    <3>3. a + (k + j) - 1 = (a + k) + j - 1
      OBVIOUS
    <3> QED
      BY <3>1, <3>2, <3>3
  <2> HIDE DEF s
  <2>5. a + k \in Nat /\ (a + k) + (b - (a + k)) = b
    OBVIOUS
  <2>6. s = Pieces(f, a + k, (a + k) + Len(s))
    BY <2>2, <2>3, <2>4, <2>5, PiecesOnly
  <2> QED
    BY <2>3, <2>5, <2>6 DEF s
<1>4. Len(p) = b - a
  <2>1. a <= b
    OBVIOUS
  <2> QED
    BY <2>1, PiecesAre DEF p
<1> QED
  BY <1>2, <1>3, <1>4 DEF p

(* WriteFile appends what was read to what the file holds.                 *)
LEMMA PiecesJoin ==
  ASSUME NEW f \in Sn, NEW a \in Nat, NEW b \in Nat, NEW c \in Nat,
         a <= b, b <= c
  PROVE  Pieces(f, a, b) \o Pieces(f, b, c) = Pieces(f, a, c)
<1> DEFINE p == Pieces(f, a, b)
           q == Pieces(f, b, c)
<1>1. p \in Seq(Item) /\ Len(p) = b - a /\ \A k \in 1 .. (b - a) : p[k] = <<f, a + k - 1>>
  BY PiecesAre
<1>2. q \in Seq(Item) /\ Len(q) = c - b /\ \A k \in 1 .. (c - b) : q[k] = <<f, b + k - 1>>
  BY PiecesAre
<1> HIDE DEF p, q
<1>3. /\ p \o q \in Seq(Item)
      /\ Len(p \o q) = Len(p) + Len(q)
      /\ \A k \in 1 .. (Len(p) + Len(q)) :
           (p \o q)[k] = IF k <= Len(p) THEN p[k] ELSE q[k - Len(p)]
  BY <1>1, <1>2, ConcatProperties
<1>4. Len(p) + Len(q) = c - a
  BY <1>1, <1>2
<1>5. \A k \in 1 .. (c - a) : (p \o q)[k] = <<f, a + k - 1>>
  <2> TAKE k \in 1 .. (c - a)
  <2>1. CASE k <= b - a
    BY <1>1, <1>3, <1>4, <2>1
  <2>2. CASE k > b - a
    <3>1. (p \o q)[k] = q[k - (b - a)]
      BY <1>1, <1>3, <1>4, <2>2
    <3>2. k - (b - a) \in 1 .. (c - b)
      BY <2>2
    <3>3. q[k - (b - a)] = <<f, b + (k - (b - a)) - 1>>
      BY <1>2, <3>2
    <3>4. b + (k - (b - a)) - 1 = a + k - 1
      OBVIOUS
    <3> QED
      BY <3>1, <3>3, <3>4
  <2>3. k <= b - a \/ k > b - a
    OBVIOUS
  <2> QED
    BY <2>1, <2>2, <2>3
<1> DEFINE r == p \o q
<1>6. r \in Seq(Item) /\ Len(r) = c - a /\ \A k \in 1 .. (c - a) : r[k] = <<f, a + k - 1>>
  BY <1>3, <1>4, <1>5
<1> HIDE DEF r
<1>7. r = Pieces(f, a, a + Len(r))
  BY <1>6, PiecesOnly
<1>8. a + (c - a) = c
  OBVIOUS
<1> QED
  BY <1>6, <1>7, <1>8 DEF p, q, r

(* The whole log, and the answer of the watch to a request for it.         *)
LEMMA ContentPieces ==
  ASSUME NEW f \in Sn
  PROVE  /\ Content(f) = Pieces(f, 1, End(f))
         /\ <<<<f, 0>>>> \o Content(f) = Pieces(f, 0, End(f))
<1>1. LogSize[f] \in Nat /\ End(f) \in Nat \ {0}
  BY EndIsNat
<1>2. Content(f) = Pieces(f, 1, End(f))
  <2>1. End(f) - 1 = LogSize[f]
    BY <1>1 DEF End
  <2>2. \A k \in 1 .. LogSize[f] : 1 + k - 1 = k
    BY <1>1
  <2> QED
    BY <2>1, <2>2 DEF Pieces, Content
<1>3. <<<<f, 0>>>> = Pieces(f, 0, 1)
  <2>1. <<<<f, 0>>>> \in Seq(Item)
    BY ContentIsSeq
  <2> DEFINE h == <<<<f, 0>>>>
  <2>2. Len(h) = 1 /\ h[1] = <<f, 0>>
    OBVIOUS
  <2>3. h \in Seq(Item)
    BY <2>1
  <2> HIDE DEF h
  <2>4. \A k \in 1 .. Len(h) : h[k] = <<f, 0 + k - 1>>
    BY <2>2
  <2>5. h = Pieces(f, 0, 0 + Len(h))
    BY <2>3, <2>4, PiecesOnly
  <2>6. h = Pieces(f, 0, 1)
    BY <2>2, <2>5
  <2> QED
    BY <2>6 DEF h
<1>4. Pieces(f, 0, 1) \o Pieces(f, 1, End(f)) = Pieces(f, 0, End(f))
  <2>1. End(f) \in Nat /\ 1 <= End(f)
    BY <1>1
  <2> QED
    BY <2>1, PiecesJoin, 0 \in Nat, 1 \in Nat, 0 <= 1
<1> QED
  BY <1>2, <1>3, <1>4

(* A file that is shorter than the log is not the log.                     *)
LEMMA ShortLog ==
  ASSUME NEW f \in Sn
  PROVE  Len(Content(f)) = LogSize[f]
<1>1. 1 \in Nat /\ End(f) \in Nat /\ 1 <= End(f) /\ End(f) - 1 = LogSize[f]
  BY EndIsNat DEF End
<1>2. Len(Pieces(f, 1, End(f))) = End(f) - 1
  BY <1>1, PiecesAre
<1>3. Content(f) = Pieces(f, 1, End(f))
  BY ContentPieces
<1> QED
  BY <1>1, <1>2, <1>3

(* The header is found where it is, and nowhere else.                      *)
LEMMA HeaderFirst ==
  ASSUME NEW f \in Sn, NEW b \in Nat \ {0}
  PROVE  /\ HasHeader(Pieces(f, 0, b))
         /\ HeaderIn(Pieces(f, 0, b)) = {1}
         /\ Pieces(f, 0, b)[1] = <<f, 0>>
<1> DEFINE p == Pieces(f, 0, b)
<1>1. DOMAIN p = 1 .. b /\ \A k \in 1 .. b : p[k] = <<f, k - 1>>
  <2>1. \A k \in 1 .. (b - 0) : 0 + k - 1 = k - 1
    OBVIOUS
  <2> QED
    BY <2>1 DEF Pieces
<1> HIDE DEF p
<1>2. \A k \in 1 .. b : IsHeader(p[k]) <=> k = 1
  BY <1>1 DEF IsHeader
<1>3. 1 \in DOMAIN p /\ IsHeader(p[1])
  BY <1>1, <1>2
<1>4. HeaderIn(p) = {1}
  BY <1>1, <1>2 DEF HeaderIn
<1>5. p[1] = <<f, 0>>
  BY <1>1
<1> QED
  BY <1>3, <1>4, <1>5 DEF p, HasHeader

(* Behind the first piece of a log there is no header any more.            *)
LEMMA NoHeader ==
  ASSUME NEW f \in Sn, NEW a \in Nat \ {0}, NEW b \in Nat
  PROVE  ~HasHeader(Pieces(f, a, b))
<1>1. \A k \in 1 .. (b - a) : Pieces(f, a, b)[k] = <<f, a + k - 1>>
  BY DEF Pieces
<1>2. DOMAIN Pieces(f, a, b) = 1 .. (b - a)
  BY DEF Pieces
<1>3. \A k \in 1 .. (b - a) : a + k - 1 # 0
  OBVIOUS
<1> QED
  BY <1>1, <1>2, <1>3 DEF HasHeader, IsHeader

-----------------------------------------------------------------------------
(* One port.                                                               *)

(* At the start there is no port object.                                   *)
LEMMA PortsInit ==
  ASSUME NEW t \in Syncers
  PROVE  Init => PortsFit(t)
BY DEF Init, ProcessStart, PortsFit, NoOrphanPort

(* Whoever opens a port has seen pcio = NULL and is the only one to set    *)
(* it; whoever clears pcio has closed its port before.                     *)
LEMMA PortsNext ==
  ASSUME NEW t \in Syncers, Syncers = {t}, SyncInv, PortsFit(t), [Next]_vars
  PROVE  PortsFit(t)'
<1> USE SyncAssumption
    DEF SyncInv, SyncTypeOK, ThreadTypeOK, PortTypeOK, Ports, PortsFit,
        NoOrphanPort, HasPort, Lock, Unlock, Goto, StopGoto, vars, uiVars,
        portVars, syncVars, readVars, linkVars, parseVars, allRecv, recvVars,
        syncElse, stopElse, readElse, dataVars
<1>1. CASE ClickSync(t) \/ SyncTest(t) \/ GetCommPort(t) \/ CopyName(t)
  BY <1>1 DEF ClickSync, SyncTest, GetCommPort, CopyName
<1>2. CASE OpenEnter(t)
  BY <1>2 DEF OpenEnter
<1>3. CASE Create(t)
  <2>1. pcio = 0 /\ \A q \in Ports : port[q] # "open"
    BY <1>3 DEF Create
  <2>2. \A k \in Stoppers : st[k] # "free"
    BY <2>1
  <2>3. PICK o \in Ports :
          /\ pcio' = o
          /\ \/ port' = [port EXCEPT ![o] = "invalid"]
             \/ port' = [port EXCEPT ![o] = "open"]
    BY <1>3 DEF Create
  <2>4. \A q \in Ports : port'[q] = "open" => q = o
    BY <2>1, <2>3
  <2>5. pc' = [pc EXCEPT ![t] = "announce"] /\ UNCHANGED st
    BY <1>3 DEF Create
  <2> QED
    BY <2>2, <2>3, <2>4, <2>5
<1>4. CASE Announce(t) \/ Post(t)
  BY <1>4 DEF Announce, Post
<1>5. CASE LoopEnter(t) \/ TestFlag(t) \/ CheckFileExist(t)
  BY <1>5 DEF LoopEnter, TestFlag, CheckFileExist
<1>6. CASE Ask(t) \/ WriteRequest(t) \/ Finish(t) \/ Leave(t) \/ GiveUp(t)
  BY <1>6 DEF Ask, WriteRequest, Finish, Leave, GiveUp
<1>7. CASE EndTest(t) \/ ResetFlag(t)
  BY <1>7 DEF EndTest, ResetFlag
<1>8. CASE DeleteLastFile(t)
  BY <1>8 DEF DeleteLastFile
<1>9. ASSUME NEW k \in Stoppers,
             ClickStop(k) \/ CloseWindow(k) \/ StopText(k) \/ StopPost(k)
      PROVE  PortsFit(t)'
  BY <1>9 DEF ClickStop, CloseWindow, StopText, StopPost
<1>10. ASSUME NEW k \in Stoppers, StopEnter(k) PROVE PortsFit(t)'
  BY <1>10 DEF StopEnter
<1>11. ASSUME NEW k \in Stoppers, CloseCom(k) PROVE PortsFit(t)'
  <2>1. /\ pcio \in Ports /\ pcio # 0 /\ port[pcio] # "null"
        /\ UNCHANGED <<pcio, pc>>
    BY <1>11 DEF CloseCom
  <2>2. /\ port' = [port EXCEPT ![pcio] = "null"]
        /\ st' = [st EXCEPT ![k] = "free"]
    BY <1>11 DEF CloseCom
  <2>3. \A j \in Stoppers : st[j] # "free"
    BY <2>1
  <2>4. \A j \in Stoppers : st'[j] = "free" => j = k
    BY <2>2, <2>3
  <2>5. port'[pcio'] = "null" /\ pcio' # 0
    BY <2>1, <2>2
  <2>6. NoOrphanPort'
    BY <2>1, <2>2
  <2> QED
    BY <2>1, <2>4, <2>5, <2>6
<1>12. ASSUME NEW k \in Stoppers, FreePort(k) PROVE PortsFit(t)'
  <2>1. st[k] = "free" /\ st' = [st EXCEPT ![k] = "post"]
    BY <1>12 DEF FreePort
  <2>2. \A j \in Stoppers : st'[j] # "free"
    BY <2>1
  <2>3. port[pcio] = "null"
    BY <2>1
  <2>4. \A o \in Ports : port[o] # "open"
    BY <2>3
  <2>5. pcio' = 0 /\ UNCHANGED <<port, pc>>
    BY <1>12 DEF FreePort
  <2> QED
    BY <2>1, <2>2, <2>4, <2>5
<1>13. ASSUME NEW o \in Ports,
             ReadCom(o) \/ ReadEnd(o) \/ Proc(o) \/ ProcFile(o)
      PROVE  UNCHANGED <<pcio, port, pc, st>>
  BY <1>13 DEF ReadCom, ReadEnd, Proc, ProcFile
<1>14. ASSUME NEW n \in Sn, ParseFile(n) PROVE UNCHANGED <<pcio, port, pc, st>>
  BY <1>14 DEF ParseFile
<1>15. CASE Exit
  BY <1>15 DEF Exit
<1>16. CASE TakeRefresh \/ Refresh \/ DevReply \/ DeleteMainCs
  BY <1>16 DEF TakeRefresh, Refresh, DevReply, DeleteMainCs
<1>17. CASE UNCHANGED <<pcio, port, pc, st>>
  BY <1>17
<1> QED
  BY <1>1, <1>2, <1>3, <1>4, <1>5, <1>6, <1>7, <1>8, <1>9, <1>10, <1>11, <1>12,
     <1>13, <1>14, <1>15, <1>16, <1>17
  DEF Next, User, Window, SyncConnect, SyncBody, StopBody, Reader

(* With one doSync thread no port stays open that pcio has forgotten: Stop *)
(* can close every one of them.                                            *)
THEOREM OnePort ==
  ASSUME NEW t \in Syncers, Syncers = {t}
  PROVE  Spec => []NoOrphanPort
<1>1. Init => PortsFit(t)
  BY PortsInit
<1>2. SyncInv /\ PortsFit(t) /\ [Next]_vars => PortsFit(t)'
  BY PortsNext
<1>3. PortsFit(t) => NoOrphanPort
  BY DEF PortsFit
<1> QED
  BY <1>1, <1>2, <1>3, SyncInvariant, PTL DEF Spec

-----------------------------------------------------------------------------
(* Where the read thread of pcio's object is.                              *)

(* Pos is the position of the current object's read thread.                *)
LEMMA PosAt ==
  ASSUME PortTypeOK, pcio # 0
  PROVE  /\ pcio \in Ports
         /\ rpc[pcio] # "none" => Pos = rpc[pcio]
         /\ rpc[pcio] \in {"read", "none"} => Pos = "read"
BY DEF PortTypeOK, Pos, Ports

(* A step of that read thread moves Pos.                                   *)
LEMMA PosNext ==
  ASSUME NEW o \in Ports, NEW l, l # "none", rpc \in [Ports -> ReadPCs],
         pcio # 0, o = pcio, pcio' = pcio, rpc' = [rpc EXCEPT ![o] = l]
  PROVE  Pos' = l
BY DEF Pos

(* Only pcio's object has something to read or to deal with.               *)
LEMMA OnlyReader ==
  ASSUME NEW t \in Syncers, SyncInv, PortsFit(t), ReadersFit(t),
         NEW o \in Ports,
         \/ rpc[o] = "read" /\ port[o] = "open"
         \/ rpc[o] \notin {"read", "none"}
  PROVE  o = pcio /\ pcio # 0 /\ Pos = rpc[o]
<1>1. o = pcio
  BY DEF PortsFit, NoOrphanPort, ReadersFit
<1>2. pcio # 0
  BY <1>1 DEF Ports
<1>3. PortTypeOK
  BY DEF SyncInv, SyncTypeOK
<1> QED
  BY <1>1, <1>2, <1>3, PosAt

(* A step that the download cannot see.                                    *)
LEMMA StillMoves ==
  ASSUME UNCHANGED <<allRecv, linkVars>>, Pos' = Pos, PortOpen' => PortOpen,
         Pos \in {"proc", "count", "short"} => UNCHANGED <<rbuf, pcio>>,
         pcio = 0 => pcio' = 0
  PROVE  Moves
<1> USE DEF allRecv, recvVars, linkVars
<1>1. UNCHANGED <<flag, dwName, hfile, lastFile, file_size, total_recv, disk, req, chan>>
  OBVIOUS
<1>3. (AllWhole' <=> AllWhole) /\ (Missing' <=> Missing) /\ (WholeBut(dwName)' <=> WholeBut(dwName))
  BY <1>1 DEF AllWhole, Missing, WholeBut, Exists, Complete, Content
<1>4. Quiet => Quiet'
  BY <1>1, <1>3 DEF Quiet
<1>5. Settled => Settled'
  BY <1>1, <1>4 DEF Settled, Complete, Content
<1>6. Asked => Asked'
  BY <1>1, <1>3 DEF Asked
<1>7. ASSUME Answered PROVE Answered'
  <2>1. CASE Pos = "read"
    BY <1>1, <1>3, <1>7, <2>1 DEF Answered
  <2>2. CASE Pos = "proc"
    BY <1>1, <1>3, <1>7, <2>2 DEF Answered, Rest
  <2> QED
    BY <1>7, <2>1, <2>2 DEF Answered
<1>8. Opening => Opening'
  BY <1>1, <1>3 DEF Opening, Rest
<1>9. ASSUME Writing PROVE Writing'
  <2>1. PICK b, c \in 1 .. End(dwName) : b <= c /\ Reached(b, c)
    BY <1>9 DEF Writing
  <2>2. Held(b)' /\ Rest(dwName, c)'
    BY <1>1, <2>1 DEF Reached, Rest, Held, Exists
  <2>3. Pos \in {"proc", "count", "short"} => rbuf'[pcio'] = rbuf[pcio]
    OBVIOUS
  <2>4. Reached(b, c)'
    BY <1>1, <2>1, <2>2, <2>3 DEF Reached, Tally
  <2>5. \E x, y \in 1 .. End(dwName') : x <= y /\ Reached(x, y)'
    BY <1>1, <2>1, <2>4
  <2> QED
    BY <1>1, <1>3, <1>9, <2>5 DEF Writing
<1>10. Ending => Ending'
  BY <1>1, <1>3 DEF Ending, Complete, Content
<1>11. Torn => Torn'
  BY <1>1, <1>3 DEF Torn, Content
<1> QED
  BY <1>1, <1>4, <1>5, <1>6, <1>7, <1>8, <1>9, <1>10, <1>11
  DEF Moves, Active, InWork

-----------------------------------------------------------------------------
(* The watch and the port.                                                 *)

(* The watch answers the one request there is.                             *)
LEMMA DevReplyMoves ==
  ASSUME SyncInv, DevReply
  PROVE  Moves /\ disk' = disk
<1>1. /\ req # <<>> /\ req' = Tail(req)
      /\ chan' = chan \o <<<<Head(req), 0>>>> \o Content(Head(req))
      /\ UNCHANGED <<pcio, port, rpc, rbuf>>
      /\ UNCHANGED <<flag, dwName, hfile, lastFile, file_size, total_recv, disk>>
  BY DEF DevReply, readElse, readVars, portVars, allRecv, recvVars
<1>2. dwName \in Sn
  BY DEF SyncInv, SyncTypeOK, ReceiverTypeOK
<1>3. ~Quiet /\ ~Answered /\ ~Opening /\ ~Writing /\ ~Ending /\ ~Torn
  BY <1>1 DEF Quiet, Answered, Opening, Writing, Ending, Torn
<1>4. ASSUME Asked PROVE Answered'
  <2>1. req' = <<>> /\ Head(req) = dwName
    BY <1>1, <1>4 DEF Asked
  <2>2. chan' = Pieces(dwName, 0, End(dwName))
    <3> DEFINE h == <<<<dwName, 0>>>>
    <3>1. h \in Seq(Item)
      BY <1>2, ContentIsSeq
    <3>2. chan' = (<<>> \o h) \o Content(dwName)
      BY <1>1, <1>4, <2>1 DEF Asked
    <3> HIDE DEF h
    <3>3. <<>> \o h = h
      BY <3>1, ConcatEmptySeq
    <3>4. chan' = h \o Content(dwName)
      BY <3>2, <3>3
    <3> QED
      BY <1>2, <3>4, ContentPieces DEF h
  <2>3. Pos' = Pos /\ Missing'
    BY <1>1, <1>4 DEF Asked, Pos, Missing, AllWhole, Exists, Complete, Content
  <2>4. (Pieces(dwName, 0, End(dwName)))' = Pieces(dwName, 0, End(dwName))
    BY <1>1 DEF Pieces, End
  <2> QED
    BY <1>1, <1>4, <2>1, <2>2, <2>3, <2>4 DEF Answered, Asked
<1> QED
  BY <1>1, <1>3, <1>4 DEF Moves, Settled, Active

(* With the port goes what was on the wire.                                *)
LEMMA CloseMoves ==
  ASSUME NEW t \in Syncers, NEW k \in Stoppers,
         SyncInv, ReadersFit(t), CloseCom(k)
  PROVE  Moves /\ disk' = disk /\ req' = <<>> /\ chan' = <<>> /\ ~PortOpen'
<1>1. st[k] = "close" /\ pcio # 0 /\ pcio \in Ports
  BY DEF CloseCom, HasPort, SyncInv, SyncTypeOK, PortTypeOK, Ports
<1>2. /\ port' = [port EXCEPT ![pcio] = "null"]
      /\ UNCHANGED <<pcio, rpc, rbuf>>
      /\ UNCHANGED <<flag, dwName, hfile, lastFile, file_size, total_recv, disk>>
  BY DEF CloseCom, stopElse, readVars, allRecv, recvVars
<1>3. ~PortOpen'
  BY <1>1, <1>2 DEF PortOpen, SyncInv, SyncTypeOK, PortTypeOK
<1>4. req' = <<>> /\ chan' = <<>>
  BY <1>1 DEF CloseCom, ReadersFit, PortOpen, linkVars
<1>5. Pos' = Pos
  BY <1>2 DEF Pos
<1>6. /\ AllWhole' <=> AllWhole
      /\ Missing' <=> Missing
      /\ WholeBut(dwName)' <=> WholeBut(dwName)
      /\ Complete(dwName)' <=> Complete(dwName)
  BY <1>2 DEF AllWhole, Missing, WholeBut, Exists, Complete, Content
<1>7. Quiet => Quiet'
  BY <1>2, <1>4, <1>5, <1>6 DEF Quiet
<1>8. Settled => Settled'
  BY <1>2, <1>3, <1>6, <1>7 DEF Settled
<1>9. Asked => Settled'
  BY <1>2, <1>3, <1>4, <1>5, <1>6 DEF Asked, Settled, Quiet, Missing
<1>10. ASSUME Answered PROVE Active'
  <2>1. CASE Pos = "read"
    BY <1>2, <1>3, <1>4, <1>5, <1>6, <1>10, <2>1
    DEF Answered, Settled, Quiet, Missing, Active, InWork
  <2>2. CASE Pos = "proc"
    <3>1. PICK c \in 1 .. End(dwName) : rbuf[pcio] = Pieces(dwName, 0, c)
      BY <1>10, <2>2 DEF Answered
    <3>2. Answered'
      BY <1>2, <1>4, <1>5, <1>6, <1>10, <2>2, <3>1
      DEF Answered, Rest
    <3> QED
      BY <3>2 DEF Active
  <2> QED
    BY <1>10, <2>1, <2>2 DEF Answered
<1>11. Opening => Opening'
  BY <1>2, <1>4, <1>5, <1>6 DEF Opening, Rest
<1>12. ASSUME Writing PROVE Writing'
  <2>1. PICK b, c \in 1 .. End(dwName) : b <= c /\ Reached(b, c)
    BY <1>12 DEF Writing
  <2>2. Held(b)' /\ Rest(dwName, c)'
    BY <1>2, <1>4, <2>1 DEF Reached, Rest, Held, Exists
  <2>3. Reached(b, c)'
    BY <1>2, <1>5, <2>1, <2>2 DEF Reached, Tally
  <2>4. \E x, y \in 1 .. End(dwName') : x <= y /\ Reached(x, y)'
    BY <1>2, <2>1, <2>3
  <2> QED
    BY <1>2, <1>4, <1>6, <1>12, <2>4 DEF Writing
<1>13. Ending => Ending'
  BY <1>2, <1>4, <1>5, <1>6 DEF Ending
<1>14. ~Torn
  BY <1>1 DEF Torn
<1> QED
  BY <1>1, <1>2, <1>3, <1>4, <1>7, <1>8, <1>9, <1>10, <1>11, <1>12, <1>13, <1>14
  DEF Moves, Active, InWork

(* The destructor has waited for the read thread before pcio is cleared.   *)
LEMMA FreeMoves ==
  ASSUME NEW t \in Syncers, NEW k \in Stoppers, GraceSleep,
         SyncInv, PortsFit(t), ReadersFit(t), FreePort(k)
  PROVE  Moves /\ disk' = disk
<1>1. st[k] = "free" /\ pcio # 0 /\ port[pcio] = "null"
  BY DEF FreePort, PortsFit
<1>2. /\ rpc[pcio] \in {"read", "none"} /\ pcio' = 0
      /\ UNCHANGED <<allRecv, linkVars, rbuf, rpc, port>>
  BY DEF FreePort, stopElse, readVars
<1>3. Pos = "read" /\ Pos' = "read"
  BY <1>1, <1>2 DEF Pos
<1>4. ~PortOpen'
  BY <1>2 DEF PortOpen
<1>5. Moves
  BY <1>1, <1>2, <1>3, <1>4, StillMoves
<1> QED
  BY <1>2, <1>5 DEF allRecv

-----------------------------------------------------------------------------
(* The read thread.                                                        *)

(* What is known of the variables where it works.                          *)
LEMMA DownloadTypes ==
  ASSUME SyncInv
  PROVE  /\ dwName \in Sn /\ lastFile \in Sn /\ flag \in 0 .. 3
         /\ disk \in [Sn -> Seq(Item) \cup {NoFile}]
         /\ pcio \in 0 .. MaxPorts /\ rpc \in [Ports -> ReadPCs]
         /\ rbuf \in [Ports -> Seq(Item)]
         /\ port \in [Ports -> {"null", "open", "invalid"}]
         /\ LogSize[dwName] \in Nat /\ End(dwName) \in Nat \ {0}
         /\ hfile \in Sn /\ total_recv \in Nat
         /\ hfile # 0 => disk[hfile] \in Seq(Item) /\ Exists(hfile)
BY EndIsNat
DEF SyncInv, SyncTypeOK, ReceiverTypeOK, PortTypeOK, LinkTypeOK,
    OpenFileExists, Exists

(* A file whose last pieces are not yet written is not the log.            *)
LEMMA NotYetWhole ==
  ASSUME SyncInv, Writing, Pos \in {"read", "proc"}
  PROVE  ~Complete(dwName)
<1>1. PICK b, c \in 1 .. End(dwName) : Held(b) /\ Tally(0)
  BY DEF Writing, Reached
<1>2. Len(Content(dwName)) = LogSize[dwName] /\ Content(dwName) # NoFile
  BY ShortLog, ContentIsSeq, ReceiverAssumption, DownloadTypes
<1>3. CASE hfile = 0
  BY <1>1, <1>2, <1>3 DEF Writing, Held, Exists, Complete
<1>4. CASE hfile # 0
  <2>1. hfile = dwName /\ Len(disk[dwName]) = total_recv
    BY <1>1, <1>4, DownloadTypes DEF Held, Tally
  <2>2. Len(disk[dwName]) < LogSize[dwName]
    BY <2>1 DEF Writing
  <2> QED
    BY <1>2, <2>2, DownloadTypes DEF Complete
<1> QED
  BY <1>3, <1>4

(* A ReadFile takes some of the answer, or of the content of the log.      *)
LEMMA ReadComMoves ==
  ASSUME NEW t \in Syncers, NEW o \in Ports,
         SyncInv, PortsFit(t), ReadersFit(t), ReadCom(o)
  PROVE  Moves /\ disk' = disk
<1>1. o = pcio /\ pcio # 0 /\ Pos = "read"
  BY OnlyReader DEF ReadCom
<1>2. PICK k \in 1 .. MaxItems :
        /\ k <= Len(chan)
        /\ rbuf' = [rbuf EXCEPT ![o] = SubSeq(chan, 1, k)]
        /\ chan' = SubSeq(chan, k + 1, Len(chan))
  BY DEF ReadCom
<1>3. /\ rpc' = [rpc EXCEPT ![o] = "proc"]
      /\ UNCHANGED <<req, pcio, port>>
      /\ UNCHANGED <<flag, dwName, hfile, lastFile, file_size, total_recv, disk>>
  BY DEF ReadCom, ReadGoto, readElse, portVars, allRecv, recvVars
<1>4. k \in Nat /\ k > 0 /\ chan # <<>>
  <2>1. k \in Nat /\ k > 0
    BY SyncAssumption
  <2>2. Len(<<>>) = 0
    OBVIOUS
  <2> QED
    BY <1>2, <2>1, <2>2
<1>5. Pos' = "proc"
  BY <1>1, <1>3, PosNext, DownloadTypes
<1>6. rbuf'[pcio'] = SubSeq(chan, 1, k)
  BY <1>1, <1>2, <1>3, DownloadTypes
<1>7. ~Quiet /\ ~Settled /\ ~Asked /\ ~Opening /\ ~Ending /\ ~Torn
  BY <1>1, <1>4 DEF Quiet, Settled, Asked, Opening, Ending, Torn
<1>8. ASSUME Answered PROVE Answered'
  <2>1. chan = Pieces(dwName, 0, End(dwName))
    BY <1>1, <1>8 DEF Answered
  <2>2. dwName \in Sn /\ End(dwName) \in Nat /\ 0 <= End(dwName)
    BY DownloadTypes
  <2>3. Len(chan) = End(dwName) - 0
    BY <2>1, <2>2, PiecesAre, 0 \in Nat
  <2>4. k \in 1 .. End(dwName) /\ k <= End(dwName) - 0
    BY <1>2, <1>4, <2>2, <2>3
  <2>5. /\ rbuf'[pcio'] = Pieces(dwName, 0, k)
        /\ chan' = Pieces(dwName, k, End(dwName))
    <3> DEFINE n == End(dwName)
               p == Pieces(dwName, 0, n)
    <3>1. n \in Nat /\ 0 \in Nat /\ k = 0 + k /\ k <= n
      BY <1>4, <2>2, <2>4
    <3> HIDE DEF n
    <3>2. SubSeq(p, 1, k) = Pieces(dwName, 0, k)
      BY <1>4, <2>2, <3>1, PiecesSplit
    <3>3. SubSeq(p, k + 1, Len(p)) = Pieces(dwName, k, n)
      BY <1>4, <2>2, <3>1, PiecesSplit
    <3>4. chan = p
      BY <2>1 DEF n
    <3> HIDE DEF p
    <3> QED
      BY <1>2, <1>6, <3>2, <3>3, <3>4 DEF n
  <2>6. Missing'
    BY <1>3, <1>8 DEF Answered, Missing, AllWhole, Exists, Complete, Content
  <2> QED
    BY <1>3, <1>5, <1>8, <2>4, <2>5, <2>6 DEF Answered, Rest
<1>9. ASSUME Writing PROVE Writing' /\ pcio # 0
  <2>1. PICK b, c \in 1 .. End(dwName) : b <= c /\ Reached(b, c)
    BY <1>9 DEF Writing
  <2>2. b = c /\ chan = Pieces(dwName, b, End(dwName)) /\ Held(b) /\ Tally(0)
    BY <1>1, <1>4, <2>1 DEF Reached, Rest
  <2>3. b \in Nat /\ b <= End(dwName)
    BY DownloadTypes
  <2>4. Len(chan) = End(dwName) - b
    BY <2>2, <2>3, DownloadTypes, PiecesAre
  <2>5. k <= End(dwName) - b
    BY <1>2, <2>4
  <2>6. b + k \in 1 .. End(dwName) /\ b <= b + k
    BY <1>4, <2>3, <2>5, DownloadTypes
  <2>7. /\ SubSeq(chan, 1, k) = Pieces(dwName, b, b + k)
        /\ SubSeq(chan, k + 1, Len(chan)) = Pieces(dwName, b + k, End(dwName))
    <3> DEFINE n == End(dwName)
               m == b + k
               p == Pieces(dwName, b, n)
    <3>1. n \in Nat /\ m \in Nat /\ m = b + k /\ m <= n /\ dwName \in Sn
      BY <1>4, <2>3, <2>6, DownloadTypes
    <3>2. k \in Nat /\ b \in Nat
      BY <1>4, <2>3
    <3> HIDE DEF m, n
    <3>3. SubSeq(p, 1, k) = Pieces(dwName, b, m)
      BY <3>1, <3>2, PiecesSplit, SMTT(10)
    <3>4. SubSeq(p, k + 1, Len(p)) = Pieces(dwName, m, n)
      BY <3>1, <3>2, PiecesSplit, SMTT(10)
    <3>5. chan = p
      BY <2>2 DEF n
    <3> HIDE DEF p
    <3> QED
      BY <3>3, <3>4, <3>5 DEF m, n
  <2>8. /\ rbuf'[pcio'] = Pieces(dwName, b, b + k)
        /\ chan' = Pieces(dwName, b + k, End(dwName))
    BY <1>2, <1>6, <2>7
  <2>9. Held(b)' /\ Tally(0)'
    BY <1>3, <2>2 DEF Held, Tally, Exists
  <2>10. Reached(b, b + k)'
    BY <1>3, <1>5, <2>8, <2>9 DEF Reached, Rest
  <2>11. \E x, y \in 1 .. End(dwName') : x <= y /\ Reached(x, y)'
    BY <1>3, <2>1, <2>6, <2>10
  <2>12. WholeBut(dwName)'
    BY <1>3, <1>9 DEF Writing, WholeBut, Exists, Complete, Content
  <2> QED
    BY <1>1, <1>3, <1>9, <2>11, <2>12 DEF Writing
<1> QED
  BY <1>1, <1>3, <1>7, <1>8, <1>9 DEF Moves, Active, InWork

(* A read thread whose port was closed ends.                               *)
LEMMA ReadEndMoves ==
  ASSUME NEW o \in Ports, SyncInv, ReadEnd(o)
  PROVE  Moves /\ disk' = disk
<1>1. /\ rpc[o] = "read" /\ rpc' = [rpc EXCEPT ![o] = "none"]
      /\ UNCHANGED <<pcio, port, rbuf, allRecv, linkVars>>
  BY DEF ReadEnd, ReadGoto, readElse, portVars
<1>2. Pos' = Pos
  BY <1>1, DownloadTypes DEF Pos, Ports
<1>3. PortOpen' => PortOpen
  BY <1>1 DEF PortOpen
<1>4. Moves
  BY <1>1, <1>2, <1>3, StillMoves
<1> QED
  BY <1>1, <1>4 DEF allRecv

(* proc(): the header of the answer, or a part of the log.                 *)
LEMMA ProcMoves ==
  ASSUME NEW t \in Syncers, NEW o \in Ports,
         SyncInv, PortsFit(t), ReadersFit(t), registered[o],
         Quiet \/ Active \/ Torn, Proc(o)
  PROVE  Moves /\ StoreStep
<1>1. o = pcio /\ pcio # 0 /\ Pos = "proc"
  BY OnlyReader DEF Proc
<1>2. UNCHANGED <<pcio, port, req, chan, parsing>>
  BY DEF Proc, readElse, portVars, linkVars, parseVars
<1>3. ~Quiet /\ ~Settled /\ ~Asked /\ ~Opening /\ ~Ending /\ ~Torn
  BY <1>1 DEF Quiet, Settled, Asked, Opening, Ending, Torn
<1>4. ASSUME Answered PROVE Active' /\ dwName' = dwName /\ disk' = disk
  <2>1. PICK c \in 1 .. End(dwName) : rbuf[o] = Pieces(dwName, 0, c) /\ Rest(dwName, c)
    BY <1>1, <1>4 DEF Answered
  <2>2. c \in Nat \ {0}
    BY DownloadTypes
  <2>3. /\ HasHeader(rbuf[o]) /\ HeaderIn(rbuf[o]) = {1}
        /\ rbuf[o][1][1] = dwName
    <3>1. dwName \in Sn
      BY DownloadTypes
    <3>2. /\ HasHeader(Pieces(dwName, 0, c)) /\ HeaderIn(Pieces(dwName, 0, c)) = {1}
          /\ Pieces(dwName, 0, c)[1] = <<dwName, 0>>
      BY <2>2, <3>1, HeaderFirst
    <3> QED
      BY <2>1, <3>2
  <2>4. /\ ProcHeader(LogSize[dwName])
        /\ ReadGoto(o, IF flag' = 1 THEN "read" ELSE "init")
    BY <2>3 DEF Proc
  <2>5. /\ total_recv' = 0 /\ file_size' = LogSize[dwName]
        /\ flag' = IF LogSize[dwName] = 0 THEN 1 ELSE 2
        /\ UNCHANGED <<dwName, hfile, lastFile, disk>>
    BY <2>4 DEF ProcHeader
  <2>6. Missing'
    BY <1>4, <2>5 DEF Answered, Missing, AllWhole, Exists, Complete, Content
  <2>7. CASE LogSize[dwName] = 0
    <3>1. flag' = 1 /\ rpc' = [rpc EXCEPT ![o] = "read"]
      BY <2>4, <2>5, <2>7 DEF ReadGoto
    <3>2. Pos' = "read"
      BY <1>1, <1>2, <3>1, PosNext, DownloadTypes
    <3>3. c = 1 /\ End(dwName) = 1
      BY <2>7 DEF End
    <3>4. chan = <<>>
      BY <2>1, <3>3, NoPieces, DownloadTypes DEF Rest
    <3>5. Quiet'
      BY <1>2, <1>4, <2>6, <3>2, <3>4 DEF Quiet, Answered, Missing
    <3>6. Settled'
      BY <2>5, <2>7, <3>1, <3>5 DEF Settled
    <3> QED
      BY <2>5, <3>6 DEF Active, InWork
  <2>8. CASE LogSize[dwName] # 0
    <3>1. flag' = 2 /\ rpc' = [rpc EXCEPT ![o] = "init"]
      BY <2>4, <2>5, <2>8 DEF ReadGoto
    <3>2. Pos' = "init"
      BY <1>1, <1>2, <3>1, PosNext, DownloadTypes
    <3>3. \E d \in 1 .. End(dwName') : Rest(dwName, d)'
      BY <1>2, <2>1, <2>5 DEF Rest
    <3>4. file_size' > 0
      BY <2>5, <2>8, DownloadTypes
    <3>5. Opening'
      BY <1>2, <1>4, <2>5, <2>6, <3>1, <3>2, <3>3, <3>4 DEF Opening, Answered
    <3> QED
      BY <2>5, <3>5 DEF Active
  <2> QED
    BY <2>7, <2>8
<1>5. ASSUME Writing PROVE Writing' /\ dwName' = dwName /\ pcio # 0 /\ StoreStep
  <2>1. PICK b, c \in 1 .. End(dwName) : b <= c /\ Reached(b, c)
    BY <1>5 DEF Writing
  <2>2. /\ rbuf[o] = Pieces(dwName, b, c) /\ Rest(dwName, c)
        /\ Held(b) /\ Tally(0)
    BY <1>1, <2>1 DEF Reached
  <2>3. b \in Nat \ {0} /\ c \in Nat \ {0} /\ dwName \in Sn
    BY DownloadTypes
  <2>4. ~HasHeader(rbuf[o])
    BY <2>2, <2>3, NoHeader
  <2>5. rbuf[o] \in Seq(Item) /\ Len(rbuf[o]) = c - b
    BY <2>1, <2>2, <2>3, PiecesAre
  <2>6. CASE hfile = 0
    <3>1. /\ rpc' = [rpc EXCEPT ![o] = "read"]
          /\ UNCHANGED allRecv
      BY <2>4, <2>6 DEF Proc, ReadGoto, Writable
    <3>2. Pos' = "read"
      BY <1>1, <1>2, <3>1, PosNext, DownloadTypes
    <3>3. UNCHANGED <<flag, dwName, hfile, lastFile, file_size, total_recv, disk>>
      BY <3>1 DEF allRecv, recvVars
    <3>4. ~Exists(dwName)
      BY <1>5, <2>2, <2>6 DEF Writing, Held
    <3>5. Held(c)' /\ Tally(0)' /\ Rest(dwName, c)'
      BY <1>2, <2>2, <2>6, <3>3, <3>4 DEF Held, Tally, Rest, Exists
    <3>6. Reached(c, c)'
      BY <3>2, <3>5 DEF Reached
    <3>7. \E x, y \in 1 .. End(dwName') : x <= y /\ Reached(x, y)'
      BY <2>3, <3>3, <3>6
    <3>8. WholeBut(dwName)'
      BY <1>5, <3>3 DEF Writing, WholeBut, Exists, Complete
    <3>9. Writing'
      BY <1>2, <1>5, <3>3, <3>7, <3>8 DEF Writing
    <3> QED
      BY <1>1, <3>3, <3>9 DEF StoreStep
  <2>7. CASE hfile # 0
    <3>1. Writable /\ hfile = dwName
      BY <1>5, <2>2, <2>7 DEF Writing, Writable, Held
    <3>2. PICK k \in 0 .. Len(rbuf[o]) :
            /\ ProcContent(SubSeq(rbuf[o], 1, k))
            /\ rpc' = [rpc EXCEPT ![o] = IF k = Len(rbuf[o]) THEN "count" ELSE "short"]
            /\ rbuf' = [rbuf EXCEPT ![o] = SubSeq(rbuf[o], 1, k)]
      BY <1>1, <2>4, <3>1 DEF Proc, ReadGoto
    <3> DEFINE part == SubSeq(rbuf[o], 1, k)
               old  == disk[dwName]
    <3>3. k \in Nat /\ k <= c - b
      BY <2>5
    <3>4. part \in Seq(Item) /\ Len(part) = k
      BY <2>5, <3>3
    <3>5. old \in Seq(Item) /\ Exists(dwName)
      BY <2>7, <3>1, DownloadTypes
    <3>6. Pos' \in {"count", "short"} /\ rbuf'[pcio'] = part
      <4>1. rbuf'[o] = part
        BY <3>2, DownloadTypes
      <4>2. CASE k = Len(rbuf[o])
        BY <1>1, <1>2, <3>2, <4>1, <4>2, PosNext, DownloadTypes
      <4>3. CASE k # Len(rbuf[o])
        BY <1>1, <1>2, <3>2, <4>1, <4>3, PosNext, DownloadTypes
      <4> QED
        BY <4>2, <4>3
    <3>7. /\ disk' = [disk EXCEPT ![dwName] = old \o part]
          /\ UNCHANGED <<flag, dwName, hfile, lastFile, file_size, total_recv>>
      BY <3>1, <3>2 DEF ProcContent, recvVars
    <3>8. k = c - b => part = Pieces(dwName, b, c)
      BY <2>1, <2>2, <2>3, <2>5, PiecesSplit
    <3> HIDE DEF part, old
    <3>9. /\ old \o part \in Seq(Item)
          /\ Len(old \o part) = Len(old) + k /\ Len(old) \in Nat
      BY <3>4, <3>5
    <3>10. old \o part = Pieces(dwName, 1, c) \/ Len(old \o part) < c - 1
      <4>1. CASE Len(old) < b - 1
        BY <2>3, <3>3, <3>9, <4>1
      <4>2. CASE old = Pieces(dwName, 1, b)
        <5>1. /\ 1 \in Nat /\ b \in Nat /\ c \in Nat
              /\ 1 <= b /\ b <= c
          BY <2>1, <2>3
        <5>2. Len(Pieces(dwName, 1, b)) = b - 1
          BY <2>3, <5>1, PiecesAre
        <5>3. Pieces(dwName, 1, b) \o Pieces(dwName, b, c) = Pieces(dwName, 1, c)
          BY <2>3, <5>1, PiecesJoin
        <5>4. CASE k = c - b
          BY <3>8, <4>2, <5>3, <5>4
        <5>5. CASE k # c - b
          BY <3>3, <3>9, <4>2, <5>1, <5>2, <5>5
        <5> QED
          BY <5>4, <5>5
      <4> QED
        BY <2>2, <2>7, <4>1, <4>2 DEF Held, old
    <3>11. disk'[dwName] = old \o part /\ \A g \in Sn : g # dwName => disk'[g] = disk[g]
      BY <2>3, <3>7, DownloadTypes
    <3>12. Held(c)' /\ Rest(dwName, c)'
      BY <1>2, <2>2, <3>1, <3>7, <3>10, <3>11 DEF Held, Rest
    <3>13. total_recv + k = Len(old) + k
      <4>1. total_recv + 0 = Len(old) /\ total_recv \in Nat
        BY <2>2, <2>7, DownloadTypes DEF Tally, old
      <4> QED
        BY <3>3, <3>9, <4>1
    <3>14. Tally(Len(rbuf[pcio]))'
      BY <2>7, <3>4, <3>6, <3>7, <3>9, <3>11, <3>13 DEF Tally
    <3>15. Reached(c, c)'
      BY <2>7, <3>6, <3>7, <3>12, <3>14 DEF Reached
    <3>16. \E x, y \in 1 .. End(dwName') : x <= y /\ Reached(x, y)'
      BY <2>3, <3>7, <3>15
    <3>17. WholeBut(dwName)'
      BY <1>5, <3>7, <3>11 DEF Writing, WholeBut, Exists, Complete
    <3>18. Writing'
      BY <1>2, <1>5, <3>7, <3>16, <3>17 DEF Writing
    <3>19. ~Complete(dwName)
      BY <1>1, <1>5, NotYetWhole
    <3>20. StoreStep
      BY <1>5, <2>3, <3>5, <3>7, <3>9, <3>19 DEF StoreStep, Writing
    <3> QED
      BY <1>1, <3>7, <3>18, <3>20
  <2> QED
    BY <2>6, <2>7
<1> QED
  BY <1>1, <1>3, <1>4, <1>5 DEF Moves, Active, InWork, StoreStep

(* InitFile and the end of a WriteFile.                                    *)
LEMMA ProcFileMoves ==
  ASSUME NEW t \in Syncers, NEW o \in Ports,
         SyncInv, PortsFit(t), ReadersFit(t), ParsesWhole,
         Quiet \/ Active \/ Torn, ProcFile(o)
  PROVE  Moves /\ StoreStep
<1>1. o = pcio /\ pcio # 0 /\ Pos = rpc[o]
  BY OnlyReader DEF ProcFile
<1>2. UNCHANGED <<pcio, port, req, chan, parsing>>
  BY DEF ProcFile, readElse, portVars, linkVars, parseVars
<1>3. CASE rpc[o] = "init"
  <2>1. /\ hfile' = 0 /\ lastFile' = dwName
        /\ UNCHANGED <<flag, dwName, file_size, total_recv, disk>>
        /\ rpc' = [rpc EXCEPT ![o] = "create"]
    BY <1>3 DEF ProcFile, InitFileName, ReadGoto
  <2>2. Pos' = "create"
    BY <1>1, <1>2, <2>1, PosNext, DownloadTypes
  <2>3. ~Quiet /\ ~Settled /\ ~Asked /\ ~Answered /\ ~Writing /\ ~Ending /\ ~Torn
    BY <1>1, <1>3
    DEF Quiet, Settled, Asked, Answered, Writing, Reached, Ending, Torn
  <2>4. ASSUME Opening PROVE Opening'
    <3>1. Missing'
      BY <2>1, <2>4 DEF Opening, Missing, AllWhole, Exists, Complete
    <3> QED
      BY <1>2, <2>1, <2>2, <2>4, <3>1 DEF Opening, Rest
  <2> QED
    BY <1>1, <2>1, <2>3, <2>4 DEF Moves, Active, StoreStep
<1>4. CASE rpc[o] = "create"
  <2>1. InitFileCreate /\ rpc' = [rpc EXCEPT ![o] = "read"]
    BY <1>4 DEF ProcFile, ReadGoto
  <2>2. Pos' = "read"
    BY <1>1, <1>2, <2>1, PosNext, DownloadTypes
  <2>3. ~Quiet /\ ~Settled /\ ~Asked /\ ~Answered /\ ~Writing /\ ~Ending /\ ~Torn
    BY <1>1, <1>4
    DEF Quiet, Settled, Asked, Answered, Writing, Reached, Ending, Torn
  <2>4. Opening
    BY <2>3 DEF Active, InWork
  <2>5. /\ lastFile = dwName /\ dwName # 0 /\ hfile = 0 /\ ~Exists(dwName)
        /\ total_recv = 0 /\ 0 < file_size
    BY <1>1, <1>4, <2>4 DEF Opening, Missing
  <2>6. UNCHANGED <<flag, dwName, lastFile, file_size, total_recv>>
    BY <2>1 DEF InitFileCreate
  <2>7. WholeBut(dwName)
    BY <2>4 DEF Opening, Missing, AllWhole, WholeBut
  <2>8. PICK c \in 1 .. End(dwName) : Rest(dwName, c)
    BY <2>4 DEF Opening
  <2>9. c \in Nat \ {0} /\ Pieces(dwName, c, c) = <<>>
    BY NoPieces, DownloadTypes
  <2>10. Rest(dwName, c)'
    BY <1>2, <2>6, <2>8 DEF Rest
  <2>11. ASSUME Held(c)', Tally(0)', WholeBut(dwName)' PROVE Writing'
    <3>1. Reached(c, c)'
      BY <2>2, <2>10, <2>11 DEF Reached
    <3>2. \E x, y \in 1 .. End(dwName') : x <= y /\ Reached(x, y)'
      BY <2>6, <2>9, <3>1
    <3> QED
      BY <1>2, <2>4, <2>5, <2>6, <2>11, <3>2 DEF Writing, Opening
  <2>12. CASE UNCHANGED <<disk, hfile>>
    <3>1. Held(c)' /\ Tally(0)' /\ WholeBut(dwName)'
      BY <2>5, <2>6, <2>7, <2>12 DEF Held, Tally, WholeBut, Exists, Complete
    <3> QED
      BY <1>1, <2>3, <2>6, <2>11, <2>12, <3>1 DEF Moves, Active, InWork, StoreStep
  <2>13. CASE disk' = [disk EXCEPT ![dwName] = <<>>] /\ hfile' = dwName
    <3>1. disk'[dwName] = <<>> /\ \A g \in Sn : g # dwName => disk'[g] = disk[g]
      BY <2>13, DownloadTypes
    <3>2. Len(<<>>) = 0 /\ (c = 1 => Pieces(dwName, 1, c) = <<>>)
      BY <2>9
    <3>3. disk'[dwName] = Pieces(dwName, 1, c) \/ Len(disk'[dwName]) < c - 1
      BY <2>9, <3>1, <3>2
    <3>4. Held(c)'
      BY <2>6, <2>13, <3>3 DEF Held
    <3>5. Tally(0)' /\ WholeBut(dwName)'
      BY <2>5, <2>6, <2>7, <2>13, <3>1, <3>2 DEF Tally, WholeBut, Exists, Complete
    <3>6. Content(dwName) # NoFile /\ Content(dwName) # <<>>
      <4>1. Len(Content(dwName)) = LogSize[dwName] /\ LogSize[dwName] > 0
        BY <2>4, ShortLog, DownloadTypes DEF Opening
      <4>2. Content(dwName) # <<>>
        BY <3>2, <4>1
      <4> QED
        BY <4>2, ContentIsSeq, ReceiverAssumption, DownloadTypes
    <3>7. ~Complete(dwName) /\ <<>> \in Seq(Item)
      BY <2>5, <3>6 DEF Exists, Complete
    <3>8. StoreStep
      BY <2>7, <2>13, <3>6, <3>7, DownloadTypes DEF StoreStep
    <3> QED
      BY <1>1, <2>3, <2>6, <2>11, <3>4, <3>5, <3>8 DEF Moves, Active, InWork
  <2> QED
    BY <2>1, <2>5, <2>12, <2>13 DEF InitFileCreate
<1>5. CASE rpc[o] \in {"count", "short"}
  <2>1. /\ ProcCount(Len(rbuf[o]))
        /\ ReadGoto(o, IF total_recv' >= file_size THEN "fin" ELSE "read")
    BY <1>5 DEF ProcFile
  <2>2. /\ total_recv' = total_recv + Len(rbuf[o])
        /\ hfile' = IF total_recv + Len(rbuf[o]) >= file_size THEN 0 ELSE hfile
        /\ UNCHANGED <<flag, dwName, lastFile, file_size, disk>>
    BY <2>1 DEF ProcCount
  <2>3. ~Quiet /\ ~Settled /\ ~Asked /\ ~Answered /\ ~Opening /\ ~Ending /\ ~Torn
    BY <1>1, <1>5
    DEF Quiet, Settled, Asked, Answered, Opening, Ending, Torn
  <2>4. Writing
    BY <2>3 DEF Active, InWork
  <2>5. PICK c \in 1 .. End(dwName) :
          Held(c) /\ Rest(dwName, c) /\ hfile # 0 /\ Tally(Len(rbuf[pcio]))
    BY <1>1, <1>5, <2>4 DEF Writing, Reached
  <2>6. c \in Nat \ {0} /\ c <= LogSize[dwName] + 1 /\ dwName \in Sn
    BY DownloadTypes DEF End
  <2>7. /\ hfile = dwName /\ disk[dwName] \in Seq(Item)
        /\ Len(disk[dwName]) \in Nat /\ total_recv' = Len(disk[dwName])
    BY <1>1, <2>2, <2>5, DownloadTypes DEF Held, Tally
  <2>8. CASE total_recv' >= file_size
    <3>1. hfile' = 0 /\ rpc' = [rpc EXCEPT ![o] = "fin"]
      BY <2>1, <2>2, <2>8 DEF ReadGoto
    <3>2. Pos' = "fin"
      BY <1>1, <1>2, <3>1, PosNext, DownloadTypes
    <3>3. Len(disk[dwName]) >= LogSize[dwName]
      BY <2>4, <2>7, <2>8 DEF Writing
    <3>4. disk[dwName] = Pieces(dwName, 1, c)
      BY <2>5, <2>6, <2>7, <3>3, DownloadTypes DEF Held
    <3>5. Len(disk[dwName]) = c - 1
      <4>1. 1 \in Nat /\ c \in Nat /\ 1 <= c
        BY <2>6
      <4>2. Len(Pieces(dwName, 1, c)) = c - 1
        BY <2>6, <4>1, PiecesAre
      <4> QED
        BY <3>4, <4>2
    <3>6. c = End(dwName)
      BY <2>6, <3>3, <3>5, DownloadTypes DEF End
    <3>7. Complete(dwName)
      BY <2>6, <3>4, <3>6, ContentPieces DEF Complete
    <3>8. chan = <<>>
      BY <2>5, <2>6, <3>6, NoPieces DEF Rest
    <3>9. AllWhole'
      BY <2>2, <2>4, <3>7 DEF Writing, WholeBut, AllWhole, Exists, Complete
    <3>10. Complete(dwName)'
      BY <2>2, <3>7 DEF Complete
    <3>11. Ending'
      BY <1>2, <2>2, <2>4, <3>1, <3>2, <3>8, <3>9, <3>10 DEF Writing, Ending
    <3> QED
      BY <1>1, <2>2, <2>3, <3>11 DEF Moves, Active, InWork, StoreStep
  <2>9. CASE ~(total_recv' >= file_size)
    <3>1. hfile' = hfile /\ rpc' = [rpc EXCEPT ![o] = "read"]
      BY <2>1, <2>2, <2>9 DEF ReadGoto
    <3>2. Pos' = "read"
      BY <1>1, <1>2, <3>1, PosNext, DownloadTypes
    <3>3. total_recv' < file_size'
      BY <2>2, <2>4, <2>7, <2>9, DownloadTypes DEF Writing
    <3>4. Held(c)' /\ Rest(dwName, c)' /\ Tally(0)'
      BY <1>2, <2>2, <2>5, <2>7, <3>1 DEF Held, Rest, Tally, Exists
    <3>5. Reached(c, c)'
      BY <3>2, <3>4 DEF Reached
    <3>6. \E x, y \in 1 .. End(dwName') : x <= y /\ Reached(x, y)'
      BY <2>2, <2>6, <3>5
    <3>7. WholeBut(dwName)'
      BY <2>2, <2>4 DEF Writing, WholeBut, Exists, Complete
    <3>8. Writing'
      BY <1>2, <2>2, <2>4, <3>3, <3>6, <3>7 DEF Writing
    <3> QED
      BY <1>1, <2>2, <2>3, <3>8 DEF Moves, Active, InWork, StoreStep
  <2> QED
    BY <2>8, <2>9
<1>6. CASE rpc[o] = "fin"
  <2>1. /\ flag' = 3 /\ rpc' = [rpc EXCEPT ![o] = "read"]
        /\ UNCHANGED <<dwName, hfile, lastFile, file_size, total_recv, disk>>
    BY <1>6 DEF ProcFile, ProcFinished, ReadGoto
  <2>2. Pos' = "read"
    BY <1>1, <1>2, <2>1, PosNext, DownloadTypes
  <2>3. ~Quiet /\ ~Settled /\ ~Asked /\ ~Answered /\ ~Opening /\ ~Writing /\ ~Torn
    BY <1>1, <1>6
    DEF Quiet, Settled, Asked, Answered, Opening, Writing, Reached, Torn
  <2>4. ASSUME Ending PROVE Settled'
    <3>1. AllWhole' /\ Complete(dwName)'
      BY <2>1, <2>4 DEF Ending, AllWhole, Exists, Complete
    <3> QED
      BY <1>2, <2>1, <2>2, <2>4, <3>1 DEF Ending, Settled, Quiet
  <2> QED
    BY <1>1, <2>1, <2>3, <2>4 DEF Moves, Active, InWork, StoreStep
<1> QED
  BY <1>3, <1>4, <1>5, <1>6 DEF ProcFile

-----------------------------------------------------------------------------
(* The invariant under the steps of the other threads and of the watch.    *)

(* Wherever doSync is, the download is in one of the phases.               *)
LEMMA Phases ==
  ASSUME NEW t \in Syncers, SyncInv, Position(t)
  PROVE  Quiet \/ Active \/ Torn
<1>1. pc[t] \in SyncPCs
  BY DEF SyncInv, SyncTypeOK, ThreadTypeOK
<1> QED
  BY <1>1 DEF Position, SyncPCs, Between, Active, InWork

(* flag tells how far a download has got.                                  *)
LEMMA Flags ==
  /\ Settled => flag \in {1, 3} /\ Quiet
  /\ Writing \/ Ending \/ Opening \/ Torn => flag = 2
  /\ Asked \/ Answered => flag = 1
  /\ Active => flag # 0
BY DEF Settled, Writing, Ending, Opening, Torn, Asked, Answered, Active, InWork

(* What a step of another thread leaves of each phase.                     *)
LEMMA MovesOn ==
  ASSUME Moves
  PROVE  /\ Between => Between'
         /\ InWork => InWork'
         /\ Active => Active'
         /\ Settled => Settled' /\ flag' = flag
         /\ Quiet => Quiet' /\ flag' = flag /\ disk' = disk
         /\ Torn => Torn'
         /\ Writing /\ pcio = 0 => Writing' /\ pcio' = 0
         /\ dwName' = dwName
<1>1. Between => Between'
  BY DEF Moves, Between
<1>2. InWork => InWork'
  BY DEF Moves, InWork
<1>3. Active => Active'
  BY <1>2 DEF Moves, Active, InWork
<1>4. Settled => Settled' /\ flag' = flag
  BY Flags DEF Moves
<1> QED
  BY <1>1, <1>2, <1>3, <1>4 DEF Moves

(* A phase may move on while doSync stands still.                          *)
LEMMA MovesKeepPosition ==
  ASSUME NEW t \in Syncers, Position(t), Moves, pc' = pc, i' = i
  PROVE  Position(t)'
<1>1. pc[t] = "leave" => (flag = 0 => flag' = 0)
  BY MovesOn, Flags DEF Position, Between
<1>2. Quiet /\ ~Exists(i[t]) => ~Exists(i[t])'
  BY MovesOn DEF Exists
<1> QED
  BY <1>1, <1>2, MovesOn DEF Position

(* Whatever a step does to the folder, the logs that are complete stay.    *)
LEMMA StoredStays ==
  ASSUME SyncInv, StoreStep, NEW n \in Sn, Complete(n)
  PROVE  Complete(n)'
<1>1. CASE disk' = disk
  BY <1>1 DEF Complete
<1>2. ASSUME NEW f \in Sn, NEW s, ~Complete(f), disk' = [disk EXCEPT ![f] = s]
      PROVE  Complete(n)'
  BY <1>2, DownloadTypes DEF Complete
<1> QED
  BY <1>1, <1>2 DEF StoreStep

(* A log that is being parsed is never written to again.                   *)
LEMMA ParsesStay ==
  ASSUME SyncInv, StoreStep, ParsesWhole,
         \A n \in parsing' : n \in parsing \/ (n \in Sn /\ Complete(n))
  PROVE  ParsesWhole'
<1>1. parsing \subseteq Sn
  BY DEF SyncInv, SyncTypeOK, ParseTypeOK
<1>2. ASSUME NEW n \in parsing' PROVE Complete(n)'
  <2>1. n \in Sn /\ Complete(n)
    BY <1>1, <1>2 DEF ParsesWhole
  <2> QED
    BY <2>1, StoredStays
<1> QED
  BY <1>2 DEF ParsesWhole

(* A step of a read thread, of the watch, or of StopThread at the port.    *)
Line ==
  \/ \E o \in Ports : Reader(o)
  \/ DevReply
  \/ \E k \in Stoppers : CloseCom(k) \/ FreePort(k)

(* Read thread, watch and StopThread move a phase on, none back.           *)
LEMMA LineMoves ==
  ASSUME NEW t \in Syncers, GraceSleep, SyncInv, PortsFit(t), ReadersFit(t),
         Position(t), ParsesWhole, Line
  PROVE  Moves /\ StoreStep /\ UNCHANGED <<pc, i, parsing, parsed>>
<1>1. Quiet \/ Active \/ Torn
  BY Phases
<1>2. ASSUME NEW o \in Ports, Reader(o)
      PROVE  Moves /\ StoreStep /\ UNCHANGED <<pc, i, parsing, parsed>>
  <2>1. UNCHANGED <<pc, i, parsing, parsed>>
    BY <1>2 DEF Reader, ReadCom, ReadEnd, Proc, ProcFile, readElse, syncVars, parseVars
  <2>2. CASE ReadCom(o)
    BY <2>1, <2>2, ReadComMoves DEF StoreStep
  <2>3. CASE ReadEnd(o)
    BY <2>1, <2>3, ReadEndMoves DEF StoreStep
  <2>4. CASE Proc(o)
    <3>1. o = pcio /\ pcio # 0 /\ Pos = "proc"
      BY <2>4, OnlyReader DEF Proc
    <3>2. pc[t] # "announce"
      BY <3>1 DEF Position, Between, Quiet
    <3>3. registered[o]
      BY <3>1, <3>2 DEF ReadersFit
    <3> QED
      BY <1>1, <2>1, <2>4, <3>3, ProcMoves
  <2>5. CASE ProcFile(o)
    BY <1>1, <2>1, <2>5, ProcFileMoves
  <2> QED
    BY <1>2, <2>2, <2>3, <2>4, <2>5 DEF Reader
<1>3. CASE DevReply
  BY <1>3, DevReplyMoves
  DEF StoreStep, DevReply, readElse, syncVars, parseVars
<1>4. ASSUME NEW k \in Stoppers, CloseCom(k)
      PROVE  Moves /\ StoreStep /\ UNCHANGED <<pc, i, parsing, parsed>>
  BY <1>4, CloseMoves DEF StoreStep, CloseCom, stopElse, syncVars, parseVars
<1>5. ASSUME NEW k \in Stoppers, FreePort(k)
      PROVE  Moves /\ StoreStep /\ UNCHANGED <<pc, i, parsing, parsed>>
  BY <1>5, FreeMoves DEF StoreStep, FreePort, stopElse, syncVars, parseVars
<1> QED
  BY <1>2, <1>3, <1>4, <1>5 DEF Line

(* The same steps leave at most one read thread with work to do.           *)
LEMMA LineReaders ==
  ASSUME NEW t \in Syncers, GraceSleep, SyncInv, PortsFit(t), ReadersFit(t), Line
  PROVE  ReadersFit(t)'
<1> USE DEF ReadersFit, PortOpen, readElse, stopElse, portVars, syncVars,
            readVars, linkVars, ReadGoto
<1>1. ASSUME NEW o \in Ports, Reader(o) PROVE ReadersFit(t)'
  <2>1. UNCHANGED <<pcio, port, registered, pc, req>>
    BY <1>1 DEF Reader, ReadCom, ReadEnd, Proc, ProcFile
  <2>2. CASE ReadEnd(o)
    BY <2>1, <2>2, DownloadTypes DEF ReadEnd
  <2>3. CASE ReadCom(o) \/ Proc(o) \/ ProcFile(o)
    <3>1. o = pcio
      BY <2>3, OnlyReader DEF ReadCom, Proc, ProcFile
    <3>2. \A q \in Ports : q # o => rpc'[q] = rpc[q]
      BY <2>3, DownloadTypes DEF ReadCom, Proc, ProcFile
    <3>3. ~PortOpen => chan' = chan
      BY <2>3, <3>1 DEF ReadCom, Proc, ProcFile, Ports
    <3> QED
      BY <2>1, <3>1, <3>2, <3>3
  <2> QED
    BY <1>1, <2>2, <2>3 DEF Reader
<1>2. CASE DevReply
  BY <1>2 DEF DevReply
<1>3. ASSUME NEW k \in Stoppers, CloseCom(k) PROVE ReadersFit(t)'
  <2>1. req' = <<>> /\ chan' = <<>>
    BY <1>3, CloseMoves
  <2>2. UNCHANGED <<pcio, registered, pc, rpc>>
    BY <1>3 DEF CloseCom
  <2> QED
    BY <2>1, <2>2
<1>4. ASSUME NEW k \in Stoppers, FreePort(k) PROVE ReadersFit(t)'
  <2>1. st[k] = "free" /\ rpc[pcio] \in {"read", "none"}
    BY <1>4 DEF FreePort
  <2>2. ~PortOpen
    BY <2>1 DEF PortsFit
  <2>3. pcio' = 0 /\ UNCHANGED <<registered, pc, rpc, req, chan>>
    BY <1>4 DEF FreePort
  <2> QED
    BY <2>1, <2>2, <2>3
<1> QED
  BY <1>1, <1>2, <1>3, <1>4 DEF Line

-----------------------------------------------------------------------------
(* The steps of doSync.                                                    *)

World == <<allRecv, linkVars, readVars, pcio, port>>

(* A step that touches neither file nor wire moves nothing.                *)
LEMMA WorldMoves == UNCHANGED World => Moves /\ StoreStep
<1> SUFFICES ASSUME UNCHANGED World PROVE Moves /\ StoreStep
  OBVIOUS
<1>1. Pos' = Pos /\ PortOpen' = PortOpen
  BY DEF World, readVars, Pos, PortOpen
<1>2. Moves
  BY <1>1, StillMoves DEF World, readVars
<1> QED
  BY <1>2 DEF StoreStep, World, allRecv

(* With the watch's answers in time, no request is under way where doSync  *)
(* enters main_cs.                                                         *)
LEMMA NothingDue ==
  ASSUME SyncInv, ~ReplyDue, Active
  PROVE  InWork
<1>1. ~Asked
  BY DEF ReplyDue, Asked
<1>2. ~Opening
  <2>1. ASSUME Opening PROVE FALSE
    <3>1. pcio # 0 /\ rpc[pcio] \in {"init", "create"}
      BY <2>1 DEF Opening, Pos
    <3>2. pcio \in Ports
      BY <3>1, DownloadTypes DEF Ports
    <3> QED
      BY <3>1, <3>2 DEF ReplyDue
  <2> QED
    BY <2>1
<1>3. ASSUME Answered PROVE FALSE
  <2>1. CASE Pos = "read"
    <3>1. chan = Pieces(dwName, 0, End(dwName))
      BY <1>3, <2>1 DEF Answered
    <3>2. HasHeader(chan)
      BY <3>1, HeaderFirst, DownloadTypes
    <3> QED
      BY <3>2 DEF ReplyDue, HasHeader
  <2>2. CASE Pos = "proc"
    <3>1. PICK c \in 1 .. End(dwName) : rbuf[pcio] = Pieces(dwName, 0, c)
      BY <1>3, <2>2 DEF Answered
    <3>2. c \in Nat \ {0}
      BY DownloadTypes
    <3>3. HasHeader(rbuf[pcio])
      BY <3>1, <3>2, HeaderFirst, DownloadTypes
    <3>4. pcio # 0 /\ rpc[pcio] = "proc"
      BY <2>2 DEF Pos
    <3>5. pcio \in Ports
      BY <3>4, DownloadTypes DEF Ports
    <3> QED
      BY <3>3, <3>4, <3>5 DEF ReplyDue
  <2> QED
    BY <1>3, <2>1, <2>2 DEF Answered
<1> QED
  BY <1>1, <1>2, <1>3 DEF Active

(* doSync's steps that change nothing but its own position and number.     *)
SyncAlone(t) ==
  \/ ClickSync(t) \/ SyncTest(t) \/ GetCommPort(t) \/ CopyName(t)
  \/ OpenEnter(t) \/ Announce(t) \/ Post(t) \/ LoopEnter(t) \/ TestFlag(t)
  \/ Leave(t) \/ GiveUp(t) \/ EndTest(t)

(* doSync's own steps between its calls touch neither.                     *)
LEMMA AloneStill ==
  ASSUME NEW t \in Syncers, SyncAlone(t)
  PROVE  UNCHANGED World /\ UNCHANGED parseVars
BY DEF SyncAlone, ClickSync, SyncTest, GetCommPort, CopyName, OpenEnter,
       Announce, Post, LoopEnter, TestFlag, Leave, GiveUp, EndTest, World,
       dataVars, syncElse, portVars, parseVars, allRecv, linkVars, readVars

(* Those steps leave the read threads where they are.                      *)
LEMMA AloneReaders ==
  ASSUME NEW t \in Syncers, SyncInv, ReadersFit(t), SyncAlone(t)
  PROVE  ReadersFit(t)'
<1> USE DEF ReadersFit, PortOpen
<1>1. UNCHANGED <<rpc, req, chan, pcio, port>>
  BY AloneStill DEF World, readVars, linkVars
<1>2. pc \in [Syncers -> SyncPCs] /\ registered \in [Ports -> BOOLEAN] /\ pcio \in 0 .. MaxPorts
  BY DEF SyncInv, SyncTypeOK, ThreadTypeOK, PortTypeOK
<1>3. CASE Announce(t)
  <2>1. registered' = [registered EXCEPT ![pcio] = TRUE]
    BY <1>3 DEF Announce
  <2>2. pcio # 0 => registered'[pcio]
    BY <1>2, <2>1 DEF Ports
  <2> QED
    BY <1>1, <2>2
<1>4. CASE ~Announce(t)
  <2>1. UNCHANGED registered /\ pc[t] # "announce"
    <3>1. \/ ClickSync(t) \/ SyncTest(t) \/ GetCommPort(t) \/ CopyName(t)
          \/ OpenEnter(t) \/ Post(t) \/ LoopEnter(t) \/ TestFlag(t)
          \/ Leave(t) \/ GiveUp(t) \/ EndTest(t)
      BY <1>4 DEF SyncAlone
    <3> QED
      BY <3>1 DEF ClickSync, SyncTest, GetCommPort, CopyName, OpenEnter, Post,
                  LoopEnter, TestFlag, Leave, GiveUp, EndTest, dataVars,
                  portVars
  <2> QED
    BY <1>1, <2>1
<1> QED
  BY <1>3, <1>4

(* Where doSync goes next fits flag, dwName, the file and the wire.        *)
LEMMA AlonePosition ==
  ASSUME NEW t \in Syncers, PromptDevice, SyncInv, ReadersFit(t), Position(t),
         SyncAlone(t)
  PROVE  Position(t)'
<1>1. Moves
  BY AloneStill, WorldMoves
<1>2. /\ Between => Between'
      /\ InWork => InWork'
      /\ Active => Active'
      /\ Settled => Settled'
      /\ Quiet => Quiet'
      /\ Torn => Torn'
      /\ Writing /\ pcio = 0 => Writing' /\ pcio' = 0
      /\ dwName' = dwName
  BY <1>1, MovesOn
<1>3. flag' = flag /\ disk' = disk
  BY AloneStill DEF World, allRecv, recvVars
<1>4. pc \in [Syncers -> SyncPCs] /\ i \in [Syncers -> 1 .. MaxSn]
  BY DEF SyncInv, SyncTypeOK, ThreadTypeOK
<1> USE DEF Goto
<1>5. CASE ClickSync(t) \/ SyncTest(t) \/ GetCommPort(t) \/ CopyName(t) \/ OpenEnter(t)
  <2>1. /\ pc[t] \in {"idle", "test", "name", "copy", "open"}
        /\ pc'[t] \in {"test", "name", "post", "copy", "open", "create"}
    BY <1>4, <1>5 DEF ClickSync, SyncTest, GetCommPort, CopyName, OpenEnter
  <2> QED
    BY <1>2, <2>1 DEF Position
<1>6. CASE Announce(t)
  <2>1. pc[t] = "announce" /\ pc'[t] = "post"
    BY <1>4, <1>6 DEF Announce
  <2> QED
    BY <1>2, <2>1 DEF Position
<1>7. CASE Post(t)
  <2>1. pc[t] = "post" /\ pc'[t] = "enter"
    BY <1>4, <1>7 DEF Post, dataVars
  <2> QED
    BY <1>2, <2>1 DEF Position
<1>8. CASE LoopEnter(t)
  <2>1. /\ pc[t] = "enter" /\ i' = i
        /\ pc'[t] = IF pcio = 0 THEN "end" ELSE "t0"
    BY <1>4, <1>8 DEF LoopEnter
  <2>2. ~ReplyDue
    BY <1>8 DEF LoopEnter
  <2>3. Between \/ (i[t] = dwName /\ InWork)
    BY <2>1, <2>2, NothingDue DEF Position
  <2>4. CASE pcio = 0
    <3>1. ~Ending
      BY <2>4 DEF Ending, Pos
    <3>2. Between \/ Settled \/ (Writing /\ pcio = 0)
      BY <2>3, <2>4, <3>1 DEF InWork
    <3>3. Between' \/ Settled' \/ (Writing' /\ pcio' = 0)
      BY <1>2, <3>2
    <3> QED
      BY <2>1, <2>4, <3>3 DEF Position
  <2>5. CASE pcio # 0
    <3>1. Between' \/ (i'[t] = dwName' /\ InWork')
      BY <1>2, <2>1, <2>3
    <3> QED
      BY <2>1, <2>5, <3>1 DEF Position
  <2> QED
    BY <2>4, <2>5
<1>9. CASE TestFlag(t)
  <2>1. i' = i
    BY <1>9 DEF TestFlag
  <2>2. CASE pc[t] = "t0"
    <3>1. pc'[t] = IF flag = 0 THEN "exist" ELSE "t2"
      BY <1>4, <1>9, <2>2 DEF TestFlag
    <3>2. Between \/ (i[t] = dwName /\ InWork)
      BY <2>2 DEF Position
    <3>3. CASE flag = 0
      <4>1. Between'
        BY <1>2, <3>2, <3>3, Flags DEF Active
      <4> QED
        BY <3>1, <3>3, <4>1 DEF Position
    <3>4. CASE flag # 0
      <4>1. i'[t] = dwName' /\ InWork'
        BY <1>2, <2>1, <3>2, <3>4 DEF Between
      <4> QED
        BY <3>1, <3>4, <4>1 DEF Position
    <3> QED
      BY <3>3, <3>4
  <2>3. CASE pc[t] = "t2"
    <3>1. pc'[t] = IF flag = 2 THEN "leave" ELSE "t3"
      BY <1>4, <1>9, <2>3 DEF TestFlag
    <3>2. i[t] = dwName /\ InWork /\ i[t] < MaxSn
      BY <2>3 DEF Position, SyncInv, InBounds
    <3>3. CASE flag = 2
      <4>1. i'[t] = dwName' /\ Active' /\ i'[t] < MaxSn
        BY <1>2, <2>1, <3>2 DEF Active
      <4> QED
        BY <3>1, <3>3, <4>1 DEF Position
    <3>4. CASE flag # 2
      <4>1. Settled
        BY <3>2, <3>4, Flags DEF InWork
      <4>2. i'[t] = dwName' /\ Settled'
        BY <1>2, <2>1, <3>2, <4>1
      <4> QED
        BY <3>1, <3>4, <4>2 DEF Position
    <3> QED
      BY <3>3, <3>4
  <2>4. CASE pc[t] = "t3"
    <3>1. pc'[t] = IF flag = 3 THEN "fin" ELSE "t1"
      BY <1>4, <1>9, <2>4 DEF TestFlag
    <3>2. i[t] = dwName /\ Settled
      BY <2>4 DEF Position
    <3>3. i'[t] = dwName' /\ Settled'
      BY <1>2, <2>1, <3>2
    <3>4. flag # 3 => flag = 1
      BY <3>2, Flags
    <3> QED
      BY <1>3, <3>1, <3>3, <3>4 DEF Position
  <2>5. CASE pc[t] = "t1"
    <3>1. pc'[t] = IF flag = 1 THEN "notfound" ELSE "unknown"
      BY <1>4, <1>9, <2>5 DEF TestFlag
    <3>2. i[t] = dwName /\ Settled /\ flag = 1
      BY <2>5 DEF Position
    <3>3. i'[t] = dwName' /\ Settled'
      BY <1>2, <2>1, <3>2
    <3> QED
      BY <1>3, <3>1, <3>2, <3>3 DEF Position
  <2> QED
    BY <1>9, <2>2, <2>3, <2>4, <2>5 DEF TestFlag
<1>10. CASE Leave(t)
  <2>1. /\ pc[t] = "leave" /\ i' = i
        /\ pc'[t] = IF i[t] < MaxSn THEN "enter" ELSE "end"
    BY <1>4, <1>10 DEF Leave
  <2>2. Between \/ (i[t] = dwName /\ Active)
    BY <2>1 DEF Position
  <2>3. CASE i[t] < MaxSn
    <3>1. Between' \/ (i'[t] = dwName' /\ Active')
      BY <1>2, <2>1, <2>2
    <3> QED
      BY <2>1, <2>3, <3>1 DEF Position
  <2>4. CASE ~(i[t] < MaxSn)
    <3>1. flag = 0
      BY <2>1, <2>4 DEF Position
    <3>2. Between'
      BY <1>2, <2>2, <3>1, Flags
    <3> QED
      BY <2>1, <2>4, <3>2 DEF Position
  <2> QED
    BY <2>3, <2>4
<1>11. CASE GiveUp(t)
  <2>1. pc[t] \in {"notfound", "unknown"} /\ pc'[t] = "end"
    BY <1>4, <1>11 DEF GiveUp
  <2>2. Settled'
    BY <1>2, <2>1 DEF Position
  <2> QED
    BY <2>1, <2>2 DEF Position
<1>12. CASE EndTest(t)
  <2>1. pc[t] = "end" /\ pc'[t] = IF flag = 2 THEN "del" ELSE "reset"
    BY <1>4, <1>12 DEF EndTest
  <2>2. Between \/ Settled \/ (Writing /\ pcio = 0)
    BY <2>1 DEF Position
  <2>3. CASE flag = 2
    <3>1. Writing' /\ pcio' = 0
      BY <1>2, <2>2, <2>3, Flags DEF Between
    <3> QED
      BY <2>1, <2>3, <3>1 DEF Position
  <2>4. CASE flag # 2
    <3>1. Quiet
      BY <2>2, <2>4, Flags DEF Between
    <3>2. Quiet'
      BY <1>2, <3>1
    <3> QED
      BY <2>1, <2>4, <3>2 DEF Position
  <2> QED
    BY <2>3, <2>4
<1> QED
  BY <1>5, <1>6, <1>7, <1>8, <1>9, <1>10, <1>11, <1>12 DEF SyncAlone

(* doSync's steps at the port and at the receiver.                         *)
DownloadStep(t) ==
  /\ StoreStep
  /\ Position(t)' /\ ReadersFit(t)' /\ ParsesWhole'

(* A new port object starts with an idle read thread.                      *)
LEMMA CreateStep ==
  ASSUME NEW t \in Syncers, SyncInv, PortsFit(t), ReadersFit(t), Position(t),
         ParsesWhole, Create(t)
  PROVE  DownloadStep(t)
<1>1. pc[t] = "create" /\ pcio = 0
  BY DEF Create, PortsFit
<1>2. pc'[t] = "announce"
  BY DEF Create, Goto, SyncInv, SyncTypeOK, ThreadTypeOK
<1>3. PICK o \in Ports : pcio' = o /\ rpc[o] = "none" /\ rpc' = [rpc EXCEPT ![o] = "read"]
  BY DEF Create, ReadGoto
<1>4. UNCHANGED <<flag, hfile, disk, req, chan, parsing>>
  BY DEF Create, linkVars, parseVars, allRecv, recvVars
<1>5. Between /\ req = <<>> /\ chan = <<>>
  BY <1>1 DEF Position, Between, Quiet
<1>6. Pos' = "read"
  BY <1>3, DownloadTypes DEF Pos
<1>7. Between'
  BY <1>4, <1>5, <1>6 DEF Between, Quiet, AllWhole, Exists, Complete
<1>8. Position(t)'
  BY <1>2, <1>7 DEF Position
<1>9. \A q \in Ports : rpc[q] \in {"read", "none"}
  BY <1>1, <1>3 DEF ReadersFit, Ports
<1>10. ReadersFit(t)'
  BY <1>2, <1>3, <1>4, <1>5, <1>9, DownloadTypes DEF ReadersFit
<1>11. StoreStep /\ ParsesWhole'
  BY <1>4, ParsesStay DEF StoreStep
<1> QED
  BY <1>8, <1>10, <1>11 DEF DownloadStep

(* checkFileExist skips a number whose log is stored, and no other.        *)
LEMMA CheckStep ==
  ASSUME NEW t \in Syncers, SyncInv, ReadersFit(t), Position(t), ParsesWhole,
         CheckFileExist(t)
  PROVE  DownloadStep(t)
<1>1. pc[t] = "exist" /\ Between /\ i[t] < MaxSn
  BY DEF CheckFileExist, Position, SyncInv, InBounds
<1>2. UNCHANGED <<hfile, disk, req, chan, parsing, pcio, port, rpc, registered>>
  BY DEF CheckFileExist, syncElse, portVars, linkVars, readVars, parseVars
<1>3. \/ /\ Exists(i[t]) /\ flag' = flag /\ pc'[t] = "leave"
      \/ /\ ~Exists(i[t]) /\ flag' = 1 /\ i' = i /\ pc'[t] = "ask"
  BY DEF CheckFileExist, Goto, SyncInv, SyncTypeOK, ThreadTypeOK
<1>4. Quiet'
  BY <1>1, <1>2 DEF Between, Quiet, AllWhole, Exists, Complete, Pos
<1>5. Position(t)'
  BY <1>1, <1>2, <1>3, <1>4 DEF Position, Between, Exists
<1>6. ReadersFit(t)'
  BY <1>1, <1>2 DEF ReadersFit, PortOpen
<1>7. StoreStep /\ ParsesWhole'
  BY <1>2, ParsesStay DEF StoreStep
<1> QED
  BY <1>5, <1>6, <1>7 DEF DownloadStep

(* WriteCom asks for a number that is not in the folder.                   *)
LEMMA AskStep ==
  ASSUME NEW t \in Syncers, SyncInv, ReadersFit(t), Position(t), ParsesWhole,
         Ask(t)
  PROVE  DownloadStep(t)
<1>1. pc[t] = "ask" /\ flag = 1 /\ Quiet /\ ~Exists(i[t]) /\ i[t] < MaxSn
  BY DEF Ask, Position
<1>2. UNCHANGED <<i, flag, hfile, disk, req, chan, parsing, pcio, port, rpc, registered>>
  BY DEF Ask, syncElse, portVars, linkVars, readVars, parseVars
<1>3. dwName' = i[t] /\ pc'[t] = "write"
  BY DEF Ask, Goto, SyncInv, SyncTypeOK, ThreadTypeOK
<1>4. Quiet' /\ ~Exists(i[t])'
  BY <1>1, <1>2 DEF Quiet, AllWhole, Exists, Complete, Pos
<1>5. Position(t)'
  BY <1>1, <1>2, <1>3, <1>4 DEF Position
<1>6. ReadersFit(t)'
  BY <1>1, <1>2 DEF ReadersFit, PortOpen
<1>7. StoreStep /\ ParsesWhole'
  BY <1>2, ParsesStay DEF StoreStep
<1> QED
  BY <1>5, <1>6, <1>7 DEF DownloadStep

(* The request goes out, or, without an open port, nothing does.           *)
LEMMA WriteStep ==
  ASSUME NEW t \in Syncers, SyncInv, ReadersFit(t), Position(t), ParsesWhole,
         WriteRequest(t)
  PROVE  DownloadStep(t)
<1>1. /\ pc[t] = "write" /\ flag = 1 /\ Quiet /\ ~Exists(i[t])
      /\ i[t] < MaxSn /\ dwName = i[t]
  BY DEF WriteRequest, Position
<1>2. /\ UNCHANGED <<i, chan, parsing, pcio, port, rpc, registered>>
      /\ UNCHANGED <<flag, dwName, hfile, disk>>
  BY DEF WriteRequest, portVars, readVars, parseVars, allRecv, recvVars
<1>3. /\ pc'[t] = "leave"
      /\ req' = IF port[pcio] = "open" THEN Append(req, i[t]) ELSE req
  BY DEF WriteRequest, Goto, SyncInv, SyncTypeOK, ThreadTypeOK
<1>4. pcio # 0
  BY DEF WriteRequest, HasPort
<1>5. dwName # 0
  BY <1>1 DEF SyncInv, SyncTypeOK, ThreadTypeOK
<1>6. Pos' = "read" /\ AllWhole' /\ hfile' = 0 /\ chan' = <<>> /\ ~Exists(dwName)'
  BY <1>1, <1>2 DEF Quiet, AllWhole, Exists, Complete, Pos
<1>7. ASSUME PortOpen PROVE Active'
  <2>1. req' = Append(<<>>, i[t])
    BY <1>1, <1>3, <1>7 DEF PortOpen, Quiet
  <2>2. req' = <<dwName'>>
    BY <1>1, <1>2, <2>1
  <2>3. Missing'
    BY <1>2, <1>5, <1>6 DEF Missing
  <2>4. Asked'
    BY <1>1, <1>2, <1>6, <2>2, <2>3 DEF Asked
  <2> QED
    BY <2>4 DEF Active
<1>8. ASSUME ~PortOpen PROVE Active'
  <2>1. req' = <<>>
    BY <1>1, <1>3, <1>4, <1>8 DEF PortOpen, Quiet
  <2>2. Quiet'
    BY <1>6, <2>1 DEF Quiet
  <2>3. ~PortOpen'
    BY <1>2, <1>8 DEF PortOpen
  <2>4. Settled'
    BY <1>1, <1>2, <2>2, <2>3 DEF Settled
  <2> QED
    BY <2>4 DEF Active, InWork
<1>9. Active'
  BY <1>7, <1>8
<1>10. Position(t)'
  BY <1>1, <1>2, <1>3, <1>9 DEF Position
<1>11. ReadersFit(t)'
  BY <1>1, <1>2, <1>3, <1>4 DEF ReadersFit, PortOpen
<1>12. StoreStep /\ ParsesWhole'
  BY <1>2, ParsesStay DEF StoreStep
<1> QED
  BY <1>10, <1>11, <1>12 DEF DownloadStep

(* The log goes to a parse thread: it is the one that was received.        *)
LEMMA FinishStep ==
  ASSUME NEW t \in Syncers, SyncInv, ReadersFit(t), Position(t), ParsesWhole,
         Finish(t)
  PROVE  DownloadStep(t)
<1>1. /\ pc[t] = "fin" /\ flag = 3 /\ Settled /\ i[t] = dwName
  BY DEF Finish, Position
<1>2. UNCHANGED <<hfile, disk, req, chan, pcio, port, rpc, registered>>
  BY DEF Finish, portVars, readVars, linkVars
<1>3. pc'[t] = "leave" /\ flag' = 0 /\ parsing' = parsing \cup {i[t]}
  BY DEF Finish, Goto, SyncInv, SyncTypeOK, ThreadTypeOK
<1>4. Between'
  BY <1>1, <1>2, <1>3
  DEF Settled, Between, Quiet, AllWhole, Exists, Complete, Pos
<1>5. Position(t)'
  BY <1>3, <1>4 DEF Position, Between
<1>6. ReadersFit(t)'
  BY <1>1, <1>2 DEF ReadersFit, PortOpen
<1>7. Complete(i[t]) /\ i[t] \in Sn
  BY <1>1, DownloadTypes DEF Settled
<1>8. StoreStep /\ ParsesWhole'
  BY <1>2, <1>3, <1>7, ParsesStay DEF StoreStep
<1> QED
  BY <1>5, <1>6, <1>8 DEF DownloadStep

(* A log that stopped half-way is closed, then deleted; nobody parses it.  *)
LEMMA DeleteStep ==
  ASSUME NEW t \in Syncers, SyncInv, ReadersFit(t), Position(t), ParsesWhole,
         DeleteLastFile(t)
  PROVE  DownloadStep(t)
<1>1. UNCHANGED <<parsing, req, chan, pcio, port, rpc, registered>>
  BY DEF DeleteLastFile, syncElse, portVars, readVars, linkVars, parseVars
<1>2. pc[t] \in {"del", "unlink"} /\ ReadersFit(t)'
  BY <1>1 DEF DeleteLastFile, ReadersFit, PortOpen
<1>3. CASE pc[t] = "del"
  <2>1. DeinitFile /\ pc'[t] = "unlink"
    BY <1>3 DEF DeleteLastFile, Goto, SyncInv, SyncTypeOK, ThreadTypeOK
  <2>2. Writing /\ pcio = 0
    BY <1>3 DEF Position
  <2>3. Pos = "read" /\ req = <<>> /\ chan = <<>>
    BY <2>2 DEF Pos, ReadersFit, PortOpen
  <2>4. disk[dwName] # Content(dwName)
    BY <2>2, <2>3, NotYetWhole DEF Complete
  <2>5. hfile' = 0 /\ UNCHANGED <<flag, dwName, lastFile, disk>>
    BY <2>1 DEF DeinitFile
  <2>6. WholeBut(dwName)'
    BY <2>2, <2>5 DEF Writing, WholeBut, Exists, Complete
  <2>7. Torn'
    BY <1>1, <2>2, <2>3, <2>4, <2>5, <2>6 DEF Writing, Torn, Content
  <2>8. Position(t)'
    BY <2>1, <2>7 DEF Position
  <2>9. StoreStep /\ ParsesWhole'
    BY <1>1, <2>5, ParsesStay DEF StoreStep
  <2> QED
    BY <1>2, <2>8, <2>9 DEF DownloadStep
<1>4. CASE pc[t] = "unlink"
  <2>1. DeleteNamed(parsing) /\ pc'[t] = "reset"
    BY <1>4 DEF DeleteLastFile, Goto, SyncInv, SyncTypeOK, ThreadTypeOK
  <2>2. Torn
    BY <1>4 DEF Position
  <2>3. ~Complete(dwName)
    BY <2>2 DEF Torn, Complete
  <2>4. dwName \notin parsing
    BY <2>3 DEF ParsesWhole
  <2>5. disk' = [disk EXCEPT ![dwName] = NoFile] /\ hfile' = 0
    BY <2>1, <2>2, <2>4 DEF Torn, DeleteNamed, recvVars
  <2>6. disk'[dwName] = NoFile /\ \A g \in Sn : g # dwName => disk'[g] = disk[g]
    BY <2>5, DownloadTypes
  <2>7. AllWhole'
    BY <2>2, <2>6 DEF Torn, WholeBut, AllWhole, Exists, Complete
  <2>8. Quiet'
    BY <1>1, <2>2, <2>5, <2>7 DEF Torn, Quiet, Pos
  <2>9. Position(t)'
    BY <2>1, <2>8 DEF Position
  <2>10. NoFile # Content(dwName)
    BY ContentIsSeq, ReceiverAssumption, DownloadTypes
  <2>11. StoreStep
    BY <2>2, <2>3, <2>5, <2>10, DownloadTypes DEF Torn, StoreStep
  <2>12. ParsesWhole'
    BY <1>1, <2>11, ParsesStay
  <2> QED
    BY <1>2, <2>9, <2>11, <2>12 DEF DownloadStep
<1> QED
  BY <1>2, <1>3, <1>4

(* flag = 0 at the end of doSync: nothing is open or on its way.           *)
LEMMA ResetStep ==
  ASSUME NEW t \in Syncers, SyncInv, ReadersFit(t), Position(t), ParsesWhole,
         ResetFlag(t)
  PROVE  DownloadStep(t)
<1>1. pc[t] = "reset" /\ Quiet
  BY DEF ResetFlag, Position
<1>2. UNCHANGED <<hfile, disk, req, chan, parsing, pcio, port, rpc, registered>>
  BY DEF ResetFlag, syncElse, portVars, linkVars, readVars, parseVars
<1>3. pc'[t] = "idle" /\ flag' = 0
  BY DEF ResetFlag, Goto, SyncInv, SyncTypeOK, ThreadTypeOK
<1>4. Between'
  BY <1>1, <1>2, <1>3 DEF Between, Quiet, AllWhole, Exists, Complete, Pos
<1>5. Position(t)'
  BY <1>3, <1>4 DEF Position
<1>6. ReadersFit(t)'
  BY <1>1, <1>2 DEF ReadersFit, PortOpen
<1>7. StoreStep /\ ParsesWhole'
  BY <1>2, ParsesStay DEF StoreStep
<1> QED
  BY <1>5, <1>6, <1>7 DEF DownloadStep

-----------------------------------------------------------------------------
(* The invariant.                                                          *)

(* A parse thread writes its .cosmos file for a log that is complete.      *)
ParseStep ==
  \/ parsed' = parsed
  \/ disk' = disk /\ \E n \in Sn : Complete(n) /\ parsed' = parsed \cup {n}

(* The program starts with complete logs in the folder, if any.            *)
LEMMA DownloadInvInit ==
  ASSUME NEW t \in Syncers
  PROVE  Init => DownloadInv(t)
<1> SUFFICES ASSUME Init PROVE DownloadInv(t)
  OBVIOUS
<1>1. SyncInv /\ PortsFit(t)
  BY SyncInvInit, PortsInit
<1>2. /\ flag = 0 /\ hfile = 0 /\ pcio = 0 /\ req = <<>> /\ chan = <<>>
      /\ parsing = {} /\ pc[t] = "idle"
      /\ \A o \in Ports : rpc[o] = "none"
  BY DEF Init, ProcessStart, ReceiverStart
<1>3. PICK old \in SUBSET Logs :
        disk = [f \in Sn |-> IF f \in old THEN Content(f) ELSE NoFile]
  BY DEF Init
<1>4. AllWhole
  BY <1>3 DEF AllWhole, Exists, Complete
<1>5. Between
  BY <1>2, <1>4 DEF Between, Quiet, Pos
<1>6. Position(t)
  BY <1>2, <1>5 DEF Position
<1>7. ReadersFit(t) /\ ParsesWhole
  BY <1>2 DEF ReadersFit, ParsesWhole
<1> QED
  BY <1>1, <1>6, <1>7 DEF DownloadInv

(* The steps of the window, of StopThread outside the port, of the parse   *)
(* threads, and of nobody.                                                 *)
Aside ==
  /\ UNCHANGED <<World, pc, i, registered>>
  /\ parsing' \subseteq parsing /\ ParseStep

(* doParseFile reads a complete log and touches nothing else.              *)
LEMMA ParseAside ==
  ASSUME NEW n \in Sn, ParsesWhole, ParseFile(n)
  PROVE  Aside
<1>1. Complete(n) /\ parsing' = parsing \ {n}
  BY DEF ParseFile, ParsesWhole
<1>2. parsed' = parsed \/ parsed' = parsed \cup {n}
  BY DEF ParseFile
<1>3. UNCHANGED <<World, pc, i, registered>>
  BY DEF ParseFile, World, portVars, syncVars
<1> QED
  BY <1>1, <1>2, <1>3 DEF Aside, ParseStep, World, allRecv

DoSync(t) ==
  \/ SyncAlone(t) \/ Create(t) \/ CheckFileExist(t) \/ Ask(t)
  \/ WriteRequest(t) \/ Finish(t) \/ DeleteLastFile(t) \/ ResetFlag(t)

(* A step is one of doSync, of the other threads, of the window, or the    *)
(* end of the process.                                                     *)
LEMMA StepKinds ==
  ASSUME NEW t \in Syncers, Syncers = {t}, SyncInv, ParsesWhole, [Next]_vars
  PROVE  Line \/ DoSync(t) \/ Aside \/ Exit
<1> USE DEF Aside, ParseStep, World, dataVars, portVars, syncVars, readVars,
            linkVars, parseVars, stopElse, syncElse, readElse
<1>1. CASE Exit
  BY <1>1
<1>2. CASE ClickSync(t)
  BY <1>2 DEF DoSync, SyncAlone
<1>3. ASSUME NEW k \in Stoppers, ClickStop(k) \/ CloseWindow(k) PROVE Aside
  BY <1>3 DEF ClickStop, CloseWindow
<1>4. CASE Window \/ DeleteMainCs
  BY <1>4 DEF Window, TakeRefresh, Refresh, DeleteMainCs
<1>5. CASE OpenEnter(t) \/ LoopEnter(t) \/ SyncConnect(t) \/ SyncBody(t)
  BY <1>5 DEF DoSync, SyncAlone, SyncConnect, SyncBody
<1>6. ASSUME NEW k \in Stoppers, StopText(k) \/ StopEnter(k) \/ StopPost(k)
      PROVE  Aside
  BY <1>6 DEF StopText, StopEnter, StopPost
<1>7. ASSUME NEW k \in Stoppers, CloseCom(k) \/ FreePort(k) PROVE Line
  BY <1>7 DEF Line
<1>8. CASE (\E o \in Ports : Reader(o)) \/ DevReply
  BY <1>8 DEF Line
<1>9. ASSUME NEW n \in Sn, ParseFile(n) PROVE Aside
  BY <1>9, ParseAside
<1>10. CASE UNCHANGED vars
  BY <1>10 DEF vars
<1> QED
  BY <1>1, <1>2, <1>3, <1>4, <1>5, <1>6, <1>7, <1>8, <1>9, <1>10
  DEF Next, User, StopBody

(* A new process starts with nothing but the folder.                       *)
LEMMA ExitStep ==
  ASSUME NEW t \in Syncers, SyncInv, Exit
  PROVE  /\ Position(t)' /\ ReadersFit(t)' /\ ParsesWhole'
         /\ StoreStep /\ ParseStep
<1>1. /\ flag' = 0 /\ hfile' = 0 /\ pcio' = 0 /\ req' = <<>> /\ chan' = <<>>
      /\ parsing' = {} /\ pc'[t] = "idle"
      /\ \A o \in Ports : rpc'[o] = "none"
      /\ UNCHANGED <<disk, parsed>>
  BY DEF Exit, ReceiverRestart
<1>2. ~OneRun
  BY DEF Exit, OneRun, SyncInv, SyncTypeOK, ParseTypeOK
<1>3. AllWhole'
  BY <1>2 DEF AllWhole, OneRun
<1>4. Between'
  BY <1>1, <1>3 DEF Between, Quiet, Pos
<1>5. Position(t)'
  BY <1>1, <1>4 DEF Position
<1>6. ReadersFit(t)' /\ ParsesWhole'
  BY <1>1 DEF ReadersFit, ParsesWhole
<1> QED
  BY <1>1, <1>5, <1>6 DEF StoreStep, ParseStep

(* Every step keeps DownloadInv and is a step of LogStore.                 *)
LEMMA DownloadInvNext ==
  ASSUME NEW t \in Syncers, Syncers = {t}, PromptDevice, GraceSleep,
         DownloadInv(t), [Next]_vars
  PROVE  DownloadInv(t)' /\ StoreStep /\ ParseStep
<1> USE DEF DownloadInv
<1>1. SyncInv' /\ PortsFit(t)'
  BY SyncInvNext, PortsNext
<1>2. CASE Line
  <2>1. Moves /\ StoreStep /\ UNCHANGED <<pc, i, parsing, parsed>>
    BY <1>2, LineMoves
  <2>2. Position(t)'
    BY <2>1, MovesKeepPosition
  <2>3. ReadersFit(t)'
    BY <1>2, LineReaders
  <2>4. ParsesWhole'
    BY <2>1, ParsesStay
  <2> QED
    BY <1>1, <2>1, <2>2, <2>3, <2>4 DEF ParseStep
<1>3. CASE SyncAlone(t)
  <2>1. UNCHANGED World /\ UNCHANGED parseVars
    BY <1>3, AloneStill
  <2>2. Moves /\ StoreStep
    BY <2>1, WorldMoves
  <2>3. Position(t)' /\ ReadersFit(t)'
    BY <1>3, AlonePosition, AloneReaders
  <2>4. ParsesWhole'
    BY <2>1, <2>2, ParsesStay DEF parseVars
  <2> QED
    BY <1>1, <2>1, <2>2, <2>3, <2>4 DEF ParseStep, parseVars
<1>4. CASE DoSync(t) /\ ~SyncAlone(t)
  <2>1. DownloadStep(t)
    BY <1>4, CreateStep, CheckStep, AskStep, WriteStep, FinishStep, DeleteStep,
       ResetStep DEF DoSync
  <2>2. parsed' = parsed
    BY <1>4
    DEF DoSync, Create, CheckFileExist, Ask, WriteRequest, Finish,
        DeleteLastFile, ResetFlag, syncElse, parseVars
  <2> QED
    BY <1>1, <2>1, <2>2 DEF DownloadStep, ParseStep
<1>5. CASE Aside
  <2>1. UNCHANGED <<World, pc, i, registered>>
    BY <1>5 DEF Aside
  <2>2. Moves /\ StoreStep
    BY <2>1, WorldMoves
  <2>3. Position(t)'
    BY <2>1, <2>2, MovesKeepPosition
  <2>4. ReadersFit(t)'
    BY <2>1 DEF ReadersFit, PortOpen, World, readVars, linkVars
  <2>5. ParsesWhole'
    BY <1>5, <2>2, ParsesStay DEF Aside
  <2> QED
    BY <1>1, <1>5, <2>2, <2>3, <2>4, <2>5 DEF Aside
<1>6. CASE Exit
  BY <1>1, <1>6, ExitStep
<1> QED
  BY <1>2, <1>3, <1>4, <1>5, <1>6, StepKinds

(* The invariant holds throughout, with one doSync thread.                 *)
THEOREM DownloadInvariant ==
  ASSUME NEW t \in Syncers, Syncers = {t}, PromptDevice, GraceSleep
  PROVE  Spec => []DownloadInv(t)
<1>1. Init => DownloadInv(t)
  BY DownloadInvInit
<1>2. DownloadInv(t) /\ [Next]_vars => DownloadInv(t)'
  BY DownloadInvNext
<1> QED
  BY <1>1, <1>2, PTL DEF Spec

-----------------------------------------------------------------------------
(* What doSync says and leaves behind.                                     *)

(* "File NOT Found" is true, in the first process and in every later one.  *)
THEOREM NotFoundTrue ==
  ASSUME NEW t \in Syncers, Syncers = {t}, PromptDevice, GraceSleep
  PROVE  Spec => []NotFoundIsTrue
<1>1. DownloadInv(t) => NotFoundIsTrue
  BY DEF DownloadInv, NotFoundIsTrue, Position, Settled, PortOpen
<1> QED
  BY <1>1, DownloadInvariant, PTL

(* A log that doSync skips because its file exists is all there.           *)
THEOREM SkippedIsStored ==
  ASSUME NEW t \in Syncers, Syncers = {t}, PromptDevice, GraceSleep, MaxRuns = 1
  PROVE  Spec => []SkipsOnlyStored
<1>1. DownloadInv(t) => SkipsOnlyStored
  <2>1. i[t] \in Sn \/ ~DownloadInv(t)
    BY DEF DownloadInv, SyncInv, SyncTypeOK, ThreadTypeOK, Sn
  <2> QED
    BY <2>1 DEF DownloadInv, SkipsOnlyStored, Position, Between, Quiet, AllWhole,
                OneRun
<1> QED
  BY <1>1, DownloadInvariant, PTL

(* The log that doSync hands to a parse thread is complete and closed,     *)
(* whatever an earlier process left in the folder.                         *)
THEOREM FinishedComplete ==
  ASSUME NEW t \in Syncers, Syncers = {t}, PromptDevice, GraceSleep
  PROVE  Spec => []FinishedIsComplete
<1>1. DownloadInv(t) => FinishedIsComplete
  BY DEF DownloadInv, FinishedIsComplete, Position, Settled, Quiet
<1> QED
  BY <1>1, DownloadInvariant, PTL

(* Once everything has come to rest the receiver is ready for a request    *)
(* and the folder holds whole logs only, whatever Stop interrupted.        *)
THEOREM RestIsClean ==
  ASSUME NEW t \in Syncers, Syncers = {t}, PromptDevice, GraceSleep, MaxRuns = 1
  PROVE  Spec => []QuiescentClean
<1>1. DownloadInv(t) => QuiescentClean
  BY DEF DownloadInv, QuiescentClean, Quiescent, Position, Between, Quiet, AllWhole,
         OneRun
<1> QED
  BY <1>1, DownloadInvariant, PTL

(* A log that is all there stays as it is, whatever is downloaded, stopped *)
(* or deleted after it and however often the program is started again;     *)
(* StoreStep is what InitFile, WriteFile and DeleteLastFile do to a file.  *)
THEOREM StoredForGood ==
  ASSUME NEW t \in Syncers, Syncers = {t}, PromptDevice, GraceSleep
  PROVE  Spec => [][\A f \in Sn : Complete(f) => Complete(f)']_vars
<1>1. DownloadInv(t) /\ [Next]_vars
        => [\A f \in Sn : Complete(f) => Complete(f)']_vars
  <2> SUFFICES ASSUME DownloadInv(t), [Next]_vars, NEW f \in Sn, Complete(f)
               PROVE  Complete(f)'
    OBVIOUS
  <2>1. SyncInv /\ StoreStep
    BY DownloadInvNext DEF DownloadInv
  <2> QED
    BY <2>1, StoredStays
<1> QED
  BY <1>1, DownloadInvariant, PTL DEF Spec

(* Every log that doParseFile ever made rows of is all there and stays so, *)
(* in the process that parsed it and in every later one: no row comes from *)
(* a log that Stop or a crash cut short.                                   *)
THEOREM ParsedAreStored ==
  ASSUME NEW t \in Syncers, Syncers = {t}, PromptDevice, GraceSleep
  PROVE  Spec => [](\A n \in parsed : Complete(n))
<1> DEFINE Inv == \A n \in parsed : Complete(n)
<1>1. Init => Inv
  <2> SUFFICES ASSUME Init, NEW n \in parsed PROVE Complete(n)
    OBVIOUS
  <2>1. PICK old \in SUBSET Logs :
          /\ disk = [f \in Sn |-> IF f \in old THEN Content(f) ELSE NoFile]
          /\ parsed \subseteq old
    BY DEF Init
  <2> QED
    BY <2>1 DEF Complete, Logs
<1>2. DownloadInv(t) /\ Inv /\ [Next]_vars => Inv'
  <2> SUFFICES ASSUME DownloadInv(t), Inv, [Next]_vars, NEW n \in parsed'
               PROVE  Complete(n)'
    OBVIOUS
  <2>1. SyncInv /\ StoreStep /\ ParseStep
    BY DownloadInvNext DEF DownloadInv
  <2>2. parsed \subseteq Sn
    BY <2>1 DEF SyncInv, SyncTypeOK, ParseTypeOK
  <2>3. n \in Sn /\ Complete(n)
    BY <2>1, <2>2 DEF ParseStep
  <2> QED
    BY <2>1, <2>3, StoredStays
<1> QED
  BY <1>1, <1>2, DownloadInvariant, PTL DEF Spec

-----------------------------------------------------------------------------
(* The refinement.                                                         *)

(* The folder at the start: a log of an earlier run, or none.              *)
LEMMA StoreInit == Init => Abstract!Init
<1> SUFFICES ASSUME Init PROVE Abstract!Init
  OBVIOUS
<1>1. PICK old \in SUBSET Logs :
        /\ disk = [f \in Sn |-> IF f \in old THEN Content(f) ELSE NoFile]
        /\ parsed \subseteq old
  BY DEF Init
<1>2. \A f \in Logs : /\ f \in Sn /\ Content(f) # NoFile
                      /\ disk[f] = IF f \in old THEN Content(f) ELSE NoFile
  BY <1>1, ContentIsSeq, ReceiverAssumption DEF Logs
<1>3. \A f \in Logs : Store[f] = IF f \in old THEN "stored" ELSE "absent"
  BY <1>2 DEF Store, Complete, Exists
<1>4. Store \in [Logs -> {"absent", "stored"}]
  BY <1>3 DEF Store
<1>5. parsed \cap Logs \subseteq {n \in Logs : Store[n] = "stored"}
  BY <1>1, <1>3
<1> QED
  BY <1>4, <1>5 DEF Abstract!Init

(* A change of the folder is a Begin, a Complete or an Abort of one log,   *)
(* or one that LogStore does not see.                                      *)
LEMMA StoreNext ==
  ASSUME OneRun, SyncInv, StoreStep, parsed' = parsed
  PROVE  [Abstract!Next]_<<Store, parsed \cap Logs>>
<1>1. (parsed \cap Logs)' = parsed \cap Logs
  BY DEF Logs
<1>2. CASE disk' = disk
  BY <1>1, <1>2 DEF Store, Complete, Exists, Logs
<1>3. ASSUME NEW f \in Sn, NEW s \in Seq(Item) \cup {NoFile},
             ~Complete(f), WholeBut(f), disk' = [disk EXCEPT ![f] = s],
             Exists(f) \/ s # Content(f)
      PROVE  [Abstract!Next]_<<Store, parsed \cap Logs>>
  <2>1. disk'[f] = s /\ \A g \in Sn : g # f => disk'[g] = disk[g]
    BY <1>3, DownloadTypes
  <2>2. \A g \in Logs : g # f => Store'[g] = Store[g]
    BY <2>1 DEF Store, Complete, Exists, Logs
  <2>3. CASE f \notin Logs
    <3>1. Store' = Store
      BY <2>2, <2>3 DEF Store, Logs
    <3> QED
      BY <1>1, <3>1
  <2>4. CASE f \in Logs
    <3>1. Store[f] \in {"absent", "receiving"}
      BY <1>3, <2>4 DEF Store
    <3>2. Store[f] = "absent" <=> ~Exists(f)
      BY <1>3, <2>4 DEF Store
    <3>3. Store'[f] \in {"absent", "receiving", "stored"}
      BY <2>4 DEF Store, Logs
    <3>4. Store[f] = "absent" => Store'[f] # "stored"
      BY <1>3, <2>1, <2>4, <3>2 DEF Store, Complete, Logs
    <3>5. \A g \in Logs : g # f => Store[g] # "receiving"
      BY <1>3 DEF Store, WholeBut, Logs
    <3>6. Store' = [Store EXCEPT ![f] = Store'[f]]
      BY <2>2, <2>4 DEF Store, Logs
    <3>7. CASE Store'[f] = Store[f]
      <4>1. Store' = Store
        BY <2>2, <3>7 DEF Store, Logs
      <4> QED
        BY <1>1, <4>1
    <3>8. CASE Store[f] = "absent" /\ Store'[f] = "receiving"
      <4>1. Abstract!Begin(f)
        BY <1>1, <3>5, <3>6, <3>8 DEF Abstract!Begin
      <4> QED
        BY <2>4, <4>1 DEF Abstract!Next
    <3>9. CASE Store[f] = "receiving" /\ Store'[f] = "absent"
      <4>1. Abstract!Abort(f)
        BY <1>1, <3>6, <3>9 DEF Abstract!Abort
      <4> QED
        BY <2>4, <4>1 DEF Abstract!Next
    <3>10. CASE Store[f] = "receiving" /\ Store'[f] = "stored"
      <4>1. Abstract!Complete(f)
        BY <1>1, <3>6, <3>10 DEF Abstract!Complete
      <4> QED
        BY <2>4, <4>1 DEF Abstract!Next
    <3> QED
      BY <3>1, <3>3, <3>4, <3>7, <3>8, <3>9, <3>10
  <2> QED
    BY <2>3, <2>4
<1> QED
  BY <1>2, <1>3 DEF StoreStep

(* Writing a .cosmos file is the parsing step of LogStore.                 *)
LEMMA ParseNext ==
  ASSUME disk' = disk, NEW n \in Sn, Complete(n), parsed' = parsed \cup {n}
  PROVE  [Abstract!Next]_<<Store, parsed \cap Logs>>
<1>1. Store' = Store /\ Logs' = Logs
  BY DEF Store, Complete, Exists, Logs
<1>2. CASE n \notin Logs
  <2>1. (parsed \cap Logs)' = parsed \cap Logs
    BY <1>1, <1>2
  <2> QED
    BY <1>1, <2>1
<1>3. CASE n \in Logs
  <2>1. Store[n] = "stored"
    BY <1>3 DEF Store
  <2>2. (parsed \cap Logs)' = (parsed \cap Logs) \cup {n}
    BY <1>1, <1>3
  <2>3. Abstract!Parse(n)
    BY <1>1, <2>1, <2>2 DEF Abstract!Parse
  <2> QED
    BY <1>3, <2>3 DEF Abstract!Next
<1> QED
  BY <1>2, <1>3

(* doSync, StopThread, the read threads and the parse threads together do  *)
(* to the folder what LogStore promises.                                   *)
THEOREM DownloadIsLogStore ==
  ASSUME NEW t \in Syncers, Syncers = {t}, PromptDevice, GraceSleep, MaxRuns = 1
  PROVE  Spec => RefinesLogStore
<1>1. Init => Abstract!Init
  BY StoreInit
<1>2. DownloadInv(t) /\ [Next]_vars => [Abstract!Next]_<<Store, parsed \cap Logs>>
  <2> SUFFICES ASSUME DownloadInv(t), [Next]_vars
               PROVE  [Abstract!Next]_<<Store, parsed \cap Logs>>
    OBVIOUS
  <2>1. StoreStep /\ ParseStep /\ SyncInv
    BY DownloadInvNext DEF DownloadInv
  <2> QED
    BY <2>1, StoreNext, ParseNext DEF ParseStep, OneRun
<1> QED
  BY <1>1, <1>2, DownloadInvariant, PTL DEF Spec, RefinesLogStore, Abstract!Spec
=============================================================================
