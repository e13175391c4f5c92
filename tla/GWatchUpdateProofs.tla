------------------------- MODULE GWatchUpdateProofs -------------------------
(***************************************************************************)
(* GWatchUpdate for images, packets and a flash of every size.  The types  *)
(* hold for any number of doUpdate threads, the rest for the program with  *)
(* one: two at once share Image_data and the port.                         *)
(***************************************************************************)
EXTENDS GWatchUpdate, SequenceTheorems, TLAPS

-----------------------------------------------------------------------------
(* A thread and its own variables.                                         *)

NoFileYet == {"idle", "open"}
Sending   == {"ack0", "c0", "data", "ackd"}

(* What pos, size and tries count, as far as the bounds of the types need  *)
(* it: Ymodem_Transmit never has more left than the image holds behind     *)
(* buf_ptr, and a loop of reads that goes on has a try left.               *)
OwnFits(u) ==
  /\ upc[u] \notin NoFileYet => file[u] \in Images /\ Fits(file[u])
  /\ upc[u] = "load" => pos[u] <= ImageSize[file[u]]
  /\ upc[u] \in Sending => pos[u] + size[u] = ImageSize[file[u]]
  /\ upc[u] \in {"data", "ackd"} => size[u] > 0
  /\ upc[u] \in Loops \cup DOMAIN Awaited => tries[u] > 0

ThreadFits == \A u \in Updaters : OwnFits(u)

-----------------------------------------------------------------------------
(* The watch and the line.                                                 *)

Message == [kind : Kinds, n : Nat, bytes : Seq(Byte)]

LoaderTypeOK ==
  /\ toWatch \in Seq(Message)
  /\ fromWatch \in Seq(Chars)
  /\ announced \in Nat
  /\ got \in Seq(Byte)
  /\ installed \in Seq(Seq(Byte \cup {<<>>}))

NoAckIn(s)  == \A i \in DOMAIN s : s[i] # "ACK"
OneAckIn(s) == \A i, j \in DOMAIN s : s[i] = "ACK" /\ s[j] = "ACK" => i = j

NoAck  == NoAckIn(fromWatch)
OneAck == OneAckIn(fromWatch)

(* The first n bytes of the packets that the watch has are those of f, the *)
(* padding behind its end excepted.                                        *)
Received(f, n) ==
  /\ announced = ImageSize[f] /\ Len(got) = n
  /\ \A k \in 1 .. n : k <= ImageSize[f] => got[k] = <<f, k>>

Holds(f) == ImageSize[f] <= Len(got) /\ Received(f, Len(got))

Installed(f) == installed # <<>> /\ installed[Len(installed)] = Image(f)

(* One packet of the stop-and-wait protocol.  It is on its way, or lost or *)
(* refused, and nothing acknowledges it; or the watch has taken it and may *)
(* have acknowledged it once.                                              *)
Exchange(m, before, after) ==
  \/ toWatch \in {<<>>, <<m>>} /\ NoAck /\ before
  \/ toWatch = <<>> /\ OneAck /\ after

(* At most one message but '3', which the menu alone takes, is under way.  *)
OneMessage ==
  \A i, j \in DOMAIN toWatch :
    toWatch[i].kind # "3" /\ toWatch[j].kind # "3" => i = j

(* What was sent last still arrives when its thread has given up, perhaps  *)
(* while the next one loads another file: once EOT was sent, the watch has *)
(* one whole image.                                                        *)
Ending  == mode = "last" \/ \E i \in DOMAIN toWatch : toWatch[i].kind = "eot"
Residue == OneMessage /\ (Ending => \E f \in Images : Holds(f))

-----------------------------------------------------------------------------
(* The only thread.                                                        *)

Before == {"idle", "open", "load", "init"}

(* From Form1->Init to the destructor it is this thread that has the port. *)
PortFits(u) ==
  /\ upc[u] \in Before => updateio = 0
  /\ upc[u] \notin Before => updateio # 0 /\ asked
  /\ upc[u] \in Before \cup {"free"} => \A o \in Objects : handle[o] = "none"
  /\ \A o \in Objects : handle[o] # "none" => o = updateio

(* Before the first getCommPort nothing was sent to the watch.             *)
Fresh ==
  ~asked => /\ toWatch = <<>> /\ fromWatch = <<>> /\ mode = "off"
            /\ \A o \in Objects : handle[o] # "open"

Loaded(u) ==
  /\ upc[u] = "load" => \A k \in 1 .. pos[u] : image_data[k] = <<file[u], k>>
  /\ upc[u] \notin NoFileYet \cup {"load"} =>
       \A k \in 1 .. ImageSize[file[u]] : image_data[k] = <<file[u], k>>

Connected == updateio # 0 /\ handle[updateio] = "open"

(* The menu: a command that was answered was taken.                        *)
Dialogue(u) ==
  /\ At(u, "hello") => mode = "off" /\ toWatch = <<>> /\ fromWatch = <<>>
  /\ At(u, "listen") =>
       \/ /\ mode = "off" /\ ~heard[u]
          /\ toWatch \in {<<>>, <<Plain("a0")>>} /\ fromWatch = <<>>
       \/ mode = "menu" /\ toWatch = <<>> /\ NoAck
  /\ At(u, "start") =>
       /\ mode = "menu" /\ toWatch = <<>> /\ NoAck
       /\ linkUp => fromWatch = <<>>
  /\ At(u, "listen2") =>
       \/ /\ mode = "menu" /\ ~heard[u] /\ NoAck
          /\ toWatch \in {<<>>, <<Plain("1")>>}
          /\ linkUp => fromWatch = <<>>
       \/ mode = "wait" /\ toWatch = <<>> /\ NoAck
  /\ At(u, "header") => mode = "wait" /\ toWatch = <<>> /\ NoAck

Packet(u) == Msg("data", blk[u] % SeqMod, PreparePacket(pos[u], size[u]))

(* The transfer: what the thread has seen acknowledged the watch has.      *)
Transfer(u) ==
  LET f == file[u] IN
  /\ upc[u] \in {"ack0", "c0"} => pos[u] = 0
  /\ At(u, "ack0") => Exchange(Msg("header", ImageSize[f], <<>>),
                               mode = "wait", mode = "receive" /\ Received(f, 0))
  /\ At(u, "c0") => toWatch = <<>> /\ NoAck /\ mode = "receive" /\ Received(f, 0)
  /\ At(u, "data") => toWatch = <<>> /\ NoAck /\ mode = "receive" /\ Received(f, pos[u])
  /\ At(u, "ackd") => Exchange(Packet(u),
                               mode = "receive" /\ Received(f, pos[u]),
                               mode = "receive" /\ Received(f, pos[u] + PktSize(size[u])))
  /\ At(u, "eot") => toWatch = <<>> /\ NoAck /\ mode = "receive" /\ Holds(f)
  /\ At(u, "acke") => Exchange(Plain("eot"), mode = "receive" /\ Holds(f),
                                             mode = "last" /\ Holds(f))
  /\ At(u, "last") => toWatch = <<>> /\ NoAck /\ mode = "last" /\ Holds(f)
  /\ At(u, "ackl") => Exchange(Plain("end"), mode = "last" /\ Holds(f),
                                             mode = "menu" /\ Installed(f))
  /\ At(u, "drain") => toWatch = <<>> /\ mode = "menu" /\ Installed(f)

(* An invalid handle is one on which nothing was heard.                    *)
Unconnected(u) ==
  upc[u] \in {"hello", "listen", "close"} /\ (At(u, "listen") => ~heard[u])

SessionFits(u) ==
  IF Connected THEN Dialogue(u) /\ Transfer(u)
  ELSE upc[u] \notin Before \cup {"free"} => Unconnected(u)

TypesFit == UpdateTypeOK /\ ThreadFits /\ LoaderTypeOK

UpdateInv(u) ==
  /\ TypesFit
  /\ PortFits(u) /\ Fresh /\ Loaded(u) /\ SessionFits(u)
  /\ Residue /\ InstallsWholeImages

-----------------------------------------------------------------------------
(* Types, and what ThreadFits adds to them.                                *)

(* The flash of the watch has a size.                                      *)
LEMMA Flash == FLASH_SIZE \in Nat
  BY UpdateAssumption DEF FLASH_SIZE

(* A data packet holds something, whatever is left to send.                *)
LEMMA PacketSize ==
  /\ PktSize(0) \in Nat
  /\ \A left \in Nat : PktSize(left) \in Nat \ {0}
  BY UpdateAssumption DEF PktSize

(* At the start no update runs.                                            *)
LEMMA ThreadInit == UpdateInit => UpdateTypeOK /\ ThreadFits
<1> SUFFICES ASSUME UpdateInit PROVE UpdateTypeOK /\ ThreadFits
  OBVIOUS
<1>1. UpdateTypeOK
  BY Flash, UpdateAssumption DEF UpdateInit, UpdateTypeOK, UpdatePCs, Byte
<1>2. ThreadFits
  BY DEF UpdateInit, ThreadFits, OwnFits, NoFileYet, Sending, Loops, Awaited
<1> QED
  BY <1>1, <1>2

(* A step of u leaves the other threads' variables alone.                  *)
OthersKeep(u) ==
  \A v \in Updaters \ {u} :
    /\ upc'[v] = upc[v] /\ file'[v] = file[v] /\ pos'[v] = pos[v]
    /\ size'[v] = size[v] /\ tries'[v] = tries[v]

(* A thread that keeps off the others has only itself to answer for.       *)
LEMMA OthersFit ==
  ASSUME ThreadFits, NEW u \in Updaters, OthersKeep(u), OwnFits(u)'
  PROVE  ThreadFits'
<1> SUFFICES ASSUME NEW v \in Updaters, v # u PROVE OwnFits(v)'
  BY DEF ThreadFits
<1>1. OwnFits(v)
  BY DEF ThreadFits
<1> QED
  BY <1>1 DEF OthersKeep, OwnFits, Fits

(* From its click to InitPort a thread reads its file.                     *)
LEMMA LoadTypes ==
  ASSUME UpdateTypeOK, ThreadFits, NEW u \in Updaters,
         ClickUpdate(u) \/ OpenImage(u) \/ LoadImage(u) \/ InitPort(u)
  PROVE  UpdateTypeOK' /\ OthersKeep(u) /\ OwnFits(u)'
<1> USE UpdateAssumption, Flash DEF UpdateTypeOK, OthersKeep, At, Goto,
        form1Vars, sizeVars, loopVars
<1>0. OwnFits(u)
  BY DEF ThreadFits
<1>1. CASE ClickUpdate(u)
  <2>1. /\ upc[u] = "idle" /\ upc' = [upc EXCEPT ![u] = "open"]
        /\ UNCHANGED <<image_data, updateio, handle, asked, file, pos, size, blk, tries, heard>>
    BY <1>1 DEF ClickUpdate
  <2>2. upc' \in [Updaters -> UpdatePCs]
    BY <2>1 DEF UpdatePCs
  <2>3. OwnFits(u)'
    BY <2>1 DEF OwnFits, NoFileYet, Sending, Loops, Awaited
  <2> QED
    BY <2>1, <2>2, <2>3
<1>2. CASE OpenImage(u)
  <2>1. CASE upc' = [upc EXCEPT ![u] = "idle"] /\ UNCHANGED <<file, pos>>
    <3>1. UNCHANGED <<image_data, updateio, handle, asked, size, blk, tries, heard>>
      BY <1>2 DEF OpenImage
    <3>2. upc' \in [Updaters -> UpdatePCs]
      BY <2>1 DEF UpdatePCs
    <3>3. OwnFits(u)'
      BY <2>1 DEF OwnFits, NoFileYet, Sending, Loops, Awaited
    <3> QED
      BY <2>1, <3>1, <3>2, <3>3
  <2>2. ASSUME NEW f \in Images, Fits(f), file' = [file EXCEPT ![u] = f],
               pos' = [pos EXCEPT ![u] = 0], upc' = [upc EXCEPT ![u] = "load"]
        PROVE  UpdateTypeOK' /\ OthersKeep(u) /\ OwnFits(u)'
    <3>1. UNCHANGED <<image_data, updateio, handle, asked, size, blk, tries, heard>>
      BY <1>2 DEF OpenImage
    <3>2. /\ upc' \in [Updaters -> UpdatePCs]
          /\ file' \in [Updaters -> Images \cup {NoImage}]
          /\ pos' \in [Updaters -> 0 .. FLASH_SIZE]
      BY <2>2 DEF UpdatePCs
    <3>3. OwnFits(u)'
      BY <2>2 DEF OwnFits, NoFileYet, Sending, Loops, Awaited, Fits
    <3> QED
      BY <2>2, <3>1, <3>2, <3>3
  <2> QED
    BY <1>2, <2>1, <2>2 DEF OpenImage
<1>3. CASE LoadImage(u)
  <2>0. /\ upc[u] = "load" /\ file[u] \in Images /\ ImageSize[file[u]] \in 0 .. FLASH_SIZE
        /\ UNCHANGED <<updateio, handle, asked, file, size, blk, tries, heard>>
    BY <1>0, <1>3 DEF LoadImage, OwnFits, Fits, NoFileYet
  <2>1. ASSUME NEW n \in {ShortRead, ImageSize[file[u]] - pos[u]},
               pos[u] + n <= ImageSize[file[u]], pos[u] < ImageSize[file[u]],
               image_data' = [k \in 1 .. FLASH_SIZE |->
                                IF k \in pos[u] + 1 .. pos[u] + n
                                THEN <<file[u], k>> ELSE image_data[k]],
               pos' = [pos EXCEPT ![u] = @ + n], upc' = upc
        PROVE  UpdateTypeOK' /\ OthersKeep(u) /\ OwnFits(u)'
    <3>1. pos[u] + n \in 0 .. FLASH_SIZE
      BY <2>0, <2>1
    <3>2. pos' \in [Updaters -> 0 .. FLASH_SIZE]
      BY <2>1, <3>1
    <3>3. image_data' \in [1 .. FLASH_SIZE -> Byte]
      BY <2>0, <2>1 DEF Byte
    <3>4. OwnFits(u)'
      BY <1>0, <2>0, <2>1 DEF OwnFits, NoFileYet, Sending, Loops, Awaited, Fits
    <3> QED
      BY <2>0, <2>1, <3>2, <3>3, <3>4
  <2>2. ASSUME NEW l \in {"idle", "init"}, upc' = [upc EXCEPT ![u] = l],
               UNCHANGED <<image_data, pos>>
        PROVE  UpdateTypeOK' /\ OthersKeep(u) /\ OwnFits(u)'
    <3>1. upc' \in [Updaters -> UpdatePCs]
      BY <2>2 DEF UpdatePCs
    <3>2. OwnFits(u)'
      BY <1>0, <2>0, <2>2 DEF OwnFits, NoFileYet, Sending, Loops, Awaited, Fits
    <3> QED
      BY <2>0, <2>2, <3>1, <3>2
  <2> QED
    BY <1>3, <2>1, <2>2 DEF LoadImage
<1>4. CASE InitPort(u)
  <2>1. /\ upc[u] = "init" /\ upc' = [upc EXCEPT ![u] = "hello"] /\ asked' = TRUE
        /\ UNCHANGED <<image_data, file, pos, size, blk, tries, heard>>
    BY <1>4 DEF InitPort
  <2>2. /\ updateio' \in 0 .. MaxObjects
        /\ handle' \in [Objects -> {"none", "open", "invalid"}]
    BY <1>4 DEF InitPort, Objects
  <2>3. upc' \in [Updaters -> UpdatePCs]
    BY <2>1 DEF UpdatePCs
  <2>4. OwnFits(u)'
    BY <1>0, <2>1 DEF OwnFits, NoFileYet, Sending, Loops, Awaited, Fits
  <2> QED
    BY <2>1, <2>2, <2>3, <2>4
<1> QED
  BY <1>1, <1>2, <1>3, <1>4

(* The dialogue: it moves on within the transfer or leaves it, and of the  *)
(* numbers it changes at most the tries, by Loop or by one less.           *)
LEMMA TalkTypes ==
  ASSUME UpdateTypeOK, ThreadFits, NEW u \in Updaters,
         NEW l \in UpdatePCs \ (NoFileYet \cup Sending \cup {"load"}), upc[u] \notin NoFileYet,
         upc' = [upc EXCEPT ![u] = l],
         tries' \in [Updaters -> 0 .. Tries], heard' \in [Updaters -> BOOLEAN],
         \A v \in Updaters \ {u} : tries'[v] = tries[v],
         l \in Loops \cup DOMAIN Awaited => tries'[u] > 0,
         UNCHANGED <<image_data, file, pos, size, blk>>
  PROVE  /\ upc' \in [Updaters -> UpdatePCs] /\ file' = file
         /\ OthersKeep(u) /\ OwnFits(u)'
<1>1. OwnFits(u)
  BY DEF ThreadFits
<1>2. upc' \in [Updaters -> UpdatePCs]
  BY DEF UpdateTypeOK
<1>3. upc'[u] = l /\ \A v \in Updaters \ {u} : upc'[v] = upc[v]
  BY DEF UpdateTypeOK
<1>4. OwnFits(u)'
  BY <1>1, <1>3 DEF OwnFits, Fits, Sending
<1> QED
  BY <1>2, <1>3, <1>4 DEF OthersKeep

(* A pass of a read loop uses up one of its tries.                         *)
LEMMA LoopTypes ==
  ASSUME UpdateTypeOK, NEW u \in Updaters, Loop(u)
  PROVE  /\ tries' \in [Updaters -> 0 .. Tries] /\ heard' \in [Updaters -> BOOLEAN]
         /\ tries'[u] > 0 /\ \A v \in Updaters \ {u} : tries'[v] = tries[v]
  BY UpdateAssumption DEF Loop, UpdateTypeOK

(* Sending a command, EOT or the last packet, and closing the port.        *)
LEMMA CommandTypes ==
  ASSUME UpdateTypeOK, ThreadFits, NEW u \in Updaters,
         SendCommand(u) \/ SendEot(u) \/ SendLast(u) \/ CloseUpdate(u)
  PROVE  UpdateTypeOK' /\ OthersKeep(u) /\ OwnFits(u)'
<1> DEFINE Talk(l) == /\ upc' = [upc EXCEPT ![u] = l]
                      /\ UNCHANGED <<image_data, asked, file, pos, size, blk>>
<1>1. CASE SendCommand(u)
  <2>1. UNCHANGED <<updateio, handle>>
    BY <1>1 DEF SendCommand, form1Vars
  <2>2. CASE Talk("close") /\ UNCHANGED loopVars
    <3>1. UpdateTypeOK /\ upc[u] \notin NoFileYet
      BY <1>1 DEF SendCommand, Commands, NoFileYet
    <3>2. OthersKeep(u) /\ OwnFits(u)' /\ upc' \in [Updaters -> UpdatePCs]
      BY <2>2, <3>1, TalkTypes
      DEF UpdateTypeOK, UpdatePCs, NoFileYet, Sending, Loops, Awaited, loopVars
    <3> QED
      BY <2>1, <2>2, <3>2 DEF UpdateTypeOK, loopVars
  <2>3. ASSUME NEW l \in {"listen", "listen2", "tail"}, Talk(l), Loop(u)
        PROVE  UpdateTypeOK' /\ OthersKeep(u) /\ OwnFits(u)'
    <3>1. upc[u] \notin NoFileYet
      BY <1>1 DEF SendCommand, Commands, NoFileYet
    <3>2. OthersKeep(u) /\ OwnFits(u)' /\ upc' \in [Updaters -> UpdatePCs]
      BY <2>3, <3>1, TalkTypes, LoopTypes DEF UpdatePCs, NoFileYet, Sending
    <3> QED
      BY <2>1, <2>3, <3>2, LoopTypes DEF UpdateTypeOK
  <2> QED
    BY <1>1, <2>2, <2>3 DEF SendCommand, Goto, Commands, Replies, form1Vars, sizeVars
<1>2. CASE SendEot(u) \/ SendLast(u)
  <2>1. UNCHANGED <<updateio, handle>> /\ Loop(u) /\ upc[u] \notin NoFileYet
    BY <1>2 DEF SendEot, SendLast, SendPacket, form1Vars, At, NoFileYet
  <2>2. PICK l \in {"acke", "ackl"} : Talk(l)
    BY <1>2 DEF SendEot, SendLast, SendPacket, Goto, form1Vars, sizeVars
  <2>3. OthersKeep(u) /\ OwnFits(u)' /\ upc' \in [Updaters -> UpdatePCs]
    BY <2>1, <2>2, TalkTypes, LoopTypes DEF UpdatePCs, NoFileYet, Sending
  <2> QED
    BY <2>1, <2>2, <2>3, LoopTypes DEF UpdateTypeOK
<1>3. CASE CloseUpdate(u)
  <2>1. UNCHANGED <<tries, heard>> /\ upc[u] \notin NoFileYet
    BY <1>3 DEF CloseUpdate, At, NoFileYet, loopVars
  <2>2. CASE Talk("free")
    <3>1. OthersKeep(u) /\ OwnFits(u)' /\ upc' \in [Updaters -> UpdatePCs]
      BY <2>1, <2>2, TalkTypes
      DEF UpdateTypeOK, UpdatePCs, NoFileYet, Sending, Loops, Awaited
    <3>2. /\ updateio' \in 0 .. MaxObjects
          /\ handle' \in [Objects -> {"none", "open", "invalid"}]
      BY <1>3, UpdateAssumption DEF CloseUpdate, UpdateTypeOK, Objects
    <3> QED
      BY <2>1, <2>2, <3>1, <3>2 DEF UpdateTypeOK
  <2>3. CASE Talk("idle") /\ updateio' = 0 /\ handle' = handle
    <3>1. upc' \in [Updaters -> UpdatePCs]
      BY <2>3 DEF UpdateTypeOK, UpdatePCs
    <3>2. OthersKeep(u)
      BY <2>1, <2>3 DEF UpdateTypeOK, OthersKeep
    <3>3. OwnFits(u)'
      BY <2>3 DEF UpdateTypeOK, OwnFits, NoFileYet, Sending, Loops, Awaited
    <3> QED
      BY <2>1, <2>3, <3>1, <3>2, <3>3, UpdateAssumption DEF UpdateTypeOK
  <2>4. UNCHANGED <<image_data, asked, file, pos, size, blk>>
    BY <1>3 DEF CloseUpdate, sizeVars
  <2>5. \/ upc' = [upc EXCEPT ![u] = "free"]
        \/ upc' = [upc EXCEPT ![u] = "idle"] /\ updateio' = 0 /\ handle' = handle
    BY <1>3 DEF CloseUpdate, Goto
  <2> QED
    BY <2>2, <2>3, <2>4, <2>5
<1> QED
  BY <1>1, <1>2, <1>3

(* What the loops of reads do to the tries.                                *)
LEMMA ListenTypes ==
  ASSUME UpdateTypeOK, ThreadFits, NEW u \in Updaters, Listen(u)
  PROVE  UpdateTypeOK' /\ OthersKeep(u) /\ OwnFits(u)'
<1>0. /\ upc[u] \in Loops /\ upc[u] \notin NoFileYet
      /\ UNCHANGED <<image_data, updateio, handle, asked, file, pos, size, blk>>
  BY DEF Listen, Loops, NoFileYet, form1Vars, sizeVars
<1>1. CASE updateio = 0
  <2>1. upc' = [upc EXCEPT ![u] = "close"] /\ UNCHANGED <<tries, heard>>
    BY <1>1 DEF Listen, Goto, loopVars
  <2>2. OthersKeep(u) /\ OwnFits(u)' /\ upc' \in [Updaters -> UpdatePCs]
    BY <1>0, <2>1, TalkTypes
    DEF UpdateTypeOK, UpdatePCs, NoFileYet, Sending, Loops, Awaited
  <2> QED
    BY <1>0, <2>1, <2>2 DEF UpdateTypeOK
<1>2. CASE updateio # 0
  <2>1. PICK any \in BOOLEAN :
          /\ heard' = [heard EXCEPT ![u] = any]
          /\ tries' = [tries EXCEPT ![u] = tries[u] - 1]
          /\ IF tries[u] - 1 > 0 THEN upc' = upc
                                 ELSE upc' = [upc EXCEPT ![u] = AfterLoop(upc[u], any)]
    BY <1>2 DEF Listen, Goto, UpdateTypeOK
  <2>2. tries[u] > 0 /\ tries[u] \in 0 .. Tries
    BY <1>0 DEF ThreadFits, OwnFits, UpdateTypeOK
  <2>3. /\ tries' \in [Updaters -> 0 .. Tries] /\ heard' \in [Updaters -> BOOLEAN]
        /\ tries'[u] = tries[u] - 1 /\ \A v \in Updaters \ {u} : tries'[v] = tries[v]
    <3>1. tries[u] - 1 \in 0 .. Tries
      BY <2>2, UpdateAssumption
    <3>2. tries \in [Updaters -> 0 .. Tries] /\ heard \in [Updaters -> BOOLEAN]
      BY DEF UpdateTypeOK
    <3>3. heard' \in [Updaters -> BOOLEAN]
      BY <2>1, <3>2
    <3> QED
      BY <2>1, <3>1, <3>2, <3>3
  <2>4. PICK l \in {"three", "close", "start", "header"} \cup {upc[u]} :
          /\ upc' = [upc EXCEPT ![u] = l]
          /\ tries[u] - 1 > 0 \/ l \in {"three", "close", "start", "header"}
    BY <2>1 DEF AfterLoop, UpdateTypeOK
  <2>5. OthersKeep(u) /\ OwnFits(u)' /\ upc' \in [Updaters -> UpdatePCs]
    <3>1. l \in UpdatePCs \ (NoFileYet \cup Sending \cup {"load"})
      BY <1>0, <2>4 DEF UpdatePCs, NoFileYet, Sending, Loops
    <3>2. l \in Loops \cup DOMAIN Awaited => tries'[u] > 0
      BY <2>2, <2>3, <2>4 DEF Loops, Awaited
    <3> QED
      BY <1>0, <2>3, <2>4, <3>1, <3>2, TalkTypes
  <2> QED
    BY <1>0, <2>3, <2>5 DEF UpdateTypeOK
<1> QED
  BY <1>1, <1>2

-----------------------------------------------------------------------------
(* Ymodem_Transmit.                                                        *)

(* Sending the header packet or a data packet.                             *)
LEMMA SendTypes ==
  ASSUME UpdateTypeOK, ThreadFits, NEW u \in Updaters, SendHeader(u) \/ SendData(u)
  PROVE  UpdateTypeOK' /\ OthersKeep(u) /\ OwnFits(u)'
<1> USE UpdateAssumption
<1>0. /\ OwnFits(u) /\ Loop(u) /\ upc[u] \in {"header", "data"}
      /\ UNCHANGED <<image_data, updateio, handle, asked, file>>
  BY DEF ThreadFits, SendHeader, SendData, SendPacket, form1Vars, At
<1>1. file[u] \in Images /\ ImageSize[file[u]] \in 0 .. FLASH_SIZE
  BY <1>0, Flash DEF OwnFits, Fits, NoFileYet
<1>2. PICK l \in {"ack0", "ackd"} :
        /\ upc' = [upc EXCEPT ![u] = l]
        /\ l = "ack0" => /\ pos' = [pos EXCEPT ![u] = 0]
                         /\ size' = [size EXCEPT ![u] = ImageSize[file[u]]]
                         /\ blk' = [blk EXCEPT ![u] = 1]
        /\ l = "ackd" => /\ upc[u] = "data" /\ UNCHANGED <<pos, size, blk>>
  BY DEF SendHeader, SendData, SendPacket, Goto, At, sizeVars
<1>3. /\ upc' \in [Updaters -> UpdatePCs] /\ upc'[u] = l
      /\ \A v \in Updaters \ {u} : upc'[v] = upc[v]
  BY <1>2 DEF UpdateTypeOK, UpdatePCs
<1>4. /\ pos' \in [Updaters -> 0 .. FLASH_SIZE] /\ size' \in [Updaters -> 0 .. FLASH_SIZE]
      /\ blk' \in [Updaters -> 0 .. FlashBlocks]
  <2>1. /\ pos \in [Updaters -> 0 .. FLASH_SIZE] /\ size \in [Updaters -> 0 .. FLASH_SIZE]
        /\ blk \in [Updaters -> 0 .. FlashBlocks]
    BY DEF UpdateTypeOK
  <2>2. 0 \in 0 .. FLASH_SIZE /\ 1 \in 0 .. FlashBlocks
    BY Flash
  <2>3. CASE l = "ack0"
    BY <1>1, <1>2, <2>1, <2>2, <2>3
  <2>4. CASE l = "ackd"
    BY <1>2, <2>1, <2>4
  <2> QED
    BY <2>3, <2>4
<1>5. /\ \A v \in Updaters \ {u} : pos'[v] = pos[v] /\ size'[v] = size[v]
      /\ pos'[u] + size'[u] = ImageSize[file[u]]
      /\ l = "ackd" => size'[u] > 0
  BY <1>0, <1>1, <1>2 DEF UpdateTypeOK, OwnFits, Sending
<1>6. OwnFits(u)'
  BY <1>0, <1>2, <1>3, <1>5, LoopTypes DEF OwnFits, NoFileYet, Fits
<1>7. OthersKeep(u)
  BY <1>0, <1>3, <1>5, LoopTypes DEF OthersKeep
<1> QED
  BY <1>0, <1>3, <1>4, <1>6, <1>7, LoopTypes DEF UpdateTypeOK

(* Ymodem_WaitForChar, after the byte it waits for and after another one.  *)
LEMMA MissTypes ==
  ASSUME UpdateTypeOK, ThreadFits, NEW u \in Updaters, upc[u] \in DOMAIN Awaited,
         Miss(u), UNCHANGED <<image_data, updateio, handle, asked, file>>
  PROVE  UpdateTypeOK' /\ OthersKeep(u) /\ OwnFits(u)'
<1>1. /\ OwnFits(u) /\ tries[u] \in 1 .. Tries
      /\ tries \in [Updaters -> 0 .. Tries] /\ upc \in [Updaters -> UpdatePCs]
  BY DEF ThreadFits, OwnFits, UpdateTypeOK
<1>2. /\ tries' = [tries EXCEPT ![u] = tries[u] - 1] /\ UNCHANGED <<heard, pos, size, blk>>
      /\ IF tries[u] = 1 THEN upc' = [upc EXCEPT ![u] = "three"] ELSE upc' = upc
  BY DEF Miss, Goto, sizeVars
<1>3. /\ tries' \in [Updaters -> 0 .. Tries] /\ tries'[u] = tries[u] - 1
      /\ \A v \in Updaters \ {u} : tries'[v] = tries[v]
  BY <1>1, <1>2, UpdateAssumption
<1>4. upc' \in [Updaters -> UpdatePCs] /\ \A v \in Updaters \ {u} : upc'[v] = upc[v]
  BY <1>1, <1>2 DEF UpdatePCs
<1>5. OwnFits(u)'
  <2>1. CASE tries[u] = 1
    <3>1. upc'[u] = "three"
      BY <1>1, <1>2, <2>1
    <3> QED
      BY <1>1, <3>1 DEF OwnFits, NoFileYet, Sending, Loops, Awaited, Fits
  <2>2. CASE tries[u] # 1
    BY <1>1, <1>2, <1>3, <2>2 DEF OwnFits, NoFileYet, Sending, Loops, Awaited, Fits
  <2> QED
    BY <2>1, <2>2
<1> QED
  BY <1>2, <1>3, <1>4, <1>5 DEF UpdateTypeOK, OthersKeep

(* After an acknowledged packet the buffer pointer stays in the image.     *)
LEMMA AdvanceTypes ==
  ASSUME UpdateTypeOK, ThreadFits, NEW u \in Updaters, At(u, "ackd"), Advance(u),
         UNCHANGED <<image_data, updateio, handle, asked, file, tries, heard>>
  PROVE  UpdateTypeOK' /\ OthersKeep(u) /\ OwnFits(u)'
<1> DEFINE pkt == PktSize(size[u])
<1>1. /\ OwnFits(u) /\ upc[u] = "ackd" /\ size[u] \in Nat /\ pos[u] \in Nat
      /\ upc \in [Updaters -> UpdatePCs] /\ blk \in [Updaters -> 0 .. FlashBlocks]
      /\ pos \in [Updaters -> 0 .. FLASH_SIZE] /\ size \in [Updaters -> 0 .. FLASH_SIZE]
  BY Flash DEF ThreadFits, UpdateTypeOK, At
<1>2. pkt \in Nat \ {0} /\ FLASH_SIZE \in Nat /\ FlashBlocks \in Nat
  BY <1>1, PacketSize, Flash, UpdateAssumption
<1>3. /\ file[u] \in Images /\ ImageSize[file[u]] \in 0 .. FLASH_SIZE
      /\ pos[u] + size[u] = ImageSize[file[u]]
  BY <1>1, Flash, UpdateAssumption DEF OwnFits, Fits, NoFileYet, Sending
<1> HIDE DEF pkt
<1>4. CASE size[u] > pkt
  <2>1. /\ size' = [size EXCEPT ![u] = size[u] - pkt] /\ pos' = [pos EXCEPT ![u] = pos[u] + pkt]
    BY <1>4 DEF Advance, pkt
  <2>2. /\ size[u] - pkt \in 0 .. FLASH_SIZE /\ pos[u] + pkt \in 0 .. FLASH_SIZE
        /\ (pos[u] + pkt) + (size[u] - pkt) = ImageSize[file[u]] /\ size[u] - pkt > 0
    BY <1>1, <1>2, <1>3, <1>4
  <2>3. PICK l \in {"three", "data"} :
          /\ upc' = [upc EXCEPT ![u] = l]
          /\ \/ blk' = blk
             \/ blk[u] # FlashBlocks /\ blk' = [blk EXCEPT ![u] = blk[u] + 1]
    <3>1. IF FlashFull(u)
          THEN upc' = [upc EXCEPT ![u] = "three"] /\ blk' = blk
          ELSE upc' = [upc EXCEPT ![u] = "data"] /\ blk' = [blk EXCEPT ![u] = blk[u] + 1]
      BY <1>4 DEF Advance, Goto, pkt
    <3>2. CASE FlashFull(u)
      BY <3>1, <3>2
    <3>3. CASE ~FlashFull(u)
      BY <3>1, <3>3 DEF FlashFull
    <3> QED
      BY <3>2, <3>3
  <2>4. /\ pos' \in [Updaters -> 0 .. FLASH_SIZE] /\ size' \in [Updaters -> 0 .. FLASH_SIZE]
        /\ pos'[u] = pos[u] + pkt /\ size'[u] = size[u] - pkt
        /\ \A v \in Updaters \ {u} : pos'[v] = pos[v] /\ size'[v] = size[v]
    BY <1>1, <2>1, <2>2
  <2>5. blk' \in [Updaters -> 0 .. FlashBlocks]
    <3>1. blk[u] # FlashBlocks => blk[u] + 1 \in 0 .. FlashBlocks
      BY <1>1, <1>2
    <3> QED
      BY <1>1, <2>3, <3>1
  <2>6. /\ upc' \in [Updaters -> UpdatePCs] /\ upc'[u] = l
        /\ \A v \in Updaters \ {u} : upc'[v] = upc[v]
    BY <1>1, <2>3 DEF UpdatePCs
  <2>7. OwnFits(u)'
    BY <1>1, <2>2, <2>4, <2>6 DEF OwnFits, NoFileYet, Sending, Loops, Awaited, Fits
  <2> QED
    BY <2>4, <2>5, <2>6, <2>7 DEF UpdateTypeOK, OthersKeep
<1>5. CASE ~(size[u] > pkt)
  <2>1. /\ size' = [size EXCEPT ![u] = 0] /\ upc' = [upc EXCEPT ![u] = "eot"]
        /\ UNCHANGED <<pos, blk>>
    BY <1>5 DEF Advance, Goto, pkt
  <2>2. /\ size' \in [Updaters -> 0 .. FLASH_SIZE] /\ upc' \in [Updaters -> UpdatePCs]
        /\ upc'[u] = "eot"
        /\ \A v \in Updaters \ {u} : upc'[v] = upc[v] /\ size'[v] = size[v]
    BY <1>1, <1>2, <2>1 DEF UpdatePCs
  <2>3. OwnFits(u)'
    BY <1>1, <2>1, <2>2 DEF OwnFits, NoFileYet, Sending, Loops, Awaited, Fits
  <2> QED
    BY <2>1, <2>2, <2>3 DEF UpdateTypeOK, OthersKeep
<1> QED
  BY <1>4, <1>5

(* What an acknowledgement leads to.                                       *)
LEMMA ProceedTypes ==
  ASSUME UpdateTypeOK, ThreadFits, NEW u \in Updaters, Proceed(u),
         UNCHANGED <<image_data, updateio, handle, asked, file>>
  PROVE  UpdateTypeOK' /\ OthersKeep(u) /\ OwnFits(u)'
<1>0. OwnFits(u)
  BY DEF ThreadFits
<1>1. CASE At(u, "ackd") /\ Advance(u) /\ UNCHANGED loopVars
  BY <1>1, AdvanceTypes DEF loopVars
<1>2. ASSUME NEW l \in {"drain", "last", "eot"}, upc' = [upc EXCEPT ![u] = l],
             Loop(u) \/ (UNCHANGED loopVars /\ l # "drain"), UNCHANGED sizeVars,
             upc[u] \notin NoFileYet
      PROVE  UpdateTypeOK' /\ OthersKeep(u) /\ OwnFits(u)'
  <2>1. /\ tries' \in [Updaters -> 0 .. Tries] /\ heard' \in [Updaters -> BOOLEAN]
        /\ \A v \in Updaters \ {u} : tries'[v] = tries[v]
        /\ l \in Loops \cup DOMAIN Awaited => tries'[u] > 0
    BY <1>2, LoopTypes DEF loopVars, UpdateTypeOK, Loops, Awaited
  <2>2. l \in UpdatePCs \ (NoFileYet \cup Sending \cup {"load"})
    BY DEF UpdatePCs, NoFileYet, Sending
  <2>3. upc' \in [Updaters -> UpdatePCs] /\ OthersKeep(u) /\ OwnFits(u)'
    BY <1>2, <2>1, <2>2, TalkTypes DEF sizeVars
  <2> QED
    BY <1>2, <2>1, <2>3 DEF UpdateTypeOK, sizeVars
<1>3. ASSUME NEW l \in {"c0", "data"}, upc[u] \in Sending, upc' = [upc EXCEPT ![u] = l],
             UNCHANGED sizeVars, l = "c0" => Loop(u),
             l = "data" => size[u] # 0 /\ UNCHANGED loopVars
      PROVE  UpdateTypeOK' /\ OthersKeep(u) /\ OwnFits(u)'
  <2>1. /\ tries' \in [Updaters -> 0 .. Tries] /\ heard' \in [Updaters -> BOOLEAN]
        /\ \A v \in Updaters \ {u} : tries'[v] = tries[v]
        /\ l = "c0" => tries'[u] > 0
    BY <1>3, LoopTypes DEF loopVars, UpdateTypeOK
  <2>2. /\ upc' \in [Updaters -> UpdatePCs] /\ upc'[u] = l
        /\ \A v \in Updaters \ {u} : upc'[v] = upc[v]
    BY <1>3 DEF UpdateTypeOK, UpdatePCs
  <2>3. OthersKeep(u)
    BY <1>3, <2>1, <2>2 DEF OthersKeep, sizeVars
  <2>4. size[u] \in Nat
    BY Flash DEF UpdateTypeOK
  <2>5. OwnFits(u)'
    BY <1>0, <1>3, <2>1, <2>2, <2>4
    DEF OwnFits, NoFileYet, Sending, Loops, Awaited, Fits, sizeVars
  <2> QED
    BY <1>3, <2>1, <2>2, <2>3, <2>5 DEF UpdateTypeOK, sizeVars
<1> QED
  BY <1>1, <1>2, <1>3 DEF Proceed, At, Goto, NoFileYet, Sending

(* A pass of WaitForChar, whatever it reads.                               *)
LEMMA WaitTypes ==
  ASSUME UpdateTypeOK, ThreadFits, NEW u \in Updaters, WaitForChar(u)
  PROVE  UpdateTypeOK' /\ OthersKeep(u) /\ OwnFits(u)'
<1>1. upc[u] \in DOMAIN Awaited /\ UNCHANGED <<image_data, updateio, handle, asked, file>>
  BY DEF WaitForChar, form1Vars
<1>2. Proceed(u) \/ Miss(u)
  BY DEF WaitForChar
<1> QED
  BY <1>1, <1>2, ProceedTypes, MissTypes

(* Every action keeps the types, for any number of update threads.         *)
LEMMA TypesNext ==
  UpdateTypeOK /\ ThreadFits /\ [UpdateNext]_allVars => (UpdateTypeOK /\ ThreadFits)'
<1> SUFFICES ASSUME UpdateTypeOK, ThreadFits, [UpdateNext]_allVars
             PROVE  (UpdateTypeOK /\ ThreadFits)'
  OBVIOUS
<1>1. ASSUME NEW u \in Updaters, UpdateStep(u) \/ ClickUpdate(u)
      PROVE  (UpdateTypeOK /\ ThreadFits)'
  <2>1. UpdateTypeOK' /\ OthersKeep(u) /\ OwnFits(u)'
    BY <1>1, LoadTypes, CommandTypes, ListenTypes, SendTypes, WaitTypes DEF UpdateStep
  <2> QED
    BY <2>1, OthersFit
<1>2. CASE UNCHANGED updateVars
  BY <1>2 DEF updateVars, form1Vars, threadVars, sizeVars, loopVars, UpdateTypeOK,
              ThreadFits, OwnFits, Fits
<1> QED
  BY <1>1, <1>2 DEF UpdateNext, allVars

(* The indices into the image and the flash, the packet count and the      *)
(* tries stay in their bounds, with any number of threads side by side.    *)
THEOREM UpdateTypes == UpdateSpec => []UpdateTypeOK
<1>1. UpdateTypeOK /\ ThreadFits /\ [UpdateNext]_allVars => (UpdateTypeOK /\ ThreadFits)'
  BY TypesNext
<1> QED
  BY <1>1, ThreadInit, PTL DEF UpdateSpec

-----------------------------------------------------------------------------
(* The port and the image, with one thread.                                *)

Talk(u) == \/ SendCommand(u) \/ Listen(u) \/ SendHeader(u) \/ SendData(u)
           \/ SendEot(u) \/ SendLast(u) \/ WaitForChar(u)

(* While it talks to the watch, the thread keeps the port and its image.   *)
LEMMA TalkKeeps ==
  ASSUME TypesFit, NEW u \in Updaters, Talk(u)
  PROVE  /\ upc[u] \notin Before \cup {"free"} /\ upc'[u] \notin Before \cup {"free"}
         /\ UNCHANGED <<image_data, updateio, handle, asked, file, linkUp, mode, fileVars>>
<1> USE DEF Before, UpdateTypeOK, TypesFit, Goto, form1Vars
<1>1. CASE SendCommand(u)
  BY <1>1 DEF SendCommand, Commands, Replies
<1>2. CASE Listen(u)
  BY <1>2 DEF Listen, Loops, AfterLoop
<1>3. CASE SendHeader(u) \/ SendData(u) \/ SendEot(u) \/ SendLast(u)
  BY <1>3 DEF SendHeader, SendData, SendEot, SendLast, SendPacket, At
<1>4. CASE WaitForChar(u)
  <2>1. Proceed(u) \/ Miss(u)
    BY <1>4 DEF WaitForChar
  <2>2. upc[u] \in {"ack0", "c0", "ackd", "acke", "ackl"}
    BY <1>4 DEF WaitForChar, Awaited
  <2>3. upc'[u] \notin Before \cup {"free"}
    BY <2>1, <2>2 DEF Proceed, Miss, Advance, At
  <2> QED
    BY <1>4, <2>2, <2>3 DEF WaitForChar
<1> QED
  BY <1>1, <1>2, <1>3, <1>4 DEF Talk

(* The watch and the line leave the program alone, and without a message   *)
(* and a menu they do nothing.                                             *)
LEMMA WatchKeeps ==
  ASSUME TypesFit, (Loader \/ LineStep) /\ UNCHANGED updateVars
  PROVE  /\ UNCHANGED <<image_data, updateio, handle, asked, upc, file, pos, size, blk,
                        tries, heard>>
         /\ toWatch = <<>> /\ fromWatch = <<>> /\ mode = "off"
              => UNCHANGED <<toWatch, fromWatch, mode>>
<1>1. UNCHANGED <<image_data, updateio, handle, asked, upc, file, pos, size, blk, tries, heard>>
  BY DEF updateVars, form1Vars, threadVars, sizeVars, loopVars
<1>2. ASSUME toWatch = <<>>, fromWatch = <<>>, mode = "off"
      PROVE  UNCHANGED <<toWatch, fromWatch, mode>>
  BY <1>2 DEF Loader, LineStep, LoaderCommand, LoaderHeader, LoaderData, LoaderEot,
     LoaderEnd, LoaderIgnore, LoaderPoll, Arrives, Damage, Unplug
<1> QED
  BY <1>1, <1>2

(* At the start the port is closed and no image is loaded.                 *)
LEMMA PortInit ==
  ASSUME UpdateInit, NEW u, Updaters = {u} PROVE PortFits(u) /\ Fresh /\ Loaded(u)
  BY DEF UpdateInit, LoaderInit, PortFits, Fresh, Loaded, Before, NoFileYet

(* updateio is set exactly while the thread is between open and close.     *)
LEMMA PortNext ==
  ASSUME NEW u, Updaters = {u}, TypesFit, PortFits(u), Fresh, [UpdateNext]_allVars
  PROVE  PortFits(u)' /\ Fresh'
<1> USE DEF TypesFit, UpdateTypeOK, At, Goto, Objects
<1>1. CASE Talk(u)
  <2>1. asked
    BY <1>1, TalkKeeps DEF PortFits
  <2> QED
    BY <1>1, <2>1, TalkKeeps DEF PortFits, Fresh
<1>2. CASE ClickUpdate(u) \/ OpenImage(u) \/ LoadImage(u)
  <2>1. /\ UNCHANGED <<updateio, handle, asked, toWatch, fromWatch, mode>>
        /\ upc[u] \in Before /\ upc'[u] \in Before
    BY <1>2 DEF ClickUpdate, OpenImage, LoadImage, Before, form1Vars, loaderVars, lineVars
  <2> QED
    BY <2>1 DEF PortFits, Fresh, Before
<1>3. CASE InitPort(u)
  <2>1. /\ upc[u] = "init" /\ upc'[u] = "hello" /\ asked' = TRUE
        /\ \A o \in Objects : handle[o] = "none"
    BY <1>3 DEF InitPort, PortFits, Before
  <2>2. PICK o \in Objects, h \in {"invalid", "open"} :
          updateio' = o /\ handle' = [handle EXCEPT ![o] = h]
    BY <1>3 DEF InitPort
  <2> QED
    BY <2>1, <2>2 DEF PortFits, Fresh, Before
<1>4. CASE CloseUpdate(u)
  <2>1. CASE /\ upc[u] = "close" /\ upc'[u] = "free" /\ updateio' = updateio
             /\ updateio # 0 => handle' = [handle EXCEPT ![updateio] = "none"]
    <3>1. updateio # 0 /\ asked /\ asked' = asked
      BY <1>4, <2>1 DEF PortFits, Before, CloseUpdate
    <3>2. \A o \in Objects : handle'[o] = "none"
      BY <2>1, <3>1 DEF PortFits
    <3> QED
      BY <2>1, <3>1, <3>2 DEF PortFits, Fresh, Before
  <2>2. CASE upc[u] = "free" /\ upc'[u] = "idle" /\ updateio' = 0 /\ handle' = handle
    BY <1>4, <2>2 DEF PortFits, Fresh, Before, CloseUpdate
  <2> QED
    BY <1>4, <2>1, <2>2 DEF CloseUpdate
<1>5. CASE (Loader \/ LineStep) /\ UNCHANGED updateVars
  BY <1>5, WatchKeeps DEF PortFits, Fresh
<1>6. CASE UNCHANGED allVars
  BY <1>6 DEF allVars, updateVars, loaderVars, lineVars, form1Vars, threadVars, PortFits, Fresh
<1> QED
  BY <1>1, <1>2, <1>3, <1>4, <1>5, <1>6 DEF UpdateNext, UpdateStep, Talk

(* Image_data holds what the thread has read of its file so far.           *)
LEMMA LoadedNext ==
  ASSUME NEW u, Updaters = {u}, TypesFit, PortFits(u), Loaded(u), [UpdateNext]_allVars
  PROVE  Loaded(u)'
<1> USE DEF TypesFit, UpdateTypeOK, At, Goto, Objects, NoFileYet
<1>0. ThreadFits /\ OwnFits(u)
  BY DEF ThreadFits
<1>1. CASE Talk(u)
  BY <1>1, TalkKeeps DEF Loaded, Before
<1>2. CASE ClickUpdate(u) \/ OpenImage(u)
  <2>1. upc'[u] \in NoFileYet \/ (upc'[u] = "load" /\ pos'[u] = 0)
    <3>1. CASE ClickUpdate(u)
      BY <3>1 DEF ClickUpdate
    <3>2. CASE OpenImage(u)
      <4>1. \/ upc' = [upc EXCEPT ![u] = "idle"]
            \/ pos' = [pos EXCEPT ![u] = 0] /\ upc' = [upc EXCEPT ![u] = "load"]
        BY <3>2 DEF OpenImage
      <4> QED
        BY <4>1
    <3> QED
      BY <1>2, <3>1, <3>2
  <2> QED
    BY <2>1 DEF Loaded
<1>3. CASE LoadImage(u)
  <2>0. /\ upc[u] = "load" /\ file' = file /\ file[u] \in Images
        /\ ImageSize[file[u]] \in 0 .. FLASH_SIZE /\ pos[u] \in Nat
        /\ \A k \in 1 .. pos[u] : image_data[k] = <<file[u], k>>
    BY <1>0, <1>3, Flash, UpdateAssumption DEF LoadImage, Loaded, OwnFits, Fits
  <2>1. ASSUME NEW n \in {ShortRead, ImageSize[file[u]] - pos[u]},
               pos[u] + n <= ImageSize[file[u]], pos[u] < ImageSize[file[u]],
               image_data' = [k \in 1 .. FLASH_SIZE |->
                                IF k \in pos[u] + 1 .. pos[u] + n
                                THEN <<file[u], k>> ELSE image_data[k]],
               pos' = [pos EXCEPT ![u] = @ + n], upc' = upc
        PROVE  Loaded(u)'
    <3>1. n \in Nat /\ pos[u] + n \in 0 .. FLASH_SIZE /\ FLASH_SIZE \in Nat
      BY <2>0, <2>1, UpdateAssumption, Flash
    <3>2. pos'[u] = pos[u] + n /\ upc'[u] = "load"
      BY <2>0, <2>1
    <3>3. ASSUME NEW k \in 1 .. pos[u] + n PROVE image_data'[k] = <<file[u], k>>
      <4>1. k \in 1 .. FLASH_SIZE /\ (k \in 1 .. pos[u] \/ k \in pos[u] + 1 .. pos[u] + n)
        BY <2>0, <3>1
      <4> QED
        BY <2>0, <2>1, <4>1
    <3> QED
      BY <2>0, <3>2, <3>3 DEF Loaded
  <2>2. CASE upc' = [upc EXCEPT ![u] = "init"] /\ pos[u] = ImageSize[file[u]] /\ image_data' = image_data
    BY <2>0, <2>2 DEF Loaded
  <2>3. CASE upc' = [upc EXCEPT ![u] = "idle"]
    BY <2>3 DEF Loaded
  <2> QED
    BY <1>3, <2>1, <2>2, <2>3 DEF LoadImage
<1>4. CASE InitPort(u) \/ CloseUpdate(u)
  <2>1. /\ UNCHANGED <<image_data, file>>
        /\ upc[u] \notin NoFileYet \cup {"load"} /\ upc'[u] # "load"
    BY <1>4 DEF InitPort, CloseUpdate
  <2> QED
    BY <2>1 DEF Loaded
<1>5. CASE UNCHANGED updateVars
  BY <1>5 DEF updateVars, threadVars, sizeVars, Loaded
<1> QED
  BY <1>1, <1>2, <1>3, <1>4, <1>5 DEF UpdateNext, UpdateStep, Talk, allVars

-----------------------------------------------------------------------------
(* What is sent, and the types of the line and the watch.                  *)

(* What the boot loader answers.                                           *)
LEMMA CharSeqs ==
  /\ <<"text">> \in Seq(Chars) /\ <<"ACK", "C">> \in Seq(Chars)
  /\ <<"ACK">> \in Seq(Chars) /\ <<"NAK">> \in Seq(Chars)
  /\ <<"ACK", "text">> \in Seq(Chars) /\ <<"C">> \in Seq(Chars)
<1>1. "text" \in Chars /\ "ACK" \in Chars /\ "NAK" \in Chars /\ "C" \in Chars
  BY DEF Chars
<1> QED
  BY <1>1

(* A packet of the transfer: the bytes at pos, and padding.                *)
LEMMA PacketOf ==
  ASSUME TypesFit, NEW u \in Updaters, upc[u] \in {"data", "ackd"}
  PROVE  LET bytes == PreparePacket(pos[u], size[u]) IN
         /\ bytes \in Seq(Byte) /\ Len(bytes) = PktSize(size[u])
         /\ \A k \in 1 .. Len(bytes) :
              k <= size[u] => pos[u] + k \in 1 .. ImageSize[file[u]]
                              /\ bytes[k] = image_data[pos[u] + k]
<1> DEFINE n == PktSize(size[u])
           bytes == PreparePacket(pos[u], size[u])
<1>1. /\ size[u] \in Nat /\ pos[u] \in Nat /\ FLASH_SIZE \in Nat /\ NoImage \in Byte
      /\ image_data \in [1 .. FLASH_SIZE -> Byte]
  BY Flash DEF TypesFit, UpdateTypeOK, Byte
<1>2. /\ pos[u] + size[u] = ImageSize[file[u]] /\ ImageSize[file[u]] <= FLASH_SIZE
      /\ ImageSize[file[u]] \in Nat
  BY UpdateAssumption DEF TypesFit, ThreadFits, OwnFits, Sending, Fits, NoFileYet
<1>3. n \in Nat
  BY <1>1, PacketSize
<1> HIDE DEF n
<1>4. bytes = [k \in 1 .. n |-> IF k <= size[u] THEN image_data[pos[u] + k] ELSE NoImage]
  BY DEF PreparePacket, n
<1>5. \A k \in 1 .. n : k <= size[u] => pos[u] + k \in 1 .. ImageSize[file[u]]
  BY <1>1, <1>2, <1>3
<1>6. \A k \in 1 .. n : k <= size[u] => image_data[pos[u] + k] \in Byte
  BY <1>1, <1>2, <1>5
<1>7. bytes \in [1 .. n -> Byte]
  BY <1>1, <1>4, <1>6
<1> HIDE DEF bytes
<1>8. bytes \in Seq(Byte) /\ Len(bytes) = n
  BY <1>3, <1>7
<1>9. \A k \in 1 .. n : k <= size[u] => bytes[k] = image_data[pos[u] + k]
  BY <1>4
<1> QED
  BY <1>5, <1>8, <1>9 DEF bytes, n

(* The thread sends one message at a time, or none.                        *)
LEMMA SentTypes ==
  ASSUME TypesFit, NEW u \in Updaters, Talk(u)
  PROVE  \E m \in Message : toWatch' \in {toWatch, Append(toWatch, m)}
<1> USE DEF Message, Kinds, Msg, Plain
<1>1. 0 \in Nat /\ <<>> \in Seq(Byte)
  OBVIOUS
<1>2. Plain("eot") \in Message
  BY <1>1
<1>3. CASE SendCommand(u)
  <2>1. PICK kind \in Kinds : toWatch' \in {toWatch, Append(toWatch, Plain(kind))}
    BY <1>3 DEF SendCommand, Commands, WriteCom
  <2>2. Plain(kind) \in Message
    BY <1>1
  <2> QED
    BY <2>1, <2>2
<1>4. CASE Listen(u) \/ WaitForChar(u)
  BY <1>2, <1>4 DEF Listen, WaitForChar
<1>5. CASE SendHeader(u)
  <2>1. ImageSize[file[u]] \in Nat
    BY <1>5, UpdateAssumption DEF SendHeader, TypesFit, ThreadFits, OwnFits, NoFileYet, At
  <2>2. Msg("header", ImageSize[file[u]], <<>>) \in Message
    BY <1>1, <2>1
  <2> QED
    BY <1>5, <2>2 DEF SendHeader, SendPacket, WriteCom
<1>6. CASE SendData(u)
  <2>1. blk[u] % SeqMod \in Nat
    BY LoaderAssumption, UpdateAssumption DEF TypesFit, UpdateTypeOK
  <2>2. PreparePacket(pos[u], size[u]) \in Seq(Byte)
    BY <1>6, PacketOf DEF SendData, At
  <2>3. Msg("data", blk[u] % SeqMod, PreparePacket(pos[u], size[u])) \in Message
    BY <2>1, <2>2
  <2> QED
    BY <1>6, <2>3 DEF SendData, SendPacket, WriteCom
<1>7. CASE SendEot(u)
  BY <1>2, <1>7 DEF SendEot, WriteCom
<1>8. CASE SendLast(u)
  <2>1. Plain("end") \in Message
    BY <1>1
  <2> QED
    BY <1>8, <2>1 DEF SendLast, SendPacket, WriteCom
<1> QED
  BY <1>3, <1>4, <1>5, <1>6, <1>7, <1>8 DEF Talk

(* What a program step leaves of the answers is what it has not read.      *)
LEMMA HeardTypes ==
  ASSUME NEW u \in Updaters, UpdateStep(u) \/ ClickUpdate(u)
  PROVE  fromWatch' \in {fromWatch, <<>>} \/ (fromWatch # <<>> /\ fromWatch' = Tail(fromWatch))
<1>1. CASE Listen(u) \/ WaitForChar(u) \/ CloseUpdate(u)
  BY <1>1 DEF Listen, WaitForChar, CloseUpdate
<1> QED
  BY <1>1 DEF UpdateStep, ClickUpdate, OpenImage, LoadImage, InitPort, SendCommand,
     SendHeader, SendData, SendEot, SendLast, SendPacket, loaderVars, lineVars

(* Types of the watch and the line: at the start, what is sent to it,      *)
(* what it answers, what it takes off the line, and every step.            *)
LEMMA LoaderInitTypes == LoaderInit => LoaderTypeOK
  BY DEF LoaderInit, LoaderTypeOK

LEMMA ToWatchTypes ==
  ASSUME TypesFit, [UpdateNext]_allVars PROVE toWatch' \in Seq(Message)
<1>1. toWatch \in Seq(Message)
  BY DEF TypesFit, LoaderTypeOK
<1>2. CASE toWatch' = toWatch
  BY <1>1, <1>2
<1>3. CASE toWatch # <<>> /\ toWatch' = Tail(toWatch)
  BY <1>1, <1>3, HeadTailProperties
<1>4. ASSUME NEW m \in Message, toWatch' = Append(toWatch, m) PROVE toWatch' \in Seq(Message)
  BY <1>1, <1>4
<1>5. ASSUME NEW u \in Updaters, Talk(u) PROVE toWatch' \in Seq(Message)
  <2>1. PICK m \in Message : toWatch' \in {toWatch, Append(toWatch, m)}
    BY <1>5, SentTypes
  <2> QED
    BY <1>2, <1>4, <2>1
<1>6. ASSUME NEW u \in Updaters,
             ClickUpdate(u) \/ OpenImage(u) \/ LoadImage(u) \/ InitPort(u) \/ CloseUpdate(u)
      PROVE  toWatch' = toWatch
  BY <1>6 DEF ClickUpdate, OpenImage, LoadImage, InitPort, CloseUpdate, loaderVars, lineVars
<1>7. CASE Loader
  BY <1>2, <1>3, <1>7 DEF Loader, LoaderCommand, LoaderHeader, LoaderData, LoaderEot,
     LoaderEnd, LoaderIgnore, LoaderPoll, Arrives, Taken
<1>8. CASE LineStep
  BY <1>2, <1>3, <1>8 DEF LineStep, Damage, Unplug, Arrives, Taken
<1>9. CASE UNCHANGED allVars
  BY <1>2, <1>9 DEF allVars, loaderVars, lineVars
<1> QED
  BY <1>2, <1>5, <1>6, <1>7, <1>8, <1>9 DEF UpdateNext, UpdateStep, Talk

LEMMA FromWatchTypes ==
  ASSUME TypesFit, [UpdateNext]_allVars PROVE fromWatch' \in Seq(Chars)
<1>1. fromWatch \in Seq(Chars)
  BY DEF TypesFit, LoaderTypeOK
<1>2. CASE fromWatch' \in {fromWatch, <<>>}
  <2>1. <<>> \in Seq(Chars)
    BY EmptySeq
  <2> QED
    BY <1>1, <1>2, <2>1
<1>3. CASE fromWatch # <<>> /\ fromWatch' = Tail(fromWatch)
  BY <1>1, <1>3, HeadTailProperties
<1>4. ASSUME NEW s \in Seq(Chars), fromWatch' = fromWatch \o s PROVE fromWatch' \in Seq(Chars)
  BY <1>1, <1>4, ConcatProperties
<1>5. ASSUME NEW u \in Updaters, UpdateStep(u) \/ ClickUpdate(u) PROVE fromWatch' \in Seq(Chars)
  <2>1. fromWatch' \in {fromWatch, <<>>} \/ (fromWatch # <<>> /\ fromWatch' = Tail(fromWatch))
    BY <1>5, HeardTypes
  <2> QED
    BY <1>2, <1>3, <2>1
<1>6. CASE Loader
  <2>1. fromWatch' = fromWatch
          \/ \E s \in {<<"text">>, <<"ACK", "C">>, <<"ACK">>, <<"NAK">>, <<"ACK", "text">>, <<"C">>} :
               fromWatch' = fromWatch \o s
    BY <1>6 DEF Loader, LoaderCommand, LoaderHeader, LoaderData, LoaderEot,
       LoaderEnd, LoaderIgnore, LoaderPoll, Answer
  <2> QED
    BY <1>2, <1>4, <2>1, CharSeqs
<1>7. CASE LineStep
  BY <1>2, <1>3, <1>4, <1>7, CharSeqs DEF LineStep, Damage, Unplug, Answer
<1>8. CASE UNCHANGED allVars
  BY <1>2, <1>8 DEF allVars, loaderVars, lineVars
<1> QED
  BY <1>5, <1>6, <1>7, <1>8 DEF UpdateNext

LEMMA HeadTypes ==
  ASSUME TypesFit, toWatch # <<>>
  PROVE  Head(toWatch).n \in Nat /\ Head(toWatch).bytes \in Seq(Byte)
<1>1. Head(toWatch) \in Message
  BY HeadTailProperties DEF TypesFit, LoaderTypeOK
<1> QED
  BY <1>1 DEF Message

LEMMA LoaderTypesNext ==
  ASSUME TypesFit, [UpdateNext]_allVars PROVE LoaderTypeOK'
<1>1. /\ announced \in Nat /\ got \in Seq(Byte)
      /\ installed \in Seq(Seq(Byte \cup {<<>>}))
  BY DEF TypesFit, LoaderTypeOK
<1>2. SUFFICES /\ announced' \in Nat /\ got' \in Seq(Byte)
               /\ installed' \in Seq(Seq(Byte \cup {<<>>}))
  BY <1>2, ToWatchTypes, FromWatchTypes DEF LoaderTypeOK
<1>3. ASSUME NEW u \in Updaters, UpdateStep(u) \/ ClickUpdate(u) PROVE UNCHANGED fileVars
  <2>1. CASE Talk(u)
    BY <2>1, TalkKeeps
  <2> QED
    BY <1>3, <2>1 DEF UpdateStep, Talk, ClickUpdate, OpenImage, LoadImage, InitPort,
       CloseUpdate, loaderVars
<1>4. CASE LoaderHeader
  BY <1>1, <1>4, HeadTypes DEF LoaderHeader, Arrives
<1>5. CASE LoaderData
  <2>1. got \o Head(toWatch).bytes \in Seq(Byte)
    BY <1>1, <1>5, HeadTypes, ConcatProperties DEF LoaderData, Arrives
  <2>2. got' \in {got, got \o Head(toWatch).bytes} /\ UNCHANGED <<announced, installed>>
    BY <1>5 DEF LoaderData
  <2> QED
    BY <1>1, <2>1, <2>2
<1>6. CASE LoaderEnd
  <2> DEFINE image == [k \in 1 .. announced |-> IF k <= Len(got) THEN got[k] ELSE <<>>]
  <2>1. \A k \in 1 .. announced : k <= Len(got) => got[k] \in Byte
    BY <1>1
  <2>2. image \in [1 .. announced -> Byte \cup {<<>>}]
    BY <2>1
  <2> HIDE DEF image
  <2>3. image \in Seq(Byte \cup {<<>>})
    BY <1>1, <2>2
  <2>4. installed' = Append(installed, image) /\ announced' = announced /\ got' = got
    BY <1>6 DEF LoaderEnd, image
  <2> QED
    BY <1>1, <2>3, <2>4
<1>7. CASE UNCHANGED fileVars
  BY <1>1, <1>7 DEF fileVars
<1>8. CASE Loader \/ LineStep
  BY <1>4, <1>5, <1>6, <1>7, <1>8
  DEF Loader, LoaderCommand, LoaderEot, LoaderIgnore, LoaderPoll, LineStep, Damage, Unplug
<1> QED
  BY <1>3, <1>7, <1>8 DEF UpdateNext, allVars, loaderVars

-----------------------------------------------------------------------------
(* Answers on the line.                                                    *)

(* Acknowledgements that are on their way: reading and answering.          *)
LEMMA HeadIsNoAck ==
  ASSUME NEW s \in Seq(Chars), s # <<>>, NoAckIn(s) PROVE Head(s) # "ACK"
  BY DEF NoAckIn

LEMMA TailAcks ==
  ASSUME NEW s \in Seq(Chars), s # <<>>
  PROVE  /\ NoAckIn(s) => NoAckIn(Tail(s))
         /\ OneAckIn(s) => OneAckIn(Tail(s))
         /\ OneAckIn(s) /\ Head(s) = "ACK" => NoAckIn(Tail(s))
<1> DEFINE t == Tail(s)
<1>1. /\ t \in Seq(Chars) /\ DOMAIN t = 1 .. Len(t) /\ Len(t) = Len(s) - 1
      /\ DOMAIN s = 1 .. Len(s) /\ Len(s) \in Nat \ {0} /\ Head(s) = s[1]
      /\ \A i \in 1 .. Len(t) : t[i] = s[i + 1]
  BY HeadTailProperties, LenProperties
<1> HIDE DEF t
<1>2. \A i \in DOMAIN t : i \in Nat \ {0} /\ i + 1 \in DOMAIN s /\ t[i] = s[i + 1] /\ i + 1 # 1
  BY <1>1
<1>3. NoAckIn(s) => NoAckIn(t)
  BY <1>2 DEF NoAckIn
<1>4. ASSUME OneAckIn(s) PROVE OneAckIn(t)
  <2>1. ASSUME NEW i \in DOMAIN t, NEW j \in DOMAIN t, t[i] = "ACK", t[j] = "ACK" PROVE i = j
    <3>1. i + 1 = j + 1
      BY <1>2, <1>4, <2>1 DEF OneAckIn
    <3> QED
      BY <1>2, <3>1
  <2> QED
    BY <2>1 DEF OneAckIn
<1>5. ASSUME OneAckIn(s), Head(s) = "ACK" PROVE NoAckIn(t)
  BY <1>1, <1>2, <1>5 DEF OneAckIn, NoAckIn
<1> QED
  BY <1>3, <1>4, <1>5 DEF t

LEMMA AnswerAcks ==
  ASSUME NEW s \in Seq(Chars), NoAckIn(s)
  PROVE  /\ OneAckIn(s) /\ NoAckIn(<<>>)
         /\ \A c \in {"C", "NAK", "text"} : NoAckIn(s \o <<c>>)
         /\ OneAckIn(s \o <<"ACK">>)
         /\ \A c \in {"C", "text"} : OneAckIn(s \o <<"ACK", c>>)
<1>1. OneAckIn(s) /\ NoAckIn(<<>>)
  BY DEF NoAckIn, OneAckIn
<1>2. DOMAIN s = 1 .. Len(s) /\ Len(s) \in Nat /\ \A i \in 1 .. Len(s) : s[i] # "ACK"
  BY LenProperties DEF NoAckIn
<1>3. ASSUME NEW c \in {"C", "NAK", "text", "ACK"}
      PROVE  /\ DOMAIN (s \o <<c>>) = 1 .. Len(s) + 1
             /\ \A i \in 1 .. Len(s) + 1 : (s \o <<c>>)[i] = IF i <= Len(s) THEN s[i] ELSE c
  BY <1>2
<1>4. ASSUME NEW c \in {"C", "text"}
      PROVE  /\ DOMAIN (s \o <<"ACK", c>>) = 1 .. Len(s) + 2
             /\ \A i \in 1 .. Len(s) + 2 : (s \o <<"ACK", c>>)[i] =
                  IF i <= Len(s) THEN s[i] ELSE IF i = Len(s) + 1 THEN "ACK" ELSE c
  BY <1>2
<1>5. ASSUME NEW c \in {"C", "NAK", "text"} PROVE NoAckIn(s \o <<c>>)
  BY <1>2, <1>3 DEF NoAckIn
<1>6. OneAckIn(s \o <<"ACK">>)
  <2>1. \A i \in DOMAIN (s \o <<"ACK">>) : (s \o <<"ACK">>)[i] = "ACK" => i = Len(s) + 1
    BY <1>2, <1>3
  <2> QED
    BY <2>1 DEF OneAckIn
<1>7. ASSUME NEW c \in {"C", "text"} PROVE OneAckIn(s \o <<"ACK", c>>)
  <2>1. \A i \in DOMAIN (s \o <<"ACK", c>>) : (s \o <<"ACK", c>>)[i] = "ACK" => i = Len(s) + 1
    BY <1>2, <1>4
  <2> QED
    BY <2>1 DEF OneAckIn
<1> QED
  BY <1>1, <1>5, <1>6, <1>7

-----------------------------------------------------------------------------
(* The dialogue and the transfer: steps of the thread.                     *)

(* Both directions of the line hold what they should.                      *)
LEMMA LineTypes == TypesFit => fromWatch \in Seq(Chars) /\ toWatch \in Seq(Message)
  BY DEF TypesFit, LoaderTypeOK

(* On an invalid handle the thread hears nothing and gives up.             *)
LEMMA UnconnectedNext ==
  ASSUME TypesFit, NEW u \in Updaters, Talk(u), ~Connected, Unconnected(u)
  PROVE  Unconnected(u)'
<1> USE DEF TypesFit, UpdateTypeOK, Unconnected, At, Goto
<1>1. ~PortWorks
  BY DEF PortWorks, Connected
<1>2. CASE SendCommand(u)
  <2>1. upc[u] = "hello"
    BY <1>2 DEF SendCommand, Commands
  <2>2. \/ upc' = [upc EXCEPT ![u] = "close"]
        \/ upc' = [upc EXCEPT ![u] = "listen"] /\ heard' = [heard EXCEPT ![u] = FALSE]
    BY <1>2, <2>1 DEF SendCommand, Replies, Loop
  <2> QED
    BY <2>2
<1>3. CASE Listen(u)
  <2>1. upc[u] = "listen" /\ ~heard[u]
    BY <1>3 DEF Listen, Loops
  <2>2. \/ upc' = [upc EXCEPT ![u] = "close"]
        \/ upc' = upc /\ heard' = [heard EXCEPT ![u] = FALSE]
    BY <1>1, <1>3, <2>1 DEF Listen, AfterLoop
  <2> QED
    BY <2>1, <2>2
<1>4. upc[u] \notin {"header", "data", "eot", "last"} \cup DOMAIN Awaited
  BY DEF Awaited
<1> QED
  BY <1>2, <1>3, <1>4 DEF Talk, SendHeader, SendData, SendEot, SendLast, WaitForChar

(* A command: the menu has answered the one before.                        *)
LEMMA CommandSession ==
  ASSUME TypesFit, NEW u \in Updaters, SendCommand(u), Connected, SessionFits(u)
  PROVE  Dialogue(u)' /\ Transfer(u)'
<1> USE DEF TypesFit, UpdateTypeOK, At, Goto
<1>0. Dialogue(u) /\ updateio # 0 /\ upc[u] \in {"hello", "start", "three"}
  BY DEF SessionFits, Connected, SendCommand, Commands
<1>1. /\ UNCHANGED <<fromWatch, linkUp, mode>>
      /\ heard' = [heard EXCEPT ![u] = FALSE]
      /\ toWatch' = IF PortWorks THEN Append(toWatch, Plain(Commands[upc[u]])) ELSE toWatch
      /\ upc' = [upc EXCEPT ![u] = Replies[upc[u]]]
  BY <1>0 DEF SendCommand, WriteCom, Loop
<1>2. CASE upc[u] = "hello"
  <2>1. upc'[u] = "listen" /\ ~heard'[u] /\ toWatch = <<>> /\ fromWatch = <<>> /\ mode = "off"
    BY <1>0, <1>1, <1>2 DEF Dialogue, Replies
  <2>2. toWatch' \in {<<>>, <<Plain("a0")>>}
    BY <1>1, <1>2, <2>1 DEF Commands
  <2> QED
    BY <1>1, <2>1, <2>2 DEF Dialogue, Transfer
<1>3. CASE upc[u] = "start"
  <2>1. /\ upc'[u] = "listen2" /\ ~heard'[u] /\ toWatch = <<>> /\ NoAck /\ mode = "menu"
        /\ linkUp => fromWatch = <<>>
    BY <1>0, <1>1, <1>3 DEF Dialogue, Replies
  <2>2. toWatch' \in {<<>>, <<Plain("1")>>}
    BY <1>1, <1>3, <2>1 DEF Commands
  <2> QED
    BY <1>1, <2>1, <2>2 DEF Dialogue, Transfer, NoAck
<1>4. CASE upc[u] = "three"
  <2>1. upc'[u] = "tail"
    BY <1>1, <1>4 DEF Replies
  <2> QED
    BY <2>1 DEF Dialogue, Transfer
<1> QED
  BY <1>0, <1>2, <1>3, <1>4

(* The four loops of reads keep their part of the dialogue.                *)
LEMMA ListenSession ==
  ASSUME TypesFit, NEW u \in Updaters, Listen(u), Connected, SessionFits(u)
  PROVE  Dialogue(u)' /\ Transfer(u)'
<1> USE DEF TypesFit, UpdateTypeOK, At, Goto
<1>0. /\ Dialogue(u) /\ Transfer(u) /\ updateio # 0
      /\ upc[u] \in {"listen", "listen2", "drain", "tail"}
  BY DEF SessionFits, Connected, Listen, Loops
<1> DEFINE any == heard[u] \/ (PortWorks /\ fromWatch # <<>>)
<1>1. /\ UNCHANGED <<toWatch, linkUp, mode, announced, got, installed, file>>
      /\ fromWatch' = IF PortWorks THEN <<>> ELSE fromWatch
      /\ heard' = [heard EXCEPT ![u] = any]
      /\ upc' = upc \/ upc' = [upc EXCEPT ![u] = AfterLoop(upc[u], any)]
  BY <1>0 DEF Listen, fileVars
<1>2. NoAck => NoAck'
  BY <1>1 DEF NoAck, NoAckIn
<1>3. linkUp => PortWorks
  BY DEF Connected, PortWorks
<1>4. heard'[u] = any
  BY <1>1
<1>5. CASE upc[u] = "listen" /\ mode = "off"
  <2>1. ~heard[u] /\ toWatch \in {<<>>, <<Plain("a0")>>} /\ fromWatch = <<>>
    BY <1>0, <1>5 DEF Dialogue
  <2>2. ~any /\ fromWatch' = <<>>
    BY <1>1, <2>1
  <2>3. upc'[u] = "listen" \/ upc'[u] = "close"
    BY <1>1, <1>5, <2>2 DEF AfterLoop
  <2> QED
    BY <1>1, <1>4, <1>5, <2>1, <2>2, <2>3 DEF Dialogue, Transfer
<1>6. CASE upc[u] = "listen" /\ mode # "off"
  <2>1. mode = "menu" /\ toWatch = <<>> /\ NoAck
    BY <1>0, <1>6 DEF Dialogue
  <2>2. upc'[u] \in {"listen", "start", "close"}
    BY <1>1, <1>6 DEF AfterLoop
  <2>3. linkUp => fromWatch' = <<>>
    BY <1>1, <1>3
  <2> QED
    BY <1>1, <1>2, <2>1, <2>2, <2>3 DEF Dialogue, Transfer
<1>7. CASE upc[u] = "listen2" /\ mode = "menu"
  <2>1. /\ ~heard[u] /\ toWatch \in {<<>>, <<Plain("1")>>} /\ NoAck
        /\ linkUp => fromWatch = <<>>
    BY <1>0, <1>7 DEF Dialogue
  <2>2. ~any /\ (linkUp => fromWatch' = <<>>)
    BY <1>1, <2>1 DEF PortWorks
  <2>3. upc'[u] = "listen2" \/ upc'[u] = "close"
    BY <1>1, <1>7, <2>2 DEF AfterLoop
  <2> QED
    BY <1>1, <1>2, <1>4, <1>7, <2>1, <2>2, <2>3 DEF Dialogue, Transfer
<1>8. CASE upc[u] = "listen2" /\ mode # "menu"
  <2>1. mode = "wait" /\ toWatch = <<>> /\ NoAck
    BY <1>0, <1>8 DEF Dialogue
  <2>2. upc'[u] \in {"listen2", "header", "close"}
    BY <1>1, <1>8 DEF AfterLoop
  <2> QED
    BY <1>1, <1>2, <2>1, <2>2 DEF Dialogue, Transfer
<1>9. CASE upc[u] = "drain"
  <2>1. upc'[u] \in {"drain", "three"}
    BY <1>1, <1>9 DEF AfterLoop
  <2>2. toWatch = <<>> /\ mode = "menu" /\ Installed(file[u])
    BY <1>0, <1>9 DEF Transfer
  <2>3. Installed(file[u])'
    BY <1>1, <2>2 DEF Installed, Image
  <2> QED
    BY <1>1, <2>1, <2>2, <2>3 DEF Dialogue, Transfer
<1>10. CASE upc[u] = "tail"
  <2>1. upc'[u] \in {"tail", "close"}
    BY <1>1, <1>10 DEF AfterLoop
  <2> QED
    BY <2>1 DEF Dialogue, Transfer
<1> QED
  BY <1>0, <1>5, <1>6, <1>7, <1>8, <1>9, <1>10

(* What is said of the image and the watch is about these variables.       *)
LEMMA SameImage ==
  ASSUME NEW f, NEW n, UNCHANGED <<announced, got, installed>>
  PROVE  /\ Received(f, n) => Received(f, n)'
         /\ Holds(f) => Holds(f)'
         /\ Installed(f) => Installed(f)'
  BY DEF Received, Holds, Installed, Image

(* A packet: the watch has taken the one before.                           *)
LEMMA SendSession ==
  ASSUME TypesFit, NEW u \in Updaters, Connected, SessionFits(u),
         SendHeader(u) \/ SendData(u) \/ SendEot(u) \/ SendLast(u)
  PROVE  Dialogue(u)' /\ Transfer(u)'
<1> USE DEF TypesFit, UpdateTypeOK, At, Goto
<1>0. Dialogue(u) /\ Transfer(u) /\ updateio # 0
  BY DEF SessionFits, Connected
<1>1. /\ UNCHANGED <<fromWatch, mode, announced, got, installed, file, image_data>>
      /\ upc[u] \in {"header", "data", "eot", "last"}
  BY DEF SendHeader, SendData, SendEot, SendLast, SendPacket, fileVars
<1>2. toWatch = <<>> /\ NoAck /\ NoAck'
  BY <1>0, <1>1 DEF Dialogue, Transfer, NoAck
<1>3. CASE SendHeader(u)
  <2>1. /\ toWatch' = <<Msg("header", ImageSize[file[u]], <<>>)>> /\ upc'[u] = "ack0"
        /\ pos'[u] = 0
    BY <1>0, <1>2, <1>3 DEF SendHeader, SendPacket, WriteCom
  <2>2. mode' = "wait" /\ file'[u] = file[u]
    BY <1>0, <1>1, <1>3 DEF SendHeader, Dialogue
  <2> QED
    BY <1>2, <2>1, <2>2 DEF Dialogue, Transfer, Exchange
<1>4. CASE SendData(u)
  <2>1. /\ toWatch' = <<Packet(u)>> /\ upc'[u] = "ackd"
        /\ UNCHANGED <<pos, size, blk>>
    BY <1>0, <1>2, <1>4 DEF SendData, SendPacket, WriteCom, Packet, sizeVars
  <2>2. Packet(u)' = Packet(u) /\ pos'[u] = pos[u] /\ file'[u] = file[u]
    BY <1>1, <2>1 DEF Packet, PreparePacket
  <2>3. mode' = "receive" /\ Received(file[u], pos[u])'
    BY <1>0, <1>1, <1>4, <2>1, SameImage DEF SendData, Transfer
  <2> QED
    BY <1>2, <2>1, <2>2, <2>3 DEF Dialogue, Transfer, Exchange
<1>5. CASE SendEot(u)
  <2>1. toWatch' \in {<<>>, <<Plain("eot")>>} /\ upc'[u] = "acke"
    BY <1>2, <1>5 DEF SendEot, WriteCom
  <2>2. mode' = "receive" /\ Holds(file[u])' /\ file'[u] = file[u]
    BY <1>0, <1>1, <1>5, SameImage DEF SendEot, Transfer
  <2> QED
    BY <1>2, <2>1, <2>2 DEF Dialogue, Transfer, Exchange
<1>6. CASE SendLast(u)
  <2>1. toWatch' = <<Plain("end")>> /\ upc'[u] = "ackl"
    BY <1>0, <1>2, <1>6 DEF SendLast, SendPacket, WriteCom
  <2>2. mode' = "last" /\ Holds(file[u])' /\ file'[u] = file[u]
    BY <1>0, <1>1, <1>6, SameImage DEF SendLast, Transfer
  <2> QED
    BY <1>2, <2>1, <2>2 DEF Dialogue, Transfer, Exchange
<1> QED
  BY <1>3, <1>4, <1>5, <1>6

(* Nothing but answers get lost, or the line goes down.                    *)
LEMMA SameSession ==
  ASSUME NEW u, Dialogue(u), Transfer(u),
         UNCHANGED <<toWatch, mode, announced, got, installed, file, image_data>>,
         upc'[u] = upc[u], pos'[u] = pos[u], size'[u] = size[u], blk'[u] = blk[u],
         heard'[u] = heard[u],
         NoAck => NoAck', OneAck => OneAck', fromWatch = <<>> => fromWatch' = <<>>,
         linkUp' => linkUp
  PROVE  Dialogue(u)' /\ Transfer(u)'
<1>1. Dialogue(u)'
  BY DEF Dialogue, At
<1>2. Packet(u)' = Packet(u)
  BY DEF Packet, PreparePacket
<1>3. ASSUME NEW n PROVE /\ Received(file[u], n) => Received(file[u], n)'
                         /\ Holds(file[u]) => Holds(file[u])'
                         /\ Installed(file[u]) => Installed(file[u])'
  BY SameImage
<1>4. Transfer(u)'
  BY <1>2, <1>3 DEF Transfer, At, Exchange
<1> QED
  BY <1>1, <1>4

(* A try of WaitForChar that hears nothing leaves the packet unanswered.   *)
LEMMA MissSession ==
  ASSUME TypesFit, NEW u \in Updaters, WaitForChar(u), Miss(u), Connected, SessionFits(u)
  PROVE  Dialogue(u)' /\ Transfer(u)'
<1> USE DEF TypesFit, UpdateTypeOK, At, Goto
<1>0. Dialogue(u) /\ Transfer(u) /\ fromWatch \in Seq(Chars)
  BY LineTypes DEF SessionFits
<1>1. UNCHANGED <<toWatch, linkUp, mode, announced, got, installed, file, image_data>>
  BY DEF WaitForChar, fileVars
<1>2. /\ UNCHANGED <<heard, pos, size, blk>>
      /\ upc' = upc \/ upc' = [upc EXCEPT ![u] = "three"]
  BY DEF Miss, sizeVars
<1>3. fromWatch' = fromWatch \/ (fromWatch # <<>> /\ fromWatch' = Tail(fromWatch))
  BY DEF WaitForChar
<1>4. (NoAck => NoAck') /\ (OneAck => OneAck') /\ (fromWatch = <<>> => fromWatch' = <<>>)
  BY <1>0, <1>3, TailAcks DEF NoAck, OneAck
<1>5. CASE upc' = upc
  BY <1>0, <1>1, <1>2, <1>4, <1>5, SameSession
<1>6. CASE upc'[u] = "three"
  BY <1>6 DEF Dialogue, Transfer
<1> QED
  BY <1>2, <1>5, <1>6

(* The byte that is awaited: an ACK was sent by the watch for the packet   *)
(* that the thread sent last, since nothing else on the line is one.       *)
LEMMA ProceedSession ==
  ASSUME TypesFit, NEW u \in Updaters, WaitForChar(u), Connected, SessionFits(u),
         fromWatch # <<>>, fromWatch' = Tail(fromWatch),
         Accept(u, Head(fromWatch)), Proceed(u)
  PROVE  Dialogue(u)' /\ Transfer(u)'
<1> USE DEF TypesFit, UpdateTypeOK, At, Goto
<1>0. Transfer(u) /\ fromWatch \in Seq(Chars) /\ OwnFits(u)
  BY LineTypes DEF SessionFits, ThreadFits
<1>1. /\ UNCHANGED <<toWatch, mode, announced, got, installed, file, image_data>>
      /\ file'[u] = file[u] /\ upc[u] \in {"ack0", "c0", "ackd", "acke", "ackl"}
  BY DEF WaitForChar, fileVars, Awaited
<1>2. upc[u] # "c0" => Head(fromWatch) = "ACK"
  BY <1>1 DEF Accept, Awaited
<1>3. /\ NoAck => Head(fromWatch) # "ACK" /\ NoAck'
      /\ OneAck /\ Head(fromWatch) = "ACK" => NoAck'
  BY <1>0, HeadIsNoAck, TailAcks DEF NoAck, OneAck
<1>4. CASE upc[u] = "ack0"
  <2>1. upc'[u] = "c0" /\ pos' = pos
    BY <1>4 DEF Proceed, sizeVars
  <2>2. toWatch = <<>> /\ mode = "receive" /\ Received(file[u], 0) /\ NoAck' /\ pos[u] = 0
    BY <1>0, <1>2, <1>3, <1>4 DEF Transfer, Exchange
  <2> QED
    BY <1>1, <2>1, <2>2, SameImage DEF Dialogue, Transfer
<1>5. CASE upc[u] = "c0"
  <2>1. /\ pos' = pos /\ upc'[u] \in {"eot", "data"}
        /\ upc'[u] = "eot" => size[u] = 0
    BY <1>5 DEF Proceed, sizeVars
  <2>2. toWatch = <<>> /\ mode = "receive" /\ Received(file[u], 0) /\ NoAck' /\ pos[u] = 0
    BY <1>0, <1>3, <1>5 DEF Transfer
  <2>3. upc'[u] = "eot" => Holds(file[u])
    BY <1>0, <1>5, <2>1, <2>2 DEF OwnFits, Sending, Holds, Received
  <2> QED
    BY <1>1, <2>1, <2>2, <2>3, SameImage DEF Dialogue, Transfer
<1>6. CASE upc[u] = "ackd"
  <2> DEFINE pkt == PktSize(size[u])
  <2>1. /\ toWatch = <<>> /\ mode = "receive" /\ Received(file[u], pos[u] + pkt) /\ NoAck'
    BY <1>0, <1>2, <1>3, <1>6 DEF Transfer, Exchange
  <2>2. Advance(u)
    BY <1>6 DEF Proceed
  <2>3. CASE size[u] > pkt
    <3>1. pos'[u] = pos[u] + pkt /\ upc'[u] \in {"data", "three"}
      BY <2>2, <2>3 DEF Advance
    <3> QED
      BY <1>1, <2>1, <3>1, SameImage DEF Dialogue, Transfer
  <2>4. CASE ~(size[u] > pkt)
    <3>1. upc'[u] = "eot"
      BY <2>2, <2>4 DEF Advance
    <3>2. /\ size[u] \in Nat /\ pos[u] \in Nat /\ pkt \in Nat
          /\ pos[u] + size[u] = ImageSize[file[u]]
      BY <1>0, <1>6, Flash, PacketSize DEF OwnFits, Sending
    <3> HIDE DEF pkt
    <3>3. Holds(file[u])
      BY <2>1, <2>4, <3>2 DEF Holds, Received
    <3> QED
      BY <1>1, <2>1, <3>1, <3>3, SameImage DEF Dialogue, Transfer
  <2> QED
    BY <2>3, <2>4
<1>7. CASE upc[u] = "acke"
  <2>1. upc'[u] = "last"
    BY <1>7 DEF Proceed
  <2>2. toWatch = <<>> /\ mode = "last" /\ Holds(file[u]) /\ NoAck'
    BY <1>0, <1>2, <1>3, <1>7 DEF Transfer, Exchange
  <2> QED
    BY <1>1, <2>1, <2>2, SameImage DEF Dialogue, Transfer
<1>8. CASE upc[u] = "ackl"
  <2>1. upc'[u] = "drain"
    BY <1>8 DEF Proceed
  <2>2. toWatch = <<>> /\ mode = "menu" /\ Installed(file[u])
    BY <1>0, <1>2, <1>3, <1>8 DEF Transfer, Exchange
  <2> QED
    BY <1>1, <2>1, <2>2, SameImage DEF Dialogue, Transfer
<1> QED
  BY <1>1, <1>4, <1>5, <1>6, <1>7, <1>8

(* Every step of the thread keeps to stop-and-wait.                        *)
LEMMA TalkSession ==
  ASSUME TypesFit, NEW u \in Updaters, Talk(u), Connected, SessionFits(u)
  PROVE  Dialogue(u)' /\ Transfer(u)'
<1>1. CASE WaitForChar(u)
  <2>1. \/ Miss(u)
        \/ /\ fromWatch # <<>> /\ fromWatch' = Tail(fromWatch)
           /\ Accept(u, Head(fromWatch)) /\ Proceed(u)
    BY <1>1 DEF WaitForChar
  <2> QED
    BY <1>1, <2>1, MissSession, ProceedSession
<1> QED
  BY <1>1, CommandSession, ListenSession, SendSession DEF Talk

-----------------------------------------------------------------------------
(* The dialogue and the transfer: steps of the watch and of the line.      *)

Silent == Before \cup {"three", "tail", "close", "free"}

(* A message on its way is the one whose answer the thread awaits, and it  *)
(* finds the watch in the mode that takes it.                              *)
LEMMA UnderWay ==
  ASSUME TypesFit, NEW u \in Updaters, Connected, SessionFits(u),
         upc[u] \notin Silent, toWatch # <<>>
  PROVE  /\ NoAck /\ toWatch = <<Head(toWatch)>> /\ Tail(toWatch) = <<>>
         /\ <<upc[u], Head(toWatch).kind, mode>> \in
              {<<"listen", "a0", "off">>, <<"listen2", "1", "menu">>,
               <<"ack0", "header", "wait">>, <<"ackd", "data", "receive">>,
               <<"acke", "eot", "receive">>, <<"ackl", "end", "last">>}
<1>1. Dialogue(u) /\ Transfer(u) /\ upc[u] \in UpdatePCs
  BY DEF SessionFits, TypesFit, UpdateTypeOK
<1>2. ASSUME NEW m, toWatch = <<m>>
      PROVE  Head(toWatch) = m /\ toWatch = <<Head(toWatch)>> /\ Tail(toWatch) = <<>>
  BY <1>2
<1>3. upc[u] \in {"listen", "listen2", "ack0", "ackd", "acke", "ackl"}
  BY <1>1 DEF Dialogue, Transfer, At, Silent, Before, UpdatePCs
<1>4. CASE upc[u] = "listen"
  <2>1. toWatch = <<Plain("a0")>> /\ NoAck /\ mode = "off"
    BY <1>1, <1>4 DEF Dialogue, At, NoAck, NoAckIn
  <2>2. Head(toWatch).kind = "a0"
    BY <1>2, <2>1 DEF Plain, Msg, Packet
  <2> QED
    BY <1>2, <1>4, <2>1, <2>2
<1>5. CASE upc[u] = "listen2"
  <2>1. toWatch = <<Plain("1")>> /\ NoAck /\ mode = "menu"
    BY <1>1, <1>5 DEF Dialogue, At
  <2>2. Head(toWatch).kind = "1"
    BY <1>2, <2>1 DEF Plain, Msg, Packet
  <2> QED
    BY <1>2, <1>5, <2>1, <2>2
<1>6. CASE upc[u] = "ack0"
  <2>1. toWatch = <<Msg("header", ImageSize[file[u]], <<>>)>> /\ NoAck /\ mode = "wait"
    BY <1>1, <1>6 DEF Transfer, At, Exchange
  <2>2. Head(toWatch).kind = "header"
    BY <1>2, <2>1 DEF Plain, Msg, Packet
  <2> QED
    BY <1>2, <1>6, <2>1, <2>2
<1>7. CASE upc[u] = "ackd"
  <2>1. toWatch = <<Packet(u)>> /\ NoAck /\ mode = "receive"
    BY <1>1, <1>7 DEF Transfer, At, Exchange
  <2>2. Head(toWatch).kind = "data"
    BY <1>2, <2>1 DEF Plain, Msg, Packet
  <2> QED
    BY <1>2, <1>7, <2>1, <2>2
<1>8. CASE upc[u] = "acke"
  <2>1. toWatch = <<Plain("eot")>> /\ NoAck /\ mode = "receive"
    BY <1>1, <1>8 DEF Transfer, At, Exchange
  <2>2. Head(toWatch).kind = "eot"
    BY <1>2, <2>1 DEF Plain, Msg, Packet
  <2> QED
    BY <1>2, <1>8, <2>1, <2>2
<1>9. CASE upc[u] = "ackl"
  <2>1. toWatch = <<Plain("end")>> /\ NoAck /\ mode = "last"
    BY <1>1, <1>9 DEF Transfer, At, Exchange
  <2>2. Head(toWatch).kind = "end"
    BY <1>2, <2>1 DEF Plain, Msg, Packet
  <2> QED
    BY <1>2, <1>9, <2>1, <2>2
<1> QED
  BY <1>3, <1>4, <1>5, <1>6, <1>7, <1>8, <1>9

(* An answer adds at most one acknowledgement.                             *)
LEMMA AnswerTo ==
  ASSUME TypesFit, NoAck
  PROVE  /\ OneAck /\ (UNCHANGED fromWatch => NoAck' /\ OneAck')
         /\ \A c \in {"C", "NAK", "text"} : Answer(<<c>>) => NoAck' /\ OneAck'
         /\ Answer(<<"ACK">>) => OneAck'
         /\ \A c \in {"C", "text"} : Answer(<<"ACK", c>>) => OneAck'
<1>1. fromWatch \in Seq(Chars)
  BY LineTypes
<1>2. NoAckIn(fromWatch') => OneAckIn(fromWatch')
  BY DEF NoAckIn, OneAckIn
<1> QED
  BY <1>1, <1>2, AnswerAcks DEF NoAck, OneAck, Answer

(* The boot loader takes what is on the line, message by message: a        *)
(* command, the header, a data packet, an EOT, the last packet.            *)
LEMMA CommandTaken ==
  ASSUME TypesFit, NEW u \in Updaters, Connected, SessionFits(u), upc[u] \notin Silent,
         UNCHANGED updateVars, LoaderCommand
  PROVE  Dialogue(u)' /\ Transfer(u)'
<1>1. /\ upc'[u] = upc[u] /\ toWatch # <<>> /\ toWatch' = Tail(toWatch)
      /\ Answer(<<"text">>)
      /\ \/ Head(toWatch).kind = "a0" /\ mode' = "menu"
         \/ Head(toWatch).kind = "1" /\ mode' = "wait"
  BY DEF LoaderCommand, Arrives, Taken, updateVars, threadVars
<1>2. NoAck' /\ toWatch' = <<>>
  BY <1>1, UnderWay, AnswerTo
<1>3. (upc[u] = "listen" /\ mode' = "menu") \/ (upc[u] = "listen2" /\ mode' = "wait")
  BY <1>1, UnderWay
<1> QED
  BY <1>1, <1>2, <1>3 DEF Dialogue, Transfer, At

LEMMA HeaderTaken ==
  ASSUME TypesFit, NEW u \in Updaters, Connected, SessionFits(u), upc[u] \notin Silent,
         UNCHANGED updateVars, LoaderHeader
  PROVE  Dialogue(u)' /\ Transfer(u)'
<1>1. /\ upc'[u] = upc[u] /\ file'[u] = file[u] /\ pos'[u] = pos[u]
      /\ toWatch # <<>> /\ Head(toWatch).kind = "header" /\ toWatch' = Tail(toWatch)
      /\ Answer(<<"ACK", "C">>) /\ mode' = "receive"
      /\ announced' = Head(toWatch).n /\ got' = <<>>
  BY DEF LoaderHeader, Arrives, Taken, updateVars, threadVars, sizeVars
<1>2. upc[u] = "ack0" /\ OneAck' /\ toWatch' = <<>>
  BY <1>1, UnderWay, AnswerTo
<1>3. Transfer(u)
  BY DEF SessionFits
<1>4. toWatch = <<Msg("header", ImageSize[file[u]], <<>>)>> /\ pos[u] = 0
  BY <1>1, <1>2, <1>3 DEF Transfer, At, Exchange
<1>5. announced' = ImageSize[file[u]]
  <2>1. Head(toWatch) = Msg("header", ImageSize[file[u]], <<>>)
    BY <1>4
  <2> QED
    BY <1>1, <2>1 DEF Msg
<1>6. Received(file[u], 0)'
  BY <1>1, <1>5 DEF Received
<1> QED
  BY <1>1, <1>2, <1>4, <1>6 DEF Dialogue, Transfer, At, Exchange

LEMMA DataTaken ==
  ASSUME TypesFit, NEW u \in Updaters, Connected, SessionFits(u), upc[u] \notin Silent,
         Loaded(u), UNCHANGED updateVars, LoaderData
  PROVE  Dialogue(u)' /\ Transfer(u)'
<1> DEFINE f     == file[u]
           bytes == PreparePacket(pos[u], size[u])
           pkt   == PktSize(size[u])
<1>1. /\ upc'[u] = upc[u] /\ file'[u] = file[u] /\ pos'[u] = pos[u] /\ size'[u] = size[u]
      /\ toWatch # <<>> /\ Head(toWatch).kind = "data" /\ toWatch' = Tail(toWatch)
      /\ mode' = mode /\ announced' = announced
      /\ \/ Answer(<<"ACK">>) /\ got' = got \o Head(toWatch).bytes
         \/ Answer(<<"NAK">>) /\ got' = got
  BY DEF LoaderData, Arrives, Taken, updateVars, threadVars, sizeVars
<1>2. upc[u] = "ackd" /\ NoAck /\ toWatch' = <<>> /\ mode = "receive"
  BY <1>1, UnderWay
<1>3. Transfer(u)
  BY DEF SessionFits
<1>4. toWatch = <<Packet(u)>> /\ Received(f, pos[u])
  BY <1>1, <1>2, <1>3 DEF Transfer, At, Exchange
<1>5. Head(toWatch).bytes = bytes
  <2>1. Head(toWatch) = Packet(u)
    BY <1>4
  <2> QED
    BY <2>1 DEF Packet, Msg
<1>6. CASE Answer(<<"NAK">>) /\ got' = got
  <2>1. NoAck' /\ Received(f, pos[u])'
    BY <1>1, <1>2, <1>4, <1>6, AnswerTo DEF Received
  <2> QED
    BY <1>1, <1>2, <2>1 DEF Dialogue, Transfer, At, Exchange
<1>7. CASE Answer(<<"ACK">>) /\ got' = got \o bytes
  <2>1. /\ bytes \in Seq(Byte) /\ Len(bytes) = pkt /\ pkt \in Nat /\ pos[u] \in Nat
        /\ pos[u] + size[u] = ImageSize[f] /\ ImageSize[f] \in Nat /\ size[u] \in Nat
        /\ \A k \in 1 .. pkt : k <= size[u] => bytes[k] = image_data[pos[u] + k]
    <3>1. pos[u] \in Nat /\ size[u] \in Nat /\ OwnFits(u)
      BY Flash DEF TypesFit, UpdateTypeOK, ThreadFits
    <3>2. pos[u] + size[u] = ImageSize[f] /\ ImageSize[f] \in Nat
      BY <1>2, <3>1, UpdateAssumption DEF OwnFits, Sending, NoFileYet
    <3>3. pkt \in Nat
      BY <3>1, PacketSize
    <3>4. /\ bytes \in Seq(Byte) /\ Len(bytes) = pkt
          /\ \A k \in 1 .. Len(bytes) : k <= size[u] => bytes[k] = image_data[pos[u] + k]
      BY <1>2, PacketOf
    <3> QED
      BY <3>1, <3>2, <3>3, <3>4
  <2>2. got \in Seq(Byte) /\ Len(got) = pos[u] /\ announced = ImageSize[f]
    BY <1>4 DEF TypesFit, LoaderTypeOK, Received
  <2>3. \A k \in 1 .. ImageSize[f] : image_data[k] = <<f, k>>
    BY <1>2 DEF Loaded, NoFileYet
  <2> HIDE DEF bytes, pkt
  <2>4. /\ Len(got') = pos[u] + pkt
        /\ \A k \in 1 .. pos[u] + pkt :
             got'[k] = IF k <= pos[u] THEN got[k] ELSE bytes[k - pos[u]]
    <3>1. /\ Len(got \o bytes) = Len(got) + Len(bytes)
          /\ \A k \in 1 .. Len(got) + Len(bytes) :
               (got \o bytes)[k] = IF k <= Len(got) THEN got[k] ELSE bytes[k - Len(got)]
      BY <2>1, <2>2, ConcatProperties
    <3> QED
      BY <1>7, <2>1, <2>2, <3>1
  <2>5. ASSUME NEW k \in 1 .. pos[u] + pkt, k <= ImageSize[f] PROVE got'[k] = <<f, k>>
    <3>1. CASE k <= pos[u]
      BY <1>4, <2>1, <2>4, <2>5, <3>1 DEF Received
    <3>2. CASE ~(k <= pos[u])
      <4> DEFINE i == k - pos[u]
      <4> DEFINE p == pos[u]
                 z == size[u]
                 n == ImageSize[f]
      <4>0. p \in Nat /\ z \in Nat /\ n \in Nat /\ pkt \in Nat /\ p + z = n
        BY <2>1
      <4>1. i \in 1 .. pkt /\ i <= size[u] /\ pos[u] + i = k /\ k \in 1 .. ImageSize[f]
        <5> HIDE DEF p, z, n
        <5>1. k \in 1 .. p + pkt /\ k <= n /\ ~(k <= p) /\ i = k - p
          BY <2>5, <3>2 DEF p, n
        <5>2. i \in 1 .. pkt /\ i <= z /\ p + i = k /\ k \in 1 .. n
          BY <4>0, <5>1
        <5> QED
          BY <5>2 DEF p, z, n
      <4>2. got'[k] = bytes[i]
        BY <2>4, <3>2
      <4> HIDE DEF i
      <4> QED
        BY <2>1, <2>3, <4>1, <4>2
    <3> QED
      BY <3>1, <3>2
  <2>6. Received(f, pos[u] + pkt)'
    BY <1>1, <2>2, <2>4, <2>5 DEF Received, pkt
  <2>7. OneAck'
    BY <1>2, <1>7, AnswerTo
  <2> QED
    BY <1>1, <1>2, <2>6, <2>7 DEF Dialogue, Transfer, At, Exchange, pkt
<1> QED
  BY <1>1, <1>5, <1>6, <1>7

LEMMA EotTaken ==
  ASSUME TypesFit, NEW u \in Updaters, Connected, SessionFits(u), upc[u] \notin Silent,
         UNCHANGED updateVars, LoaderEot
  PROVE  Dialogue(u)' /\ Transfer(u)'
<1>1. /\ upc'[u] = upc[u] /\ file'[u] = file[u]
      /\ toWatch # <<>> /\ Head(toWatch).kind = "eot" /\ toWatch' = Tail(toWatch)
      /\ Answer(<<"ACK", "C">>) /\ mode' = "last"
      /\ UNCHANGED <<announced, got, installed>>
  BY DEF LoaderEot, Arrives, Taken, updateVars, threadVars, fileVars
<1>2. upc[u] = "acke" /\ OneAck' /\ toWatch' = <<>>
  BY <1>1, UnderWay, AnswerTo
<1>3. Holds(file[u])
  BY <1>2 DEF SessionFits, Transfer, At, Exchange
<1> QED
  BY <1>1, <1>2, <1>3, SameImage DEF Dialogue, Transfer, At, Exchange

(* What a watch that holds all of f installs is f.                         *)
LEMMA EndInstalls ==
  ASSUME TypesFit, LoaderEnd, NEW f \in Images, Holds(f)
  PROVE  installed' = Append(installed, Image(f)) /\ Installed(f)'
<1> DEFINE image == [k \in 1 .. announced |-> IF k <= Len(got) THEN got[k] ELSE <<>>]
<1>1. installed' = Append(installed, image)
  BY DEF LoaderEnd
<1>2. /\ announced = ImageSize[f] /\ ImageSize[f] \in Nat /\ Len(got) \in Nat
      /\ ImageSize[f] <= Len(got)
      /\ \A k \in 1 .. Len(got) : k <= ImageSize[f] => got[k] = <<f, k>>
  BY UpdateAssumption DEF Holds, Received, TypesFit, LoaderTypeOK
<1>3. \A k \in 1 .. announced : (IF k <= Len(got) THEN got[k] ELSE <<>>) = <<f, k>>
  BY <1>2
<1>4. image = Image(f)
  BY <1>2, <1>3 DEF Image
<1>5. installed \in Seq(Seq(Byte \cup {<<>>}))
  BY DEF TypesFit, LoaderTypeOK
<1> HIDE DEF image
<1>6. Len(installed') = Len(installed) + 1 /\ installed'[Len(installed) + 1] = image
  BY <1>1, <1>5
<1>7. installed' # <<>> /\ Image(f)' = Image(f)
  BY <1>5, <1>6 DEF Image
<1> QED
  BY <1>1, <1>4, <1>6, <1>7 DEF Installed

LEMMA EndTaken ==
  ASSUME TypesFit, NEW u \in Updaters, Connected, SessionFits(u), upc[u] \notin Silent,
         UNCHANGED updateVars, LoaderEnd
  PROVE  Dialogue(u)' /\ Transfer(u)'
<1>1. /\ upc'[u] = upc[u] /\ file'[u] = file[u]
      /\ toWatch # <<>> /\ Head(toWatch).kind = "end" /\ toWatch' = Tail(toWatch)
      /\ Answer(<<"ACK", "text">>) /\ mode' = "menu"
  BY DEF LoaderEnd, Arrives, Taken, updateVars, threadVars
<1>2. upc[u] = "ackl" /\ OneAck' /\ toWatch' = <<>> /\ file[u] \in Images
  BY <1>1, UnderWay, AnswerTo DEF TypesFit, ThreadFits, OwnFits, NoFileYet
<1>3. Holds(file[u])
  BY <1>1, <1>2 DEF SessionFits, Transfer, At, Exchange
<1>4. PICK f \in Images : f = file[u]
  BY <1>2
<1>5. Installed(f)'
  BY <1>3, <1>4, EndInstalls
<1> QED
  BY <1>1, <1>2, <1>4, <1>5 DEF Dialogue, Transfer, At, Exchange
(* A menu that waits for a file asks for it again.                         *)
LEMMA PollSession ==
  ASSUME TypesFit, NEW u \in Updaters, Connected, SessionFits(u), upc[u] \notin Silent,
         UNCHANGED updateVars, LoaderPoll
  PROVE  Dialogue(u)' /\ Transfer(u)'
<1>1. /\ mode = "wait" /\ toWatch = <<>> /\ fromWatch = <<>> /\ Answer(<<"C">>)
      /\ UNCHANGED <<toWatch, mode, announced, got, installed>>
  BY DEF LoaderPoll, fileVars
<1>2. /\ upc'[u] = upc[u] /\ file'[u] = file[u] /\ pos'[u] = pos[u]
  BY DEF updateVars, threadVars, sizeVars
<1>3. Dialogue(u) /\ Transfer(u) /\ upc[u] \in UpdatePCs
  BY DEF SessionFits, TypesFit, UpdateTypeOK
<1>4. NoAck /\ NoAck'
  <2>1. NoAck
    BY <1>1 DEF NoAck, NoAckIn
  <2> QED
    BY <1>1, <2>1, AnswerTo
<1>5. upc[u] \in {"listen2", "header", "ack0"}
  BY <1>1, <1>3 DEF Dialogue, Transfer, At, Silent, Before, UpdatePCs, Exchange
<1>6. upc[u] = "ack0" => pos[u] = 0
  BY <1>3 DEF Transfer
<1> QED
  BY <1>1, <1>2, <1>4, <1>5, <1>6 DEF Dialogue, Transfer, At, Exchange

(* A damaged packet is refused, and the answer is no ACK.                  *)
LEMMA RefusedSession ==
  ASSUME TypesFit, NEW u \in Updaters, Connected, SessionFits(u), upc[u] \notin Silent,
         UNCHANGED <<updateVars, mode, fileVars>>,
         toWatch # <<>>, Head(toWatch).kind \in {"header", "data", "end"},
         toWatch' = Tail(toWatch), Answer(<<"NAK">>)
  PROVE  Dialogue(u)' /\ Transfer(u)'
<1>1. /\ UNCHANGED <<mode, announced, got, installed, image_data>>
      /\ upc'[u] = upc[u] /\ file'[u] = file[u] /\ pos'[u] = pos[u] /\ size'[u] = size[u]
  BY DEF updateVars, threadVars, sizeVars, fileVars
<1>2. toWatch' = <<>> /\ NoAck' /\ upc[u] \in {"ack0", "ackd", "ackl"}
  BY UnderWay, AnswerTo
<1>3. Transfer(u)
  BY DEF SessionFits
<1>4. ASSUME NEW n PROVE /\ Received(file[u], n) => Received(file[u], n)'
                         /\ Holds(file[u]) => Holds(file[u])'
  BY <1>1, SameImage
<1>5. CASE upc[u] = "ack0"
  <2>1. mode = "wait" /\ pos[u] = 0
    BY <1>3, <1>5 DEF Transfer, At, Exchange
  <2> QED
    BY <1>1, <1>2, <1>5, <2>1 DEF Dialogue, Transfer, At, Exchange
<1>6. CASE upc[u] = "ackd"
  <2>1. mode = "receive" /\ Received(file[u], pos[u])
    BY <1>3, <1>6 DEF Transfer, At, Exchange
  <2>2. Received(file[u], pos[u])'
    BY <1>1, <1>4, <2>1
  <2> QED
    BY <1>1, <1>2, <1>6, <2>1, <2>2 DEF Dialogue, Transfer, At, Exchange
<1>7. CASE upc[u] = "ackl"
  <2>1. mode = "last" /\ Holds(file[u])
    BY <1>3, <1>7 DEF Transfer, At, Exchange
  <2>2. Holds(file[u])'
    BY <1>1, <1>4, <2>1
  <2> QED
    BY <1>1, <1>2, <1>7, <2>1, <2>2 DEF Dialogue, Transfer, At, Exchange
<1> QED
  BY <1>2, <1>5, <1>6, <1>7

(* Every step of the watch and of the line keeps to stop-and-wait.         *)
LEMMA WatchSession ==
  ASSUME TypesFit, NEW u \in Updaters, Connected, SessionFits(u), Loaded(u),
         (Loader \/ LineStep) /\ UNCHANGED updateVars
  PROVE  Dialogue(u)' /\ Transfer(u)'
<1>1. CASE upc[u] \in Silent
  <2>1. upc'[u] \in Silent
    BY <1>1 DEF updateVars, threadVars
  <2> QED
    BY <2>1 DEF Silent, Before, Dialogue, Transfer, At
<1> SUFFICES ASSUME upc[u] \notin Silent PROVE Dialogue(u)' /\ Transfer(u)'
  BY <1>1
<1>2. Dialogue(u) /\ Transfer(u) /\ fromWatch \in Seq(Chars)
  BY LineTypes DEF SessionFits
<1>3. CASE LoaderIgnore
  BY <1>3, UnderWay DEF LoaderIgnore, Arrives
<1>4. ASSUME UNCHANGED <<toWatch, mode, fileVars>>, linkUp' => linkUp,
             fromWatch' = fromWatch \/ (fromWatch # <<>> /\ fromWatch' = Tail(fromWatch))
      PROVE  Dialogue(u)' /\ Transfer(u)'
  <2>1. (NoAck => NoAck') /\ (OneAck => OneAck') /\ (fromWatch = <<>> => fromWatch' = <<>>)
    BY <1>2, <1>4, TailAcks DEF NoAck, OneAck
  <2>2. /\ UNCHANGED <<announced, got, installed, file, image_data>>
        /\ upc'[u] = upc[u] /\ pos'[u] = pos[u] /\ size'[u] = size[u] /\ blk'[u] = blk[u]
        /\ heard'[u] = heard[u]
    BY <1>4 DEF fileVars, updateVars, threadVars, sizeVars, loopVars
  <2> QED
    BY <1>2, <1>4, <2>1, <2>2, SameSession
<1>5. CASE Damage
  <2>1. UNCHANGED <<updateVars, mode, fileVars>> /\ linkUp' = linkUp
    BY <1>5 DEF Damage
  <2>2. \/ /\ toWatch # <<>> /\ Head(toWatch).kind \in {"header", "data", "end"}
           /\ toWatch' = Tail(toWatch) /\ Answer(<<"NAK">>)
        \/ fromWatch # <<>> /\ fromWatch' = Tail(fromWatch) /\ toWatch' = toWatch
    BY <1>5 DEF Damage, Arrives, Taken
  <2> QED
    BY <1>4, <2>1, <2>2, RefusedSession
<1>6. CASE Unplug
  BY <1>4, <1>6 DEF Unplug
<1> QED
  BY <1>3, <1>5, <1>6, CommandTaken, HeaderTaken, DataTaken, EotTaken, EndTaken, PollSession
  DEF Loader, LineStep

(* Every step: from the opened port on, the dialogue and the transfer.     *)
LEMMA SessionNext ==
  ASSUME NEW u, Updaters = {u}, TypesFit, PortFits(u), Fresh, Loaded(u), SessionFits(u),
         [UpdateNext]_allVars
  PROVE  SessionFits(u)'
<1> USE DEF TypesFit, UpdateTypeOK, At, Goto, Objects
<1>1. CASE Talk(u)
  <2>1. /\ upc[u] \notin Before \cup {"free"} /\ upc'[u] \notin Before \cup {"free"}
        /\ UNCHANGED <<updateio, handle>>
    BY <1>1, TalkKeeps
  <2>2. Connected' = Connected
    BY <2>1 DEF Connected
  <2>3. CASE Connected
    <3>1. Dialogue(u)' /\ Transfer(u)'
      BY <1>1, <2>3, TalkSession
    <3> QED
      BY <2>2, <2>3, <3>1 DEF SessionFits
  <2>4. CASE ~Connected
    <3>1. Unconnected(u)
      BY <2>1, <2>4 DEF SessionFits
    <3>2. Unconnected(u)'
      BY <1>1, <2>4, <3>1, UnconnectedNext
    <3> QED
      BY <2>2, <2>4, <3>2 DEF SessionFits
  <2> QED
    BY <2>3, <2>4
<1>2. CASE ClickUpdate(u) \/ OpenImage(u) \/ LoadImage(u)
  <2>1. /\ UNCHANGED <<updateio, handle>>
        /\ upc[u] \in Before /\ upc'[u] \in Before
    BY <1>2 DEF ClickUpdate, OpenImage, LoadImage, Before, form1Vars
  <2>2. ~Connected'
    BY <2>1 DEF Connected, PortFits
  <2> QED
    BY <2>1, <2>2 DEF SessionFits
<1>3. CASE InitPort(u)
  <2>1. /\ upc'[u] = "hello" /\ UNCHANGED <<toWatch, fromWatch, mode>>
    BY <1>3 DEF InitPort, loaderVars, lineVars
  <2>2. PICK o \in Objects : /\ updateio' = o
                             /\ \/ handle' = [handle EXCEPT ![o] = "invalid"]
                                \/ ~asked /\ handle' = [handle EXCEPT ![o] = "open"]
    BY <1>3 DEF InitPort
  <2>3. CASE Connected'
    <3>1. ~asked
      BY <2>2, <2>3 DEF Connected
    <3>2. toWatch = <<>> /\ fromWatch = <<>> /\ mode = "off"
      BY <3>1 DEF Fresh
    <3> QED
      BY <2>1, <2>3, <3>2 DEF SessionFits, Dialogue, Transfer
  <2>4. CASE ~Connected'
    BY <2>1, <2>4 DEF SessionFits, Unconnected
  <2> QED
    BY <2>3, <2>4
<1>4. CASE CloseUpdate(u)
  <2>1. CASE upc[u] = "close"
    <3>1. upc'[u] = "free" /\ updateio' = updateio /\ updateio # 0
          /\ handle' = [handle EXCEPT ![updateio] = "none"]
      BY <1>4, <2>1 DEF CloseUpdate, PortFits, Before
    <3>2. ~Connected'
      BY <3>1 DEF Connected
    <3> QED
      BY <3>1, <3>2 DEF SessionFits, Before
  <2>2. CASE upc[u] = "free"
    <3>1. upc'[u] = "idle" /\ updateio' = 0
      BY <1>4, <2>2 DEF CloseUpdate
    <3> QED
      BY <3>1 DEF SessionFits, Connected, Before
  <2> QED
    BY <1>4, <2>1, <2>2 DEF CloseUpdate
<1>5. CASE (Loader \/ LineStep) /\ UNCHANGED updateVars
  <2>1. /\ UNCHANGED <<updateio, handle>> /\ upc'[u] = upc[u] /\ heard'[u] = heard[u]
    BY <1>5 DEF updateVars, form1Vars, threadVars, loopVars
  <2>2. CASE Connected
    <3>1. Dialogue(u)' /\ Transfer(u)'
      BY <1>5, <2>2, WatchSession
    <3> QED
      BY <2>1, <2>2, <3>1 DEF SessionFits, Connected
  <2>3. CASE ~Connected
    BY <2>1, <2>3 DEF SessionFits, Connected, Unconnected
  <2> QED
    BY <2>2, <2>3
<1>6. CASE UNCHANGED allVars
  <2>1. /\ UNCHANGED <<updateio, handle, toWatch, fromWatch, linkUp, mode, announced, got,
                       installed, image_data, file>>
        /\ upc'[u] = upc[u] /\ pos'[u] = pos[u] /\ size'[u] = size[u] /\ blk'[u] = blk[u]
        /\ heard'[u] = heard[u]
    BY <1>6 DEF allVars, updateVars, loaderVars, lineVars, fileVars, form1Vars, threadVars,
       sizeVars, loopVars
  <2>2. CASE Connected
    <3>1. Dialogue(u) /\ Transfer(u)
      BY <2>2 DEF SessionFits
    <3>2. (NoAck => NoAck') /\ (OneAck => OneAck')
      BY <2>1 DEF NoAck, OneAck
    <3>3. Dialogue(u)' /\ Transfer(u)'
      BY <2>1, <3>1, <3>2, SameSession
    <3> QED
      BY <2>1, <2>2, <3>3 DEF SessionFits, Connected
  <2>3. CASE ~Connected
    BY <2>1, <2>3 DEF SessionFits, Connected, Unconnected
  <2> QED
    BY <2>2, <2>3
<1> QED
  BY <1>1, <1>2, <1>3, <1>4, <1>5, <1>6 DEF UpdateNext, UpdateStep, Talk
-----------------------------------------------------------------------------
(* What is installed, also of packets that outlive their thread.           *)

(* The thread sends nothing behind a message that was not taken, except    *)
(* '3', and EOT only when the watch has the whole file.                    *)
LEMMA SentWhat ==
  ASSUME TypesFit, NEW u \in Updaters, SessionFits(u), Talk(u)
  PROVE  \/ toWatch' = toWatch
         \/ toWatch' = Append(toWatch, Plain("3"))
         \/ \E m \in Message :
              /\ toWatch = <<>> /\ toWatch' = <<m>>
              /\ m.kind = "eot" => \E f \in Images : Holds(f)
<1> USE DEF At
<1>0. ~Connected => ~PortWorks
  BY DEF Connected, PortWorks
<1>1. Listen(u) \/ WaitForChar(u) \/ ~PortWorks \/ updateio = 0 => toWatch' = toWatch
  BY DEF Talk, Listen, WaitForChar, SendCommand, SendHeader, SendData, SendEot, SendLast,
     SendPacket, WriteCom, PortWorks
<1> SUFFICES ASSUME PortWorks, ~(Listen(u) \/ WaitForChar(u))
             PROVE  \/ toWatch' = Append(toWatch, Plain("3"))
                    \/ \E m \in Message :
                         /\ toWatch = <<>> /\ toWatch' = <<m>>
                         /\ m.kind = "eot" => \E f \in Images : Holds(f)
  BY <1>1
<1>2. Dialogue(u) /\ Transfer(u) /\ updateio # 0
  BY <1>0 DEF SessionFits, Connected
<1>3. CASE upc[u] = "three"
  <2>1. ~(SendHeader(u) \/ SendData(u) \/ SendEot(u) \/ SendLast(u))
    BY <1>3 DEF SendHeader, SendData, SendEot, SendLast
  <2>2. SendCommand(u)
    BY <2>1 DEF Talk
  <2> QED
    BY <1>2, <1>3, <2>2 DEF SendCommand, Commands, WriteCom
<1>4. CASE upc[u] # "three"
  <2>1. PICK m \in Message : toWatch' \in {toWatch, Append(toWatch, m)}
    BY SentTypes
  <2>2. upc[u] \in {"hello", "start", "header", "data", "eot", "last"}
    BY <1>4 DEF Talk, SendCommand, SendHeader, SendData, SendEot, SendLast, Commands
  <2>3. toWatch = <<>>
    BY <1>2, <2>2 DEF Dialogue, Transfer
  <2>4. CASE upc[u] = "eot"
    <3>1. file[u] \in Images /\ Holds(file[u])
      BY <1>2, <2>4 DEF Transfer, TypesFit, ThreadFits, OwnFits, NoFileYet
    <3>2. Plain("eot") \in Message
      BY DEF Plain, Msg, Message, Kinds
    <3>3. toWatch' = <<Plain("eot")>>
      BY <2>3, <2>4
      DEF Talk, SendEot, SendCommand, SendHeader, SendData, SendLast, Commands, WriteCom
    <3> QED
      BY <2>3, <3>1, <3>2, <3>3
  <2>5. CASE upc[u] # "eot"
    <3>1. PICK k \in Message : toWatch' = Append(toWatch, k) /\ k.kind # "eot"
      <4>1. CASE SendCommand(u)
        <5>1. PICK c \in Kinds : toWatch' = Append(toWatch, Plain(c)) /\ c # "eot"
          BY <1>2, <4>1 DEF SendCommand, Commands, WriteCom, Kinds
        <5>2. Plain(c) \in Message /\ Plain(c).kind # "eot"
          BY <5>1 DEF Plain, Msg, Message
        <5> QED
          BY <5>1, <5>2
      <4>2. ASSUME NEW q, toWatch' = Append(toWatch, q), q.kind # "eot"
            PROVE  \E k \in Message : toWatch' = Append(toWatch, k) /\ k.kind # "eot"
        <5>1. toWatch' = <<q>>
          BY <2>3, <4>2
        <5>2. toWatch' = <<m>>
          BY <2>1, <2>3, <5>1
        <5>3. q = m
          BY <5>1, <5>2
        <5> QED
          BY <4>2, <5>3
      <4>3. /\ Msg("header", ImageSize[file[u]], <<>>).kind # "eot"
            /\ Msg("data", blk[u] % SeqMod, PreparePacket(pos[u], size[u])).kind # "eot"
            /\ Plain("end").kind # "eot"
        BY DEF Plain, Msg
      <4>4. CASE SendHeader(u) \/ SendData(u) \/ SendLast(u)
        <5>1. \E q \in {Msg("header", ImageSize[file[u]], <<>>),
                        Msg("data", blk[u] % SeqMod, PreparePacket(pos[u], size[u])),
                        Plain("end")} : toWatch' = Append(toWatch, q)
          BY <1>2, <4>4 DEF SendHeader, SendData, SendLast, SendPacket, WriteCom
        <5> QED
          BY <4>2, <4>3, <5>1
      <4> QED
        BY <2>5, <4>1, <4>4 DEF Talk, SendEot
    <3> QED
      BY <2>3, <3>1
  <2> QED
    BY <2>4, <2>5
<1> QED
  BY <1>3, <1>4

(* EOT is under way.                                                       *)
Eot == \E i \in DOMAIN toWatch : toWatch[i].kind = "eot"

(* What is taken off the line leaves nothing behind it but '3's.           *)
LEMMA OneTaken ==
  ASSUME TypesFit, OneMessage, toWatch # <<>>, toWatch' = Tail(toWatch)
  PROVE  OneMessage' /\ (Eot' => Eot) /\ (Head(toWatch).kind # "3" => ~Eot')
<1> DEFINE t == Tail(toWatch)
<1>1. /\ t \in Seq(Message) /\ DOMAIN t = 1 .. Len(t) /\ Len(t) = Len(toWatch) - 1
      /\ DOMAIN toWatch = 1 .. Len(toWatch) /\ Len(toWatch) \in Nat \ {0}
      /\ Head(toWatch) = toWatch[1] /\ \A i \in 1 .. Len(t) : t[i] = toWatch[i + 1]
  BY LineTypes, HeadTailProperties, LenProperties
<1> HIDE DEF t
<1>2. /\ 1 \in DOMAIN toWatch
      /\ \A i \in DOMAIN t : i \in Nat \ {0} /\ i + 1 \in DOMAIN toWatch
                             /\ t[i] = toWatch[i + 1] /\ i + 1 # 1
  BY <1>1
<1>3. ASSUME NEW i \in DOMAIN t, NEW j \in DOMAIN t, t[i].kind # "3", t[j].kind # "3"
      PROVE  i = j
  <2>1. i + 1 = j + 1
    BY <1>2, <1>3 DEF OneMessage
  <2> QED
    BY <1>2, <2>1
<1>4. ASSUME NEW i \in DOMAIN t, t[i].kind = "eot"
      PROVE  Eot /\ Head(toWatch).kind = "3"
  <2>1. i + 1 \in DOMAIN toWatch /\ toWatch[i + 1] = t[i] /\ i + 1 # 1
    BY <1>2
  <2>2. Head(toWatch).kind = "3"
    BY <1>1, <1>2, <1>4, <2>1 DEF OneMessage
  <2> QED
    BY <1>4, <2>1, <2>2 DEF Eot
<1>5. toWatch' = t
  BY DEF t
<1> QED
  BY <1>3, <1>4, <1>5 DEF OneMessage, Eot
(* What is sent behind it leaves one message, and EOT only with the image. *)
LEMMA OneSent ==
  ASSUME TypesFit, NEW u \in Updaters, SessionFits(u), Talk(u), OneMessage
  PROVE  OneMessage' /\ (Eot' => Eot \/ \E f \in Images : Holds(f))
<1>1. CASE toWatch' = toWatch
  BY <1>1 DEF OneMessage, Eot
<1>2. CASE toWatch' = Append(toWatch, Plain("3"))
  <2>1. toWatch \in Seq(Message) /\ DOMAIN toWatch = 1 .. Len(toWatch) /\ Len(toWatch) \in Nat
    BY LineTypes, LenProperties
  <2>2. /\ DOMAIN Append(toWatch, Plain("3")) = 1 .. Len(toWatch) + 1
        /\ \A i \in 1 .. Len(toWatch) + 1 :
             Append(toWatch, Plain("3"))[i] = IF i <= Len(toWatch) THEN toWatch[i] ELSE Plain("3")
    <3>1. Plain("3") \in Message
      BY DEF Plain, Msg, Message, Kinds
    <3> QED
      BY <2>1, <3>1
  <2>3. Plain("3").kind = "3"
    BY DEF Plain, Msg
  <2>4. \A i \in DOMAIN toWatch' :
          toWatch'[i].kind # "3" => i \in DOMAIN toWatch /\ toWatch'[i] = toWatch[i]
    BY <1>2, <2>1, <2>2, <2>3
  <2>5. OneMessage'
    BY <2>4 DEF OneMessage
  <2>6. Eot' => Eot
    BY <2>4 DEF Eot
  <2> QED
    BY <2>5, <2>6
<1>3. ASSUME NEW m \in Message, toWatch' = <<m>>,
             m.kind = "eot" => \E f \in Images : Holds(f)
      PROVE  OneMessage' /\ (Eot' => \E f \in Images : Holds(f))
  <2>1. DOMAIN toWatch' = {1} /\ toWatch'[1] = m
    BY <1>3
  <2> QED
    BY <1>3, <2>1 DEF OneMessage, Eot
<1> QED
  BY <1>1, <1>2, <1>3, SentWhat

(* Packets that arrive late find a watch that has no use for them.         *)
LEMMA ResidueNext ==
  ASSUME NEW u, Updaters = {u}, TypesFit, SessionFits(u), Residue, InstallsWholeImages,
         [UpdateNext]_allVars
  PROVE  Residue' /\ InstallsWholeImages'
<1> DEFINE Whole == \E f \in Images : Holds(f)
<1>0. /\ OneMessage /\ (mode = "last" \/ Eot => Whole) /\ u \in Updaters
      /\ Residue' <=> OneMessage' /\ (mode' = "last" \/ Eot' => Whole')
  BY DEF Residue, Ending, Eot
<1> HIDE DEF Whole
<1>1. ASSUME UNCHANGED installed PROVE InstallsWholeImages'
  BY <1>1 DEF InstallsWholeImages, Image
<1>2. ASSUME UNCHANGED <<announced, got>> PROVE Whole => Whole'
  BY <1>2 DEF Whole, Holds, Received
<1>3. CASE Talk(u)
  <2>1. UNCHANGED <<mode, announced, got, installed>>
    BY <1>0, <1>3, TalkKeeps DEF fileVars
  <2>2. OneMessage' /\ (Eot' => Eot \/ Whole)
    BY <1>0, <1>3, OneSent DEF Whole
  <2> QED
    BY <1>0, <1>1, <1>2, <2>1, <2>2
<1>4. ASSUME UNCHANGED <<toWatch, announced, got, installed>>, mode' = "last" => mode = "last"
      PROVE  Residue' /\ InstallsWholeImages'
  <2>1. OneMessage' /\ (Eot' => Eot)
    BY <1>0, <1>4 DEF OneMessage, Eot
  <2> QED
    BY <1>0, <1>1, <1>2, <1>4, <2>1
<1>5. CASE ClickUpdate(u) \/ OpenImage(u) \/ LoadImage(u) \/ InitPort(u) \/ CloseUpdate(u)
  <2>1. UNCHANGED <<toWatch, mode, announced, got, installed>>
    BY <1>5 DEF ClickUpdate, OpenImage, LoadImage, InitPort, CloseUpdate, loaderVars, lineVars,
       fileVars
  <2> QED
    BY <1>4, <2>1
<1>6. ASSUME toWatch # <<>>, toWatch' = Tail(toWatch)
      PROVE  OneMessage' /\ (Eot' => Eot) /\ (Head(toWatch).kind # "3" => ~Eot')
  BY <1>0, <1>6, OneTaken
<1>7. ASSUME toWatch # <<>>, toWatch' = Tail(toWatch), UNCHANGED <<announced, got, installed>>,
             mode' = "last" => Eot \/ mode = "last"
      PROVE  Residue' /\ InstallsWholeImages'
  BY <1>0, <1>1, <1>2, <1>6, <1>7
<1>8. CASE LoaderCommand \/ LoaderIgnore
  <2>1. /\ toWatch # <<>> /\ toWatch' = Tail(toWatch) /\ UNCHANGED <<announced, got, installed>>
        /\ mode' = "last" => mode = "last"
    BY <1>8 DEF LoaderCommand, LoaderIgnore, Arrives, Taken, fileVars
  <2> QED
    BY <1>7, <2>1
<1>9. CASE LoaderHeader \/ LoaderData
  <2>1. /\ toWatch # <<>> /\ toWatch' = Tail(toWatch) /\ Head(toWatch).kind # "3"
        /\ mode' # "last" /\ UNCHANGED installed
    BY <1>9 DEF LoaderHeader, LoaderData, Arrives, Taken
  <2> QED
    BY <1>0, <1>1, <1>6, <2>1
<1>10. CASE LoaderEot
  <2>1. /\ toWatch # <<>> /\ toWatch' = Tail(toWatch) /\ Head(toWatch).kind = "eot"
        /\ UNCHANGED <<announced, got, installed>>
    BY <1>10 DEF LoaderEot, Arrives, Taken, fileVars
  <2>2. 1 \in DOMAIN toWatch /\ toWatch[1].kind = "eot"
    BY <2>1, LineTypes, HeadTailProperties, LenProperties
  <2> QED
    BY <1>7, <2>1, <2>2 DEF Eot
<1>11. CASE LoaderEnd
  <2>1. /\ toWatch # <<>> /\ toWatch' = Tail(toWatch) /\ Head(toWatch).kind # "3"
        /\ mode = "last" /\ mode' # "last"
    BY <1>11 DEF LoaderEnd, Arrives, Taken
  <2>2. PICK f \in Images : Holds(f)
    BY <1>0, <2>1 DEF Whole
  <2>3. installed' = Append(installed, Image(f))
    BY <1>11, <2>2, EndInstalls
  <2>4. installed \in Seq(Seq(Byte \cup {<<>>}))
    BY DEF TypesFit, LoaderTypeOK
  <2>5. /\ DOMAIN installed' = 1 .. Len(installed) + 1 /\ DOMAIN installed = 1 .. Len(installed)
        /\ Len(installed) \in Nat /\ installed'[Len(installed) + 1] = Image(f)
        /\ \A k \in 1 .. Len(installed) : installed'[k] = installed[k]
    BY <2>3, <2>4
  <2>6. ASSUME NEW k \in DOMAIN installed'
        PROVE  \E g \in Images : installed'[k] = Image(g)
    <3>1. k \in DOMAIN installed \/ k = Len(installed) + 1
      BY <2>5
    <3> QED
      BY <2>5, <3>1 DEF InstallsWholeImages
  <2>7. InstallsWholeImages'
    BY <2>6 DEF InstallsWholeImages, Image
  <2> QED
    BY <1>0, <1>6, <2>1, <2>7
<1>12. CASE LoaderPoll
  BY <1>4, <1>12 DEF LoaderPoll, fileVars
<1>13. CASE LineStep
  <2>1. /\ UNCHANGED <<mode, announced, got, installed>>
        /\ toWatch' = toWatch \/ (toWatch # <<>> /\ toWatch' = Tail(toWatch))
    BY <1>13 DEF LineStep, Damage, Unplug, Arrives, Taken, fileVars
  <2> QED
    BY <1>4, <1>7, <2>1
<1>14. CASE UNCHANGED allVars
  BY <1>4, <1>14 DEF allVars, loaderVars, lineVars, fileVars
<1> QED
  BY <1>3, <1>5, <1>8, <1>9, <1>10, <1>11, <1>12, <1>13, <1>14
  DEF UpdateNext, UpdateStep, Talk, Loader

-----------------------------------------------------------------------------
(* The theorems about the program with one doUpdate thread.                *)

(* The invariant of one update thread, at the start, by every step, and    *)
(* always.                                                                 *)
LEMMA UpdateInvInit ==
  ASSUME NEW u, Updaters = {u}, UpdateInit PROVE UpdateInv(u)
<1>1. TypesFit
  BY ThreadInit, LoaderInitTypes DEF UpdateInit, TypesFit
<1>2. PortFits(u) /\ Fresh /\ Loaded(u)
  BY PortInit
<1>3. SessionFits(u)
  BY DEF UpdateInit, SessionFits, Connected, Before
<1>4. Residue /\ InstallsWholeImages
  BY DEF UpdateInit, LoaderInit, Residue, OneMessage, Ending, InstallsWholeImages
<1> QED
  BY <1>1, <1>2, <1>3, <1>4 DEF UpdateInv

LEMMA UpdateInvNext ==
  ASSUME NEW u, Updaters = {u}, UpdateInv(u), [UpdateNext]_allVars PROVE UpdateInv(u)'
<1>1. TypesFit'
  BY TypesNext, LoaderTypesNext DEF UpdateInv, TypesFit
<1>2. PortFits(u)' /\ Fresh'
  BY PortNext DEF UpdateInv
<1>3. Loaded(u)'
  BY LoadedNext DEF UpdateInv
<1>4. SessionFits(u)'
  BY SessionNext DEF UpdateInv
<1>5. Residue' /\ InstallsWholeImages'
  BY ResidueNext DEF UpdateInv
<1> QED
  BY <1>1, <1>2, <1>3, <1>4, <1>5 DEF UpdateInv

LEMMA UpdateInvAlways ==
  ASSUME NEW u, Updaters = {u} PROVE UpdateSpec => []UpdateInv(u)
<1>1. UpdateInit => UpdateInv(u)
  BY UpdateInvInit
<1>2. UpdateInv(u) /\ [UpdateNext]_allVars => UpdateInv(u)'
  BY UpdateInvNext
<1> QED
  BY <1>1, <1>2, PTL DEF UpdateSpec

(* Whichever of the exits doUpdate takes, and whether the port was opened  *)
(* or not, it leaves no open handle and no updateio.                       *)
THEOREM UpdatePortReleased ==
  ASSUME NEW u, Updaters = {u} PROVE UpdateSpec => []PortIsReleased
<1>1. UpdateInv(u) => PortIsReleased
  BY DEF UpdateInv, PortFits, PortIsReleased, Before
<1> QED
  BY <1>1, UpdateInvAlways, PTL

(* Ymodem_Transmit returns 0 only when the watch has installed exactly the *)
(* file that doUpdate opened: for every size of image, packet and flash,   *)
(* every number of tries, and any number of damaged packets, lost replies  *)
(* and late answers.                                                       *)
THEOREM UpdateSuccess ==
  ASSUME NEW u, Updaters = {u} PROVE UpdateSpec => []SuccessIsInstalled
<1>1. UpdateInv(u) => SuccessIsInstalled
  <2> SUFFICES ASSUME UpdateInv(u), At(u, "drain")
               PROVE  installed # <<>> /\ installed[Len(installed)] = Image(file[u])
    BY DEF SuccessIsInstalled
  <2>1. Connected
    BY DEF UpdateInv, SessionFits, Unconnected, At, Before
  <2>2. Installed(file[u])
    BY <2>1 DEF UpdateInv, SessionFits, Transfer
  <2> QED
    BY <2>2 DEF Installed
<1> QED
  BY <1>1, UpdateInvAlways, PTL

(* Also a transfer that doUpdate has given up, and whose last packets are  *)
(* still on the line when the next one loads its file, installs one whole  *)
(* image or none.                                                          *)
THEOREM UpdateWholeImages ==
  ASSUME NEW u, Updaters = {u} PROVE UpdateSpec => []InstallsWholeImages
<1>1. UpdateInv(u) => InstallsWholeImages
  BY DEF UpdateInv
<1> QED
  BY <1>1, UpdateInvAlways, PTL
=============================================================================
