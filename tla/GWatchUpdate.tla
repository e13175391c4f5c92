---------------------------- MODULE GWatchUpdate ----------------------------
(***************************************************************************)
(* The firmware update: each click on Update starts a doUpdate thread that *)
(* reads an image file into the global Image_data, opens the port through  *)
(* the global Form1 (its member updateio), talks to the boot loader of the *)
(* watch and sends the image with Ymodem_Transmit.  Nothing stops two such *)
(* threads from running together.                                          *)
(*                                                                         *)
(* An image is a sequence of bytes <<f, 1>>, <<f, 2>> .. and its length is *)
(* counted in bytes; SmallPacket and BigPacket stand for 128 and 1024.     *)
(* A packet is written, and a reply byte read, in one step.                *)
(***************************************************************************)
EXTENDS WatchLoader, FiniteSets

CONSTANTS
  Updaters,     (* threads that can run doUpdate                           *)
  ImageSize,    (* file -> its length, for the files that can be chosen    *)
  NoImage,      (* no file, or a byte of no file                           *)
  SmallPacket,  (* PACKET_SIZE                                             *)
  BigPacket,    (* PACKET_1K_SIZE                                          *)
  FlashBlocks,  (* USER_FLASH_SIZE / 1024                                  *)
  Tries,        (* bytes awaited by Ymodem_WaitForChar, reads of a loop    *)
  ShortRead,    (* bound: what a ReadFile returns that does not return all *)
  MaxObjects    (* bound: ComIO objects that were ever left behind         *)

Images     == DOMAIN ImageSize
Objects    == 1 .. MaxObjects
FLASH_SIZE == FlashBlocks * BigPacket

ASSUME UpdateAssumption ==
  /\ ImageSize \in [Images -> Nat]
  /\ NoImage \notin Images
  /\ SmallPacket \in Nat \ {0}
  /\ BigPacket \in Nat /\ SmallPacket <= BigPacket
  /\ FlashBlocks \in Nat \ {0}
  /\ Tries \in Nat \ {0}
  /\ ShortRead \in Nat \ {0}
  /\ MaxObjects \in Nat \ {0}

VARIABLES
  image_data, (* Image_data                                                *)
  updateio,   (* Form1->updateio, 0 for NULL                               *)
  handle,     (* hCom of each object: "none", "open" or "invalid"          *)
  asked,      (* getCommPort was called: its result is no port name now    *)
  upc,        (* where each doUpdate thread is                             *)
  file,       (* the file it has opened                                    *)
  pos,        (* bytes read (len), later bytes sent (buf_ptr - buf)        *)
  size,       (* Ymodem_Transmit's size: bytes left                        *)
  blk,        (* Ymodem_Transmit's blkNumber                               *)
  tries,      (* what is left of the counter of the loop it is in          *)
  heard       (* total_length > 0                                          *)

form1Vars  == <<updateio, handle, asked>>
sizeVars   == <<pos, size, blk>>
loopVars   == <<tries, heard>>
threadVars == <<upc, file, sizeVars, loopVars>>
updateVars == <<image_data, form1Vars, threadVars>>
allVars    == <<updateVars, loaderVars>>

UpdatePCs == {"idle", "open", "load", "init", "hello", "listen", "start",
              "listen2", "header", "ack0", "c0", "data", "ackd", "eot",
              "acke", "last", "ackl", "drain", "three", "tail", "close", "free"}

Byte    == (Images \X Nat) \cup {NoImage}
Image(f) == [k \in 1 .. ImageSize[f] |-> <<f, k>>]

UpdateTypeOK ==
  /\ image_data \in [1 .. FLASH_SIZE -> Byte]
  /\ updateio \in 0 .. MaxObjects
  /\ handle \in [Objects -> {"none", "open", "invalid"}]
  /\ asked \in BOOLEAN
  /\ upc \in [Updaters -> UpdatePCs]
  /\ file \in [Updaters -> Images \cup {NoImage}]
  /\ pos \in [Updaters -> 0 .. FLASH_SIZE]
  /\ size \in [Updaters -> 0 .. FLASH_SIZE]
  /\ blk \in [Updaters -> 0 .. FlashBlocks]
  /\ tries \in [Updaters -> 0 .. Tries]
  /\ heard \in [Updaters -> BOOLEAN]

(* getCommPort may have been called by a doSync before.                    *)
UpdateInit ==
  /\ LoaderInit
  /\ image_data = [k \in 1 .. FLASH_SIZE |-> NoImage]
  /\ updateio = 0
  /\ handle = [o \in Objects |-> "none"]
  /\ asked \in BOOLEAN
  /\ upc = [u \in Updaters |-> "idle"]
  /\ file = [u \in Updaters |-> NoImage]
  /\ pos = [u \in Updaters |-> 0]
  /\ size = [u \in Updaters |-> 0]
  /\ blk = [u \in Updaters |-> 0]
  /\ tries = [u \in Updaters |-> 0]
  /\ heard = [u \in Updaters |-> FALSE]

At(u, l)   == upc[u] = l
Goto(u, l) == upc' = [upc EXCEPT ![u] = l]

(* The start of a loop of Tries reads.                                     *)
Loop(u) == tries' = [tries EXCEPT ![u] = Tries] /\ heard' = [heard EXCEPT ![u] = FALSE]

(* WriteCom writes nothing, and ReadCom reads nothing, on a handle that is *)
(* invalid or was closed, and on a port whose line is down.                *)
PortWorks == updateio # 0 /\ handle[updateio] = "open" /\ linkUp

WriteCom(m) == toWatch' = IF PortWorks THEN Append(toWatch, m) ELSE toWatch

(* A try that ends without a byte.  That the watch has yet to answer, or   *)
(* that its answer is late, counts as a fault.                             *)
Silence ==
  IF PortWorks /\ toWatch # <<>>
  THEN fromWatch = <<>> /\ faults < MaxFaults /\ faults' = faults + 1
  ELSE (PortWorks => fromWatch = <<>>) /\ UNCHANGED faults

-----------------------------------------------------------------------------
(* The window: IDC_UPDATE.                                                 *)

ClickUpdate(u) ==
  /\ At(u, "idle")
  /\ Goto(u, "open")
  /\ UNCHANGED <<image_data, form1Vars, file, sizeVars, loopVars, loaderVars>>

-----------------------------------------------------------------------------
(* doUpdate: the image file.                                               *)

(* Mutant: the size of the file is not tested. *)
FitsAlways(f) == TRUE

Fits(f) == ImageSize[f] <= FLASH_SIZE

(* The name is read from the stack frame of a window procedure that has    *)
(* returned: by now it names the file chosen last, or none.                *)
OpenImage(u) ==
  /\ At(u, "open")
  /\ \/ Goto(u, "idle") /\ UNCHANGED <<file, pos>>
     \/ \E f \in Images :
          /\ Fits(f)
          /\ file' = [file EXCEPT ![u] = f]
          /\ pos' = [pos EXCEPT ![u] = 0]
          /\ Goto(u, "load")
  /\ UNCHANGED <<image_data, form1Vars, size, blk, loopVars, loaderVars>>

(* One ReadFile: some of the bytes that are left, or an error.             *)
LoadImage(u) ==
  /\ At(u, "load")
  /\ \/ /\ pos[u] < ImageSize[file[u]]
        /\ \E n \in {ShortRead, ImageSize[file[u]] - pos[u]} :
             /\ pos[u] + n <= ImageSize[file[u]]
             /\ image_data' = [k \in 1 .. FLASH_SIZE |->
                                 IF k \in pos[u] + 1 .. pos[u] + n
                                 THEN <<file[u], k>> ELSE image_data[k]]
             /\ pos' = [pos EXCEPT ![u] = @ + n]
        /\ UNCHANGED upc
     \/ /\ pos[u] < ImageSize[file[u]]
        /\ Goto(u, "idle")
        /\ UNCHANGED <<image_data, pos>>
     \/ /\ pos[u] = ImageSize[file[u]]
        /\ Goto(u, "init")
        /\ UNCHANGED <<image_data, pos>>
  /\ UNCHANGED <<form1Vars, file, size, blk, loopVars, loaderVars>>

-----------------------------------------------------------------------------
(* doUpdate: the port, and the dialogue with the boot loader.              *)

(* Form1->Init forgets the object that updateio pointed to.  The port is   *)
(* opened for one handle alone, and only getCommPort's first result names  *)
(* it; nobody looks whether it was opened.                                 *)
InitPort(u) ==
  /\ At(u, "init")
  /\ \E o \in {q \in Objects : handle[q] = "none" /\ q # updateio} :
       /\ updateio' = o
       /\ \/ handle' = [handle EXCEPT ![o] = "invalid"]
          \/ /\ ~asked
             /\ \A q \in Objects : handle[q] # "open"
             /\ handle' = [handle EXCEPT ![o] = "open"]
  /\ asked' = TRUE
  /\ Goto(u, "hello")
  /\ UNCHANGED <<image_data, file, sizeVars, loopVars, loaderVars>>

Commands == [hello |-> "a0", start |-> "1", three |-> "3"]
Replies  == [hello |-> "listen", start |-> "listen2", three |-> "tail"]

(* UART_WRITE of a command: an error only without updateio.                *)
SendCommand(u) ==
  /\ upc[u] \in DOMAIN Commands
  /\ IF updateio = 0
     THEN Goto(u, "close") /\ UNCHANGED <<toWatch, loopVars>>
     ELSE WriteCom(Plain(Commands[upc[u]])) /\ Loop(u) /\ Goto(u, Replies[upc[u]])
  /\ UNCHANGED <<image_data, form1Vars, file, sizeVars,
                 fromWatch, linkUp, faults, mode, fileVars>>

(* Mutant: without an answer the thread returns and leaves the port open. *)
AfterLoopReturns(l, any) ==
  CASE l = "drain"           -> "three"
    [] l = "tail"            -> "close"
    [] l = "listen" /\ any   -> "start"
    [] l = "listen2" /\ any  -> "header"
    [] OTHER                 -> "idle"

(* Where a loop of reads leads, given whether anything was read at all.    *)
AfterLoop(l, any) ==
  CASE l = "drain"           -> "three"
    [] l = "tail"            -> "close"
    [] l = "listen" /\ any   -> "start"
    [] l = "listen2" /\ any  -> "header"
    [] OTHER                 -> "close"

Loops == {"listen", "listen2", "drain", "tail"}

Listen(u) ==
  /\ upc[u] \in Loops
  /\ IF updateio = 0
     THEN Goto(u, "close") /\ UNCHANGED <<fromWatch, faults, loopVars>>
     ELSE LET left == tries[u] - 1
              any  == heard[u] \/ (PortWorks /\ fromWatch # <<>>)
          IN  /\ \/ PortWorks /\ fromWatch # <<>> /\ UNCHANGED faults
                 \/ Silence
              /\ fromWatch' = IF PortWorks THEN <<>> ELSE fromWatch
              /\ tries' = [tries EXCEPT ![u] = left]
              /\ heard' = [heard EXCEPT ![u] = any]
              /\ IF left > 0 THEN UNCHANGED upc
                             ELSE Goto(u, AfterLoop(upc[u], any))
  /\ UNCHANGED <<image_data, form1Vars, file, sizeVars,
                 toWatch, linkUp, mode, fileVars>>

-----------------------------------------------------------------------------
(* Ymodem_Transmit.                                                        *)

(* Ymodem_SendPacket: a loop that only all bytes, or no updateio, ends.    *)
SendPacket(u, m, l) ==
  /\ \/ updateio = 0 /\ UNCHANGED toWatch
     \/ PortWorks /\ WriteCom(m)
  /\ Loop(u)
  /\ Goto(u, l)
  /\ UNCHANGED <<image_data, form1Vars, file,
                 fromWatch, linkUp, faults, mode, fileVars>>

SendHeader(u) ==
  /\ At(u, "header")
  /\ SendPacket(u, Msg("header", ImageSize[file[u]], <<>>), "ack0")
  /\ pos' = [pos EXCEPT ![u] = 0]
  /\ size' = [size EXCEPT ![u] = ImageSize[file[u]]]
  /\ blk' = [blk EXCEPT ![u] = 1]

PktSize(left) == IF left >= BigPacket THEN BigPacket ELSE SmallPacket

(* Mutant: the same bytes in every packet. *)
PreparePacketFromStart(start, left) ==
  [k \in 1 .. PktSize(left) |->
     IF k <= left THEN image_data[k] ELSE NoImage]

(* Ymodem_PreparePacket: the bytes at buf_ptr, filled up with 0x1A.        *)
PreparePacket(start, left) ==
  [k \in 1 .. PktSize(left) |->
     IF k <= left THEN image_data[start + k] ELSE NoImage]

SendData(u) ==
  /\ At(u, "data")
  /\ SendPacket(u, Msg("data", blk[u] % SeqMod, PreparePacket(pos[u], size[u])), "ackd")
  /\ UNCHANGED sizeVars

SendLast(u) ==
  /\ At(u, "last")
  /\ SendPacket(u, Plain("end"), "ackl")
  /\ UNCHANGED sizeVars

(* Send_Byte(EOT), which gives up after 25 tries.                          *)
SendEot(u) ==
  /\ At(u, "eot")
  /\ WriteCom(Plain("eot"))
  /\ Loop(u)
  /\ Goto(u, "acke")
  /\ UNCHANGED <<image_data, form1Vars, file, sizeVars,
                 fromWatch, linkUp, faults, mode, fileVars>>

Awaited == [ack0 |-> "ACK", c0 |-> "C", ackd |-> "ACK", acke |-> "ACK", ackl |-> "ACK"]

(* Mutant: any answer is taken for an ACK. *)
AcceptAny(u, c) == TRUE

Accept(u, c) == c = Awaited[upc[u]]

(* Mutant: it is full one block too early. *)
FlashFullEarly(u) == blk[u] = FlashBlocks - 1

(* blkNumber == USER_FLASH_SIZE/1024.                                      *)
FlashFull(u) == blk[u] = FlashBlocks

(* Behind an acknowledged data packet.                                     *)
Advance(u) ==
  LET pkt == PktSize(size[u]) IN
  IF size[u] > pkt
  THEN /\ size' = [size EXCEPT ![u] = @ - pkt]
       /\ pos' = [pos EXCEPT ![u] = @ + pkt]
       /\ IF FlashFull(u)
          THEN Goto(u, "three") /\ UNCHANGED blk
          ELSE Goto(u, "data") /\ blk' = [blk EXCEPT ![u] = @ + 1]
  ELSE /\ size' = [size EXCEPT ![u] = 0]
       /\ Goto(u, "eot")
       /\ UNCHANGED <<pos, blk>>

(* What an accepted answer leads to; with "drain" Ymodem_Transmit returns  *)
(* 0, and with "three" another value.                                      *)
Proceed(u) ==
  \/ At(u, "ack0") /\ Goto(u, "c0") /\ Loop(u) /\ UNCHANGED sizeVars
  \/ /\ At(u, "c0")
     /\ Goto(u, IF size[u] = 0 THEN "eot" ELSE "data")
     /\ UNCHANGED <<sizeVars, loopVars>>
  \/ At(u, "ackd") /\ Advance(u) /\ UNCHANGED loopVars
  \/ At(u, "acke") /\ Goto(u, "last") /\ UNCHANGED <<sizeVars, loopVars>>
  \/ At(u, "ackl") /\ Goto(u, "drain") /\ Loop(u) /\ UNCHANGED sizeVars

(* Mutant: the wait never gives up. *)
MissForEver(u) == UNCHANGED <<upc, loopVars, sizeVars>>

Miss(u) ==
  /\ tries' = [tries EXCEPT ![u] = @ - 1]
  /\ IF tries[u] = 1 THEN Goto(u, "three") ELSE UNCHANGED upc
  /\ UNCHANGED <<heard, sizeVars>>

(* Ymodem_WaitForChar: one byte, or the time of Receive_Byte.              *)
WaitForChar(u) ==
  /\ upc[u] \in DOMAIN Awaited
  /\ \/ /\ PortWorks /\ fromWatch # <<>>
        /\ fromWatch' = Tail(fromWatch)
        /\ IF Accept(u, Head(fromWatch)) THEN Proceed(u) ELSE Miss(u)
        /\ UNCHANGED faults
     \/ /\ Silence
        /\ Miss(u)
        /\ UNCHANGED fromWatch
  /\ UNCHANGED <<image_data, form1Vars, file,
                 toWatch, linkUp, mode, fileVars>>

-----------------------------------------------------------------------------
(* UART_CLOSE: the destructor closes the handle and sleeps 200 ms, then    *)
(* updateio is set to NULL, whatever it is by then.                        *)
CloseUpdate(u) ==
  /\ \/ /\ At(u, "close")
        /\ IF updateio = 0 THEN UNCHANGED handle
                           ELSE handle' = [handle EXCEPT ![updateio] = "none"]
        /\ fromWatch' = IF PortWorks THEN <<>> ELSE fromWatch
        /\ Goto(u, "free")
        /\ UNCHANGED updateio
     \/ /\ At(u, "free")
        /\ updateio' = 0
        /\ Goto(u, "idle")
        /\ UNCHANGED <<handle, fromWatch>>
  /\ UNCHANGED <<image_data, asked, file, sizeVars, loopVars,
                 toWatch, linkUp, faults, mode, fileVars>>

-----------------------------------------------------------------------------
UpdateStep(u) ==
  \/ OpenImage(u) \/ LoadImage(u) \/ InitPort(u) \/ SendCommand(u) \/ Listen(u)
  \/ SendHeader(u) \/ SendData(u) \/ SendEot(u) \/ SendLast(u)
  \/ WaitForChar(u) \/ CloseUpdate(u)

LineStep == Damage \/ Unplug

UpdateNext ==
  \/ \E u \in Updaters : UpdateStep(u) \/ ClickUpdate(u)
  \/ (Loader \/ LineStep) /\ UNCHANGED updateVars

UpdateSpec == UpdateInit /\ [][UpdateNext]_allVars

(* The threads and the watch keep running; the user and the faults of the  *)
(* line promise nothing.                                                   *)
UpdateLiveSpec ==
  /\ UpdateSpec
  /\ \A u \in Updaters : WF_allVars(UpdateStep(u))
  /\ WF_allVars(Loader /\ UNCHANGED updateVars)

-----------------------------------------------------------------------------
(* Safety.                                                                 *)

(* When Ymodem_Transmit returns 0 and the user reads "file Transmitted     *)
(* successfully", the watch has installed exactly the file that this       *)
(* thread opened, whatever the line did to packets and replies.            *)
SuccessIsInstalled ==
  \A u \in Updaters :
    At(u, "drain") => installed # <<>> /\ installed[Len(installed)] = Image(file[u])

(* The watch never installs anything but one whole image file.             *)
InstallsWholeImages ==
  \A k \in DOMAIN installed : \E f \in Images : installed[k] = Image(f)

(* Between two updates the port is closed and updateio is NULL, whichever  *)
(* of the ten exits of doUpdate the last one took.                         *)
PortIsReleased ==
  (\A u \in Updaters : upc[u] \in {"idle", "open", "load", "init"}) =>
    updateio = 0 /\ \A o \in Objects : handle[o] = "none"

-----------------------------------------------------------------------------
(* Liveness.                                                               *)

(* Every doUpdate thread comes to its end, also when packets, replies or   *)
(* the patience of a loop are lost.  A line that goes down is excepted:    *)
(* Ymodem_SendPacket then repeats its write for ever (ymodem.cpp:248).     *)
UpdateEnds == \A u \in Updaters : At(u, "load") ~> At(u, "idle") \/ ~linkUp

(* The number of packets that an image takes.                              *)
Packets(n) == (n \div BigPacket) + (((n % BigPacket) + SmallPacket - 1) \div SmallPacket)

(* Without a fault, an image that passed the test of its size is sent and  *)
(* installed, and no stray 'C' stops it, unless its packets, small ones    *)
(* included, are more than the flash has blocks (ymodem.cpp:363): such an  *)
(* image, which the test of the size lets pass, is given up with bytes     *)
(* left.  With a fault any may be, since a NAK is never answered (:354).   *)
TransferCompletes ==
  \A u \in Updaters :
    LET fits == Packets(ImageSize[file[u]]) <= FlashBlocks
    IN  At(u, "header") /\ PortWorks ~> \/ At(u, "drain") /\ fits
                                        \/ At(u, "three") /\ size[u] > 0 /\ ~fits
                                        \/ faults > 0 \/ ~linkUp
=============================================================================
