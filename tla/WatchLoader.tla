----------------------------- MODULE WatchLoader -----------------------------
(***************************************************************************)
(* The boot loader of the watch and the serial line to it (external: only  *)
(* the part that doUpdate and Ymodem_Transmit rely on).  It shows a menu,  *)
(* takes a YMODEM file after '1', and installs it with the last packet.    *)
(* A packet is one message; the line may damage it or lose a reply, at     *)
(* most MaxFaults times, and it may go down for good.                      *)
(***************************************************************************)
EXTENDS Naturals, Sequences

CONSTANTS
  SeqMod,     (* packet numbers are taken modulo this (256: one byte)      *)
  MaxFaults,  (* bound: damaged packets, lost replies, late answers        *)
  MayUnplug   (* the line may go down                                      *)

ASSUME LoaderAssumption ==
  /\ SeqMod \in Nat \ {0, 1}
  /\ MaxFaults \in Nat
  /\ MayUnplug \in BOOLEAN

VARIABLES
  toWatch,    (* packets and commands on their way to the watch            *)
  fromWatch,  (* characters on their way to the program                    *)
  linkUp,     (* the line works                                            *)
  faults,     (* faults so far                                             *)
  mode,       (* "off", "menu", "wait" (for a file), "receive", "last"     *)
  announced,  (* size of the file that is being received                   *)
  expect,     (* number of the packet that comes next                      *)
  got,        (* bytes of its packets                                      *)
  installed   (* the files that were completely received, in order         *)

lineVars   == <<toWatch, fromWatch, linkUp, faults>>
fileVars   == <<announced, expect, got, installed>>
loaderVars == <<lineVars, mode, fileVars>>

Kinds == {"a0", "1", "3", "header", "data", "eot", "end"}
Chars == {"ACK", "NAK", "C", "text"}

Msg(kind, n, bytes) == [kind |-> kind, n |-> n, bytes |-> bytes]
Plain(kind)         == Msg(kind, 0, <<>>)

LoaderInit ==
  /\ toWatch = <<>> /\ fromWatch = <<>> /\ linkUp = TRUE /\ faults = 0
  /\ mode = "off"
  /\ announced = 0 /\ expect = 0 /\ got = <<>> /\ installed = <<>>

Arrives(kind) == linkUp /\ toWatch # <<>> /\ Head(toWatch).kind = kind
Taken         == toWatch' = Tail(toWatch)
Answer(chars) == fromWatch' = fromWatch \o chars

LoaderCommand ==
  /\ \/ Arrives("a0") /\ mode = "off" /\ mode' = "menu"
     \/ Arrives("1") /\ mode = "menu" /\ mode' = "wait"
  /\ Taken /\ Answer(<<"text">>)
  /\ UNCHANGED <<linkUp, faults, fileVars>>

LoaderHeader ==
  /\ Arrives("header") /\ mode = "wait"
  /\ Taken /\ Answer(<<"ACK", "C">>)
  /\ mode' = "receive"
  /\ announced' = Head(toWatch).n
  /\ expect' = 1 % SeqMod
  /\ got' = <<>>
  /\ UNCHANGED <<linkUp, faults, installed>>

LoaderData ==
  /\ Arrives("data") /\ mode = "receive"
  /\ Taken
  /\ IF Head(toWatch).n = expect
     THEN /\ Answer(<<"ACK">>)
          /\ got' = got \o Head(toWatch).bytes
          /\ expect' = (expect + 1) % SeqMod
     ELSE Answer(<<"NAK">>) /\ UNCHANGED <<got, expect>>
  /\ UNCHANGED <<linkUp, faults, mode, announced, installed>>

LoaderEot ==
  /\ Arrives("eot") /\ mode = "receive"
  /\ Taken /\ Answer(<<"ACK", "C">>)
  /\ mode' = "last"
  /\ UNCHANGED <<linkUp, faults, fileVars>>

(* The padding after the announced size is dropped.                        *)
LoaderEnd ==
  /\ Arrives("end") /\ mode = "last"
  /\ Taken /\ Answer(<<"ACK", "text">>)
  /\ mode' = "menu"
  /\ installed' = Append(installed, [k \in 1 .. announced |->
                    IF k <= Len(got) THEN got[k] ELSE <<>>])
  /\ UNCHANGED <<linkUp, faults, announced, expect, got>>

(* What does not fit the mode is ignored; '3' in the menu runs a program.  *)
LoaderIgnore ==
  /\ \/ Arrives("a0") /\ mode # "off"
     \/ Arrives("1") /\ mode # "menu"
     \/ Arrives("3")
     \/ Arrives("header") /\ mode # "wait"
     \/ Arrives("data") /\ mode # "receive"
     \/ Arrives("eot") /\ mode # "receive"
     \/ Arrives("end") /\ mode # "last"
  /\ Taken
  /\ UNCHANGED <<fromWatch, linkUp, faults, mode, fileVars>>

(* 'C' again and again until a file comes.                                 *)
LoaderPoll ==
  /\ linkUp /\ mode = "wait"
  /\ toWatch = <<>> /\ fromWatch = <<>>
  /\ Answer(<<"C">>)
  /\ UNCHANGED <<toWatch, linkUp, faults, mode, fileVars>>

Loader == \/ LoaderCommand \/ LoaderHeader \/ LoaderData \/ LoaderEot
          \/ LoaderEnd \/ LoaderIgnore \/ LoaderPoll

Damage ==
  /\ faults < MaxFaults /\ faults' = faults + 1
  /\ \/ \E kind \in {"header", "data", "end"} :
          /\ Arrives(kind) /\ mode \in {"wait", "receive", "last"}
          /\ Taken /\ Answer(<<"NAK">>)
     \/ /\ fromWatch # <<>>
        /\ fromWatch' = Tail(fromWatch)
        /\ UNCHANGED toWatch
  /\ UNCHANGED <<linkUp, mode, fileVars>>

Unplug ==
  /\ MayUnplug /\ linkUp
  /\ linkUp' = FALSE
  /\ UNCHANGED <<toWatch, fromWatch, faults, mode, fileVars>>
=============================================================================
