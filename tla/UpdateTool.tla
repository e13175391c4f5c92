------------------------------ MODULE UpdateTool ------------------------------
(***************************************************************************)
(* The older firmware updater (Unit1.cxx): a form whose button loads an    *)
(* image and sets an event, and a thread that waits for the event and      *)
(* sends the image.  Only the disabled button keeps the form from loading  *)
(* another image into the buffer that the thread sends from.               *)
(*                                                                         *)
(* Nothing waits for the thread when the form closes: the form tells it to *)
(* terminate, and a timer closes the form some time later.                 *)
(***************************************************************************)
CONSTANTS
  Images,     (* what the user can load                                    *)
  NoImage,
  CloseOnce   (* the user does not close the form again before the timer   *)
              (* does                                                      *)

ASSUME ToolAssumption == NoImage \notin Images /\ CloseOnce \in BOOLEAN

VARIABLES
  button,     (* Button1 and ComboBox1 are enabled                         *)
  dialog,     (* OpenDialog1 is up                                         *)
  image,      (* Image_data                                                *)
  event,      (* START_UPDATE_EVENT: "set", "reset" or "closed"            *)
  pc,         (* the step of Process_Update, "wait" between updates        *)
  sending,    (* the image when the step before Ymodem_Transmit was done   *)
  hCom,       (* "invalid" or "open"                                       *)
  thread,     (* the TSystemThread: "alive" or "freed"                     *)
  terminated, (* its Terminated                                            *)
  SystemThread, (* the form's pointer to it is not NULL                    *)
  closeTimer, (* CloseTimer->Enabled                                       *)
  form        (* "open" or "closed"; "crashed" after a call of a freed     *)
              (* thread                                                    *)

formVars   == <<button, dialog, form, closeTimer, SystemThread>>
sendVars   == <<pc, sending, hCom>>
threadVars == <<thread, terminated>>
toolVars   == <<formVars, sendVars, threadVars, image, event>>

Steps == {"wait", "open", "write a0", "read a0", "write 1", "read 1",
          "transmit", "read end", "write 3", "read 3", "close"}

(* The step that comes after one that works.                               *)
Following ==
  [l \in Steps \ {"wait", "close"} |->
     CASE l = "open"     -> "write a0"
       [] l = "write a0" -> "read a0"
       [] l = "read a0"  -> "write 1"
       [] l = "write 1"  -> "read 1"
       [] l = "read 1"   -> "transmit"
       [] l = "transmit" -> "read end"
       [] l = "read end" -> "write 3"
       [] l = "write 3"  -> "read 3"
       [] l = "read 3"   -> "close"]

ToolTypeOK ==
  /\ button \in BOOLEAN /\ dialog \in BOOLEAN /\ closeTimer \in BOOLEAN
  /\ terminated \in BOOLEAN /\ SystemThread \in BOOLEAN
  /\ image \in Images \cup {NoImage} /\ sending \in Images \cup {NoImage}
  /\ event \in {"set", "reset", "closed"}
  /\ pc \in Steps
  /\ hCom \in {"invalid", "open"}
  /\ thread \in {"alive", "freed"}
  /\ form \in {"open", "closed", "crashed"}

(* TForm1, Thread_Init, TSystemThread. *)
ToolInit ==
  /\ button = TRUE /\ dialog = FALSE /\ form = "open" /\ closeTimer = FALSE
  /\ SystemThread = TRUE
  /\ image = NoImage /\ event = "reset"
  /\ pc = "wait" /\ sending = NoImage /\ hCom = "invalid"
  /\ thread = "alive" /\ terminated = FALSE

-----------------------------------------------------------------------------
(* Button1Click.                                                           *)

(* Mutant: the button stays enabled until a file has been chosen. *)
ClickEnabled ==
  /\ form = "open" /\ button /\ ~dialog
  /\ dialog' = TRUE
  /\ UNCHANGED <<button, form, closeTimer, SystemThread, sendVars, threadVars, image, event>>

Click ==
  /\ form = "open" /\ button /\ ~dialog
  /\ button' = FALSE /\ dialog' = TRUE
  /\ UNCHANGED <<form, closeTimer, SystemThread, sendVars, threadVars, image, event>>

(* No file, or a name that is too long.                                    *)
GiveUpFile ==
  /\ form = "open" /\ dialog
  /\ dialog' = FALSE /\ button' = TRUE
  /\ UNCHANGED <<form, closeTimer, SystemThread, sendVars, threadVars, image, event>>

(* The buffer was cleared before the file turned out not to open, to be    *)
(* too large or not to be readable.                                        *)
GiveUpImage ==
  /\ form = "open" /\ dialog
  /\ dialog' = FALSE /\ button' = TRUE
  /\ image' = NoImage
  /\ UNCHANGED <<form, closeTimer, SystemThread, sendVars, threadVars, event>>

LoadImage ==
  /\ form = "open" /\ dialog
  /\ dialog' = FALSE
  /\ image' \in Images
  /\ event' = "set"
  /\ UNCHANGED <<button, form, closeTimer, SystemThread, sendVars, threadVars>>

-----------------------------------------------------------------------------
(* The thread.                                                             *)

(* The event resets itself; a wait of three seconds that ends without it   *)
(* changes nothing but that Terminated is looked at.                       *)
TakeEvent ==
  /\ form = "open" /\ thread = "alive" /\ pc = "wait" /\ ~terminated
  /\ event = "set"
  /\ event' = "reset"
  /\ pc' = "open"
  /\ UNCHANGED <<formVars, sending, hCom, threadVars, image>>

EndThread ==
  /\ form = "open" /\ thread = "alive" /\ pc = "wait" /\ terminated
  /\ thread' = "freed"
  /\ UNCHANGED <<formVars, sendVars, terminated, image, event>>

Running == form = "open" /\ thread = "alive" /\ pc # "wait"

(* A step that works.  Ymodem_Transmit may leave the port closed, which    *)
(* the next step notices.                                                  *)
StepWorks ==
  /\ Running /\ pc # "close"
  /\ pc # "open" => hCom = "open"
  /\ hCom' \in (IF pc = "transmit" THEN {"open", "invalid"} ELSE {"open"})
  /\ sending' = IF pc = "read 1" THEN image ELSE sending
  /\ pc' = Following[pc]
  /\ UNCHANGED <<formVars, threadVars, image, event>>

(* After a failed transfer nothing is read, and '3' is sent all the same.  *)
TransmitFails ==
  /\ Running /\ pc = "transmit"
  /\ hCom' \in {"open", "invalid"}
  /\ pc' = "write 3"
  /\ UNCHANGED <<formVars, sending, threadVars, image, event>>

(* Mutant: the exit for a device that does not answer forgets the button. *)
StepFailsNoButton ==
  /\ Running /\ pc \notin {"transmit", "close"}
  /\ hCom' = "invalid"
  /\ button' = IF pc = "read a0" THEN button ELSE TRUE
  /\ pc' = "wait"
  /\ UNCHANGED <<dialog, form, closeTimer, SystemThread, sending, threadVars, image, event>>

(* Each exit closes the port, if the call that failed has not, and enables *)
(* the button; so does a device that says nothing.                         *)
StepFails ==
  /\ Running /\ pc \notin {"transmit", "close"}
  /\ hCom' = "invalid"
  /\ button' = TRUE
  /\ pc' = "wait"
  /\ UNCHANGED <<dialog, form, closeTimer, SystemThread, sending, threadVars, image, event>>

Done ==
  /\ Running /\ pc = "close"
  /\ hCom' = "invalid"
  /\ button' = TRUE
  /\ pc' = "wait"
  /\ UNCHANGED <<dialog, form, closeTimer, SystemThread, sending, threadVars, image, event>>

Execute == TakeEvent \/ EndThread \/ StepWorks \/ TransmitFails \/ StepFails \/ Done

-----------------------------------------------------------------------------
(* Closing.                                                                *)

(* FormClose as long as SystemThread is set: Terminate and the timer.  The *)
(* object of a thread that has ended has been freed.                       *)
FormClose ==
  /\ form = "open" /\ ~dialog /\ SystemThread
  /\ CloseOnce => ~closeTimer
  /\ form' = IF thread = "freed" THEN "crashed" ELSE form
  /\ terminated' = TRUE
  /\ closeTimer' = TRUE
  /\ UNCHANGED <<button, dialog, SystemThread, sendVars, thread, image, event>>

(* CloseTimerTimer, and FormClose once more, which now lets the form go.   *)
CloseTimerTimer ==
  /\ form = "open" /\ closeTimer
  /\ closeTimer' = FALSE
  /\ SystemThread' = FALSE
  /\ event' = "closed"
  /\ form' = "closed"
  /\ UNCHANGED <<button, dialog, sendVars, threadVars, image>>

ToolNext ==
  \/ Click \/ GiveUpFile \/ GiveUpImage \/ LoadImage
  \/ Execute \/ FormClose \/ CloseTimerTimer

(* The thread runs, every read and write returns, and the user deals with  *)
(* a file dialog in the end.                                               *)
ToolSpec ==
  /\ ToolInit /\ [][ToolNext]_toolVars
  /\ WF_toolVars(Execute) /\ WF_toolVars(GiveUpFile \/ GiveUpImage \/ LoadImage)

-----------------------------------------------------------------------------
(* The thread sends one image: the buffer does not change between the      *)
(* loader's answer and the end of Ymodem_Transmit, and there is one in it  *)
(* (Unit1.cxx:205, :225, :334).                                            *)
SendsOneImage ==
  pc = "transmit" => image = sending /\ image \in Images

(* The button comes back after every update and every failure, unless the  *)
(* form has been told to close: a click that comes then sets an event that *)
(* nobody waits for (Unit1.cxx:98, :254, :267-375).                        *)
ButtonComesBack == ~button ~> (button \/ terminated)
=============================================================================
