--------------------------- MODULE UpdateToolProofs ---------------------------
(***************************************************************************)
(* UpdateTool for every set of images, also when the user closes the form  *)
(* as often as he likes: the buffer is not written to while the thread     *)
(* sends from it.                                                          *)
(***************************************************************************)
EXTENDS UpdateTool, TLAPS

(* The button is off from the click to the last step of the thread, and at *)
(* each moment one of the dialog, the event and the thread has the update. *)
OneUpdate ==
  /\ dialog \/ event = "set" \/ pc # "wait" => ~button
  /\ dialog => event # "set" /\ pc = "wait"
  /\ event = "set" => pc = "wait"

(* From the event to the end of the transfer there is an image.            *)
ImageLoaded ==
  \/ event = "set"
  \/ pc \in {"open", "write a0", "read a0", "write 1", "read 1", "transmit"}
  => image \in Images

ToolInv == ToolTypeOK /\ OneUpdate /\ ImageLoaded /\ SendsOneImage

-----------------------------------------------------------------------------
(* The form opens with nothing to send.                                    *)
LEMMA ToolInvInit == ToolInit => ToolInv
  BY DEF ToolInit, ToolInv, ToolTypeOK, OneUpdate, ImageLoaded, SendsOneImage, Steps

(* Each step of Process_Update is followed by the next one.                *)
LEMMA FollowingSteps ==
  /\ Following["open"] = "write a0" /\ Following["write a0"] = "read a0"
  /\ Following["read a0"] = "write 1" /\ Following["write 1"] = "read 1"
  /\ Following["read 1"] = "transmit" /\ Following["transmit"] = "read end"
  /\ Following["read end"] = "write 3" /\ Following["write 3"] = "read 3"
  /\ Following["read 3"] = "close"
  BY DEF Following, Steps

-----------------------------------------------------------------------------
(* Nothing changes when nothing happens.                                   *)
LEMMA ToolStutter == ToolInv /\ UNCHANGED toolVars => ToolInv'
<1> SUFFICES ASSUME ToolInv, UNCHANGED toolVars PROVE ToolInv'
  OBVIOUS
<1>1. /\ button' = button /\ dialog' = dialog /\ form' = form
      /\ closeTimer' = closeTimer /\ SystemThread' = SystemThread
      /\ pc' = pc /\ sending' = sending /\ hCom' = hCom
      /\ thread' = thread /\ terminated' = terminated
      /\ image' = image /\ event' = event
  BY Zenon DEF toolVars, formVars, sendVars, threadVars
<1>2. ToolTypeOK'
  <2>1. /\ (button \in BOOLEAN /\ dialog \in BOOLEAN /\ closeTimer \in BOOLEAN)'
        /\ (terminated \in BOOLEAN /\ SystemThread \in BOOLEAN)'
    BY <1>1, Zenon DEF ToolInv, ToolTypeOK
  <2>2. (image \in Images \cup {NoImage} /\ sending \in Images \cup {NoImage})'
    BY <1>1 DEF ToolInv, ToolTypeOK
  <2>3. (event \in {"set", "reset", "closed"} /\ pc \in Steps)'
    BY <1>1 DEF ToolInv, ToolTypeOK
  <2>4. /\ (hCom \in {"invalid", "open"} /\ thread \in {"alive", "freed"})'
        /\ (form \in {"open", "closed", "crashed"})'
    BY <1>1 DEF ToolInv, ToolTypeOK
  <2> QED
    BY <2>1, <2>2, <2>3, <2>4, Zenon DEF ToolTypeOK
<1>3. OneUpdate'
  BY <1>1, Zenon DEF ToolInv, OneUpdate
<1>4. ImageLoaded'
  BY <1>1, Zenon DEF ToolInv, ImageLoaded
<1>5. SendsOneImage'
  BY <1>1, Zenon DEF ToolInv, SendsOneImage
<1> QED
  BY <1>2, <1>3, <1>4, <1>5 DEF ToolInv

(* Each step of the form, its thread and its closing keeps ToolInv.        *)
LEMMA ToolInvNext == ToolInv /\ [ToolNext]_toolVars => ToolInv'
<1> SUFFICES ASSUME ToolInv, [ToolNext]_toolVars PROVE ToolInv'
  OBVIOUS
<1>0. \/ Click \/ GiveUpFile \/ GiveUpImage \/ LoadImage
      \/ TakeEvent \/ EndThread \/ StepWorks \/ TransmitFails \/ StepFails \/ Done
      \/ FormClose \/ CloseTimerTimer \/ UNCHANGED toolVars
  BY DEF ToolNext, Execute
<1> USE DEF ToolInv, ToolTypeOK, OneUpdate, ImageLoaded, SendsOneImage, Steps,
        formVars, sendVars, threadVars
<1>1. CASE Click
  BY <1>1 DEF Click
<1>2. CASE GiveUpFile
  BY <1>2 DEF GiveUpFile
<1>3. CASE GiveUpImage
  BY <1>3 DEF GiveUpImage
<1>4. CASE LoadImage
  BY <1>4 DEF LoadImage
<1>5. CASE TakeEvent
  BY <1>5 DEF TakeEvent
<1>6. CASE EndThread
  BY <1>6 DEF EndThread
<1>7. CASE StepWorks
  BY <1>7, FollowingSteps DEF StepWorks, Running
<1>8. CASE TransmitFails
  BY <1>8 DEF TransmitFails, Running
<1>9. CASE StepFails
  BY <1>9 DEF StepFails, Running
<1>10. CASE Done
  BY <1>10 DEF Done, Running
<1>11. CASE FormClose
  BY <1>11 DEF FormClose
<1>12. CASE CloseTimerTimer
  BY <1>12 DEF CloseTimerTimer
<1>13. CASE UNCHANGED toolVars
  BY <1>13, ToolStutter
<1> QED
  BY <1>0, <1>1, <1>2, <1>3, <1>4, <1>5, <1>6, <1>7, <1>8, <1>9, <1>10, <1>11,
     <1>12, <1>13

(* Whatever the user clicks, and however the steps before and the transfer *)
(* end, the image that Ymodem_Transmit sends is the one that was loaded.   *)
THEOREM OneImageSent == ToolSpec => []SendsOneImage
<1>1. ToolInv => SendsOneImage
  BY DEF ToolInv
<1> QED
  BY <1>1, ToolInvInit, ToolInvNext, PTL DEF ToolSpec
=============================================================================
