--------------------------- MODULE PortSearchProofs ---------------------------
(***************************************************************************)
(* PortSearch for every number of ports and every set of watches: the type *)
(* invariant, and that the port offered is the one the search promises.    *)
(***************************************************************************)
EXTENDS PortSearch, TLAPS

(* While checkComm is at port i it holds that one at most, and has it open *)
(* exactly between CreateFile and CloseHandle.                             *)
HoldsOnePort ==
  open = IF pc \in {"write", "read", "close"} THEN {i} ELSE {}

(* What the ports below i have told: the first watch among them, if any.   *)
FirstSoFar ==
  /\ i < MaxCom \/ pc \in {"loop", "done"}
  /\ pc \in {"write", "read"} => result = 0
  /\ result # 0 => result \in watches /\ result <= i
  /\ result # 0 => \A w \in watches : result <= w
  /\ result = 0 =>
       \A w \in watches : i <= w /\ (pc = "close" => i # w)

(* Unless the user closes the first dialog, nothing but the end of the     *)
(* search does.                                                            *)
SearchedBefore ==
  /\ pc = "none" => i = 0
  /\ (closing \/ ui # "start") /\ ~closed => pc = "done" /\ i = MaxCom

(* What the main dialog took from the search.                              *)
OfferFits ==
  /\ ui = "start" => offered = 0 /\ sync = "none"
  /\ offered # 0 => offered = result
  /\ ui # "start" /\ ~closed => offered = result
  /\ ~closed => sync # "failed"

SearchInv ==
  /\ SearchTypeOK /\ HoldsOnePort /\ FirstSoFar /\ SearchedBefore /\ OfferFits

-----------------------------------------------------------------------------
(* The program starts in the invariant.                                    *)
LEMMA SearchInvInit == SearchInit => SearchInv
<1> SUFFICES ASSUME SearchInit PROVE SearchInv
  OBVIOUS
<1> USE SearchAssumption DEF SearchInit
<1>1. SearchTypeOK
  <2>1. 0 \in Ports /\ 0 \in 0 .. MaxCom
    BY DEF SearchAssumption, Ports
  <2> QED
    BY <2>1 DEF SearchTypeOK
<1>2. HoldsOnePort /\ SearchedBefore /\ OfferFits
  BY DEF HoldsOnePort, SearchedBefore, OfferFits
<1>3. FirstSoFar
  BY DEF FirstSoFar
<1> QED
  BY <1>1, <1>2, <1>3 DEF SearchInv

(* Every step of CheckAll keeps it.                                        *)
LEMMA SearchInvSearch == SearchInv /\ Search => SearchInv'
<1> SUFFICES ASSUME SearchInv, Search PROVE SearchInv'
  OBVIOUS
<1> USE SearchAssumption
    DEF SearchInv, SearchTypeOK, HoldsOnePort, FirstSoFar, SearchedBefore,
        OfferFits, Ports
<1>1. CASE Skip
  BY <1>1 DEF Skip
<1>2. CASE OpenFails
  BY <1>2 DEF OpenFails, InUse
<1>3. CASE OpenPort
  BY <1>3 DEF OpenPort
<1>4. CASE WriteFails
  BY <1>4 DEF WriteFails
<1>5. CASE Written
  BY <1>5 DEF Written
<1>6. CASE ReadPort
  BY <1>6 DEF ReadPort
<1>7. CASE ClosePort
  BY <1>7 DEF ClosePort
<1>8. CASE EndSearch
  BY <1>8 DEF EndSearch
<1> QED
  BY <1>1, <1>2, <1>3, <1>4, <1>5, <1>6, <1>7, <1>8 DEF Search

(* And so does every step of the dialogs.                                  *)
LEMMA SearchInvNext == SearchInv /\ [SearchNext]_searchVars => SearchInv'
<1> SUFFICES ASSUME SearchInv, [SearchNext]_searchVars PROVE SearchInv'
  OBVIOUS
<1> USE SearchAssumption
    DEF SearchInv, SearchTypeOK, HoldsOnePort, FirstSoFar, SearchedBefore,
        OfferFits, Ports
<1>1. CASE StartSearch
  BY <1>1 DEF StartSearch
<1>2. CASE Search
  BY <1>2, SearchInvSearch
<1>3. CASE CloseEarly
  BY <1>3 DEF CloseEarly
<1>4. CASE MainDialog
  BY <1>4 DEF MainDialog
<1>5. CASE SyncOffered
  BY <1>5 DEF SyncOffered
<1>6. CASE EndMain
  BY <1>6 DEF EndMain
<1>7. CASE UNCHANGED searchVars
  BY <1>7 DEF searchVars
<1> QED
  BY <1>1, <1>2, <1>3, <1>4, <1>5, <1>6, <1>7 DEF SearchNext

(* What the search knows holds at every step.                              *)
LEMMA SearchInvAlways == SearchSpec => []SearchInv
  BY SearchInvInit, SearchInvNext, PTL DEF SearchSpec

(* The static result, the port number and what the dialogs hold keep their *)
(* types: i stays within max_com, although the loop goes on behind the     *)
(* main dialog.                                                            *)
THEOREM SearchTypes == SearchSpec => []SearchTypeOK
<1>1. SearchInv => SearchTypeOK
  BY DEF SearchInv
<1> QED
  BY <1>1, SearchInvAlways, PTL

(* checkComm has at most the port open that it is probing, and a search    *)
(* that is let run to its end leaves every port to Sync.                   *)
THEOREM PortsAreFree == SearchSpec => []LeavesPortsFree
<1>1. SearchInv => LeavesPortsFree
  BY DEF SearchInv, SearchTypeOK, HoldsOnePort, SearchedBefore, OfferFits,
         LeavesPortsFree
<1> QED
  BY <1>1, SearchInvAlways, PTL

(* Only a port with a watch is ever offered, the first one if the search   *)
(* is let run.                                                             *)
THEOREM FirstWatchOffered == SearchSpec => []OffersFirstWatch
<1>1. SearchInv => OffersFirstWatch
  BY SearchAssumption
  DEF SearchInv, SearchTypeOK, FirstSoFar, SearchedBefore, OfferFits,
      OffersFirstWatch, Ports
<1> QED
  BY <1>1, SearchInvAlways, PTL
=============================================================================
