------------------------------- MODULE PortUse -------------------------------
(***************************************************************************)
(* What the users of a serial port rely on: at most one ComIO object has   *)
(* the port open, a ReadFile or WriteFile runs on an open handle and never *)
(* beside another one, and the handle is not closed while one is running.  *)
(***************************************************************************)
CONSTANTS
  Objects,  (* ComIO objects                                               *)
  Threads   (* threads that read or write                                  *)

VARIABLES
  open,     (* objects whose handle is open                                *)
  using     (* <<thread, object>> for each ReadFile or WriteFile going on  *)

useVars == <<open, using>>

UseInit == open = {} /\ using = {}

Open(a) ==
  /\ open = {} /\ using = {}
  /\ open' = {a}
  /\ UNCHANGED using

Begin(x, a) ==
  /\ a \in open /\ using = {}
  /\ using' = {<<x, a>>}
  /\ UNCHANGED open

End ==
  /\ using # {}
  /\ using' = {}
  /\ UNCHANGED open

Close ==
  /\ open # {} /\ using = {}
  /\ open' = {}
  /\ UNCHANGED using

UseNext ==
  \/ \E a \in Objects : Open(a) \/ (\E x \in Threads : Begin(x, a))
  \/ End \/ Close

UseSpec == UseInit /\ [][UseNext]_useVars
=============================================================================
