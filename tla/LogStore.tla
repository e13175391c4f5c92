------------------------------- MODULE LogStore -------------------------------
(***************************************************************************)
(* What "download log files" promises, without threads, port or protocol:  *)
(* a log is absent, being received, or stored; a log that stops half-way   *)
(* becomes absent again; a stored log stays; and only stored logs are ever *)
(* parsed.                                                                 *)
(***************************************************************************)
CONSTANT Numbers    (* the serial numbers of logs *)

VARIABLES store,    (* number -> "absent", "receiving" or "stored" *)
          parsed    (* the numbers that were parsed                *)

States == {"absent", "receiving", "stored"}

StoreTypeOK ==
  /\ store \in [Numbers -> States]
  /\ parsed \subseteq Numbers

Init ==
  /\ store \in [Numbers -> {"absent", "stored"}]
  /\ parsed \subseteq {n \in Numbers : store[n] = "stored"}

Begin(n) ==
  /\ \A m \in Numbers : store[m] # "receiving"
  /\ store[n] = "absent"
  /\ store' = [store EXCEPT ![n] = "receiving"]
  /\ UNCHANGED parsed

Complete(n) ==
  /\ store[n] = "receiving"
  /\ store' = [store EXCEPT ![n] = "stored"]
  /\ UNCHANGED parsed

Abort(n) ==
  /\ store[n] = "receiving"
  /\ store' = [store EXCEPT ![n] = "absent"]
  /\ UNCHANGED parsed

Parse(n) ==
  /\ store[n] = "stored"
  /\ parsed' = parsed \cup {n}
  /\ UNCHANGED store

Next == \E n \in Numbers : Begin(n) \/ Complete(n) \/ Abort(n) \/ Parse(n)

Spec == Init /\ [][Next]_<<store, parsed>>
=============================================================================
