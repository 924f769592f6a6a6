--------------------------- MODULE InstallAuthority ---------------------------
(***************************************************************************)
(* What the files of an installation promise to the next `vpn install`     *)
(* (internal/installer/lifecycle.go): in which part of its lifecycle the   *)
(* host is and for which Bitcoin network.  Before anything durable records *)
(* a step, a power loss may take back what was published; afterwards the   *)
(* lifecycle never falls behind the records and its network never changes. *)
(* No state is one that the installer refuses.                             *)
(***************************************************************************)
CONSTANT Networks

VARIABLES
  disposition,  \* what the next run finds
  network,      \* and for which network
  assured       \* what a power loss cannot take back

vars == <<disposition, network, assured>>

None == "none"  \* not a network

Init == disposition = "pristine" /\ network = None /\ assured = "nothing"

(* The lifecycle is claimed for one network.                               *)
Claim ==
  /\ disposition = "pristine" /\ disposition' = "bootstrap"
  /\ network' \in Networks
  /\ UNCHANGED assured

(* Its private tree is complete.                                           *)
Publish ==
  /\ disposition = "bootstrap" /\ disposition' = "resumable"
  /\ UNCHANGED <<network, assured>>

(* The last step has been recorded.                                        *)
Complete ==
  /\ disposition = "resumable" /\ disposition' = "completed"
  /\ UNCHANGED <<network, assured>>

(* Records become durable.                                                 *)
Assure ==
  /\ \/ assured = "nothing" /\ disposition \in {"resumable", "completed"}
        /\ assured' \in {"steps", "completion"}
     \/ assured = "steps" /\ assured' = "completion"
  /\ assured' = "completion" => disposition = "completed"
  /\ UNCHANGED <<disposition, network>>

(* A power loss takes back what is not durable.                            *)
Lose ==
  /\ \/ assured = "nothing" /\ disposition' = "pristine" /\ network' = None
     \/ assured = "nothing" /\ disposition \in {"resumable", "completed"}
        /\ disposition' = "bootstrap" /\ UNCHANGED network
     \/ assured # "completion" /\ disposition = "completed"
        /\ disposition' = "resumable" /\ UNCHANGED network
  /\ UNCHANGED assured

Next == Claim \/ Publish \/ Complete \/ Assure \/ Lose

Spec == Init /\ [][Next]_vars
===============================================================================
