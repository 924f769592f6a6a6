------------------------------ MODULE MCScreens ------------------------------
(***************************************************************************)
(* The bounds of Screens that go with the menu of a behaviour: where the   *)
(* operator goes, how many tabs he has open, and what other sessions do.   *)
(***************************************************************************)
EXTENDS Screens

\* Sections without a screen of the menu are left out, but for one; a wallet is
\* made from two homes, or the system's screens are visited.
Visited ==
    /\ section = "addons" => "install" \in menu
    /\ section = "onchain" => "wallet" \in menu /\ memory["system"] = 0
    /\ section = "system" => menu \cap {"autoUnlock", "p2p", "sshKeys"} # {}
                              /\ memory["onchain"] = 0

\* Two tabs, and a third for a second SSH key.
Few ==
    /\ Cardinality({i \in Slots : tabs[i].kind # "none"})
          <= IF "sshKey" \in menu THEN 3 ELSE 2
    /\ \A i \in Slots : tabs[i].kind = "device" => tabs[i].row = 1

\* Other sessions do what the menu is about; without its screen the wallet is
\* there from the start.
Related ==
    /\ "wallet" \in menu \/ node.wallet
    /\ node.autoUnlock => "autoUnlock" \in menu
    /\ node.mode = "hybrid" => "p2p" \in menu
    /\ node.addon => "install" \in menu

Explored == Visited /\ Few /\ Related
=============================================================================
