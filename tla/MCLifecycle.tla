------------------------------ MODULE MCLifecycle -----------------------------
(***************************************************************************)
(* The publication of the private tree on two kinds of file system: with   *)
(* one ordered journal, and with each directory durable on its own, where  *)
(* every fsync of internal/installer/lifecycle.go counts.                  *)
(***************************************************************************)
EXTENDS Lifecycle

CONSTANT SeparateInterruptions  \* the bound without an ordered journal

VARIABLE journal  \* "ordered" or "separate"

Separate == INSTANCE Lifecycle
  WITH OrderedJournal <- FALSE, MaxInterruptions <- SeparateInterruptions

MCInit == Init /\ journal \in {"ordered", "separate"}

MCNext ==
  /\ UNCHANGED journal
  /\ \/ journal = "ordered" /\ Next
     \/ journal = "separate" /\ Separate!Next

MCSpec ==
  /\ MCInit /\ [][MCNext]_<<vars, journal>>
  /\ WF_vars(journal = "ordered" /\ InstallStep)
  /\ WF_vars(journal = "ordered" /\ Start(None))
  /\ WF_vars(journal = "separate" /\ Separate!InstallStep)
  /\ WF_vars(journal = "separate" /\ Separate!Start(None))
===============================================================================
