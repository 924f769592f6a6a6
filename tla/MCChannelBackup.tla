--------------------------- MODULE MCChannelBackup --------------------------
(***************************************************************************)
(* ChannelBackup for TLC.  The export and the pairing meet only in the     *)
(* installation and in a restart, so requests that race each other are     *)
(* explored while LND writes its first backup, and LND's second one beside *)
(* requests that do not.                                                   *)
(***************************************************************************)
EXTENDS ChannelBackup, TLC

Alike == Permutations(Requests) \cup Permutations(Devices)
Explored == version <= 1 \/ raced = {}
=============================================================================
