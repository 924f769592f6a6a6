---------------------------- MODULE ChannelBackup ---------------------------
(***************************************************************************)
(* The way of LND's channel.backup off the node: the export of             *)
(* BackupExport, which the last steps of SyncthingAddon's installation     *)
(* switch on, and the devices that Syncthing shares it with.               *)
(***************************************************************************)
EXTENDS BackupExport, SyncthingAddon

vars == <<exportVars, addonVars>>

Init == ExportInit /\ AddonInit

Export == \E p \in Publishers : publishLNDBackup(p) \/ Interrupt(p)

\* The folders of the export exist from the installation's binary on.
Publishing ==
  /\ \/ Export
     \/ residue /\ \E p \in Publishers : RunByHand(p)
     \/ SwapBackup \/ BeginRewrite \/ EndRewrite \/ Writeback
  /\ UNCHANGED addonVars

SetUpExport == SetUpWatcher /\ WatchBackup

\* systemctl start of a oneshot unit returns with its result.
AwaitExport ==
  /\ install = "export" /\ At(Service, "idle")
  /\ install' = IF pub[Service].answer = "error" THEN "none" ELSE "stage"
  /\ UNCHANGED <<exportVars, residue, tor, enabled, daemon, atBoot, folder, pairing, troubles>>

Addon ==
  /\ \/ AskInstall \/ DownloadSyncthing \/ InstallBinary \/ CreateFolders
     \/ AuthorConfig \/ ConfigureTor \/ StartDaemon
     \/ ConfirmPrivacy \/ RegisterFolder \/ StageCredentials \/ PublishSetting
     \/ InstallFails
     \/ \E s \in Requests :
          BeginPairing(s) \/ AddDevice(s) \/ GetFolder(s) \/ PatchFolder(s)
            \/ RemoveDevice(s) \/ CallFails(s)
  /\ UNCHANGED exportVars

Restart == PowerLoss /\ Reboot

Next == Publishing \/ SetUpExport \/ AwaitExport \/ Addon \/ Restart

Spec == Init /\ [][Next]_vars
-----------------------------------------------------------------------------
TypeOK ==
  /\ ExportTypeOK
  /\ install \in Steps /\ residue \in BOOLEAN /\ tor \in BOOLEAN /\ enabled \in BOOLEAN
  /\ daemon \in {"down", "starting", "confirmed", "suspect"}
  /\ atBoot \in BOOLEAN /\ folder \in BOOLEAN
  /\ known \subseteq Devices /\ shares \subseteq known
  /\ request \in [Requests -> Request]
  /\ raced \subseteq Devices /\ told \subseteq Devices
  /\ troubles \in 0..MaxTroubles

\* A device the operator was told is paired gets the backups, over an onion
\* that exists ("a silent false success here is forbidden"), if no other request
\* was under way with its own: whatever else is paired or removed later, also
\* by requests that race each other and send lists that are out of date.  Of
\* two requests that meet, one may take the other's share away again, which
\* addDeviceToBackupFolder does not prevent.
PairedIsShared ==
  told # {} => told \ raced \subseteq shares /\ folder /\ watching /\ tor
=============================================================================
