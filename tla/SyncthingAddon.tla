--------------------------- MODULE SyncthingAddon ---------------------------
(***************************************************************************)
(* The Syncthing add-on (internal/installer/syncthing.go, the step list of *)
(* setup.go and the helper's verb): its installation, which starts the     *)
(* daemon only with a configuration that was verified and keeps it only    *)
(* when the running daemon confirms it, and the pairing of devices, which  *)
(* terminal UIs perform over the daemon's REST interface, each pairing and *)
(* each removal in a goroutine of its own that outlives its screen.        *)
(***************************************************************************)
EXTENDS Naturals

CONSTANTS Requests,   \* pairings and removals that may be under way at once,
                      \* in any number of terminal UIs
          Devices,
          MaxTroubles \* bound on failed calls, kills and reboots

ASSUME MaxTroublesAssumption == MaxTroubles \in Nat

VARIABLES
  install,  \* the step the installation is in
  residue,  \* something of the add-on is on the disk
  tor,      \* Tor's configuration holds the add-on's onions
  enabled,  \* SyncthingEnabled in the published configuration
  daemon,   \* "down", "starting", "confirmed", or "suspect" once it was to stop
  atBoot,   \* the unit is enabled
  folder,   \* the backup folder is registered
  known,    \* the devices the daemon knows
  shares,   \* the devices the folder is shared with
  request,  \* each request's progress
  raced,    \* the devices whose last request met another one
  told,     \* the devices the operator was last told are paired
  troubles

addonVars == <<install, residue, tor, enabled, daemon, atBoot, folder, known, shares,
               request, raced, told, troubles>>
installation == <<install, residue, tor, enabled, atBoot, folder>>
pairing == <<known, shares, request, raced, told>>

Steps == {"none", "download", "binary", "folders", "config", "tor", "start", "confirm", "register", "watch",
          "export", "stage", "save"}
Nobody == [pc |-> "idle", device |-> {}, list |-> {}]
Request == [pc : {"idle", "add", "get", "patch", "remove"},
            device : SUBSET Devices, list : SUBSET Devices]

AddonInit ==
  /\ install = "none" /\ residue = FALSE /\ tor = FALSE /\ enabled = FALSE
  /\ daemon = "down" /\ atBoot = FALSE /\ folder = FALSE
  /\ known = {} /\ shares = {}
  /\ request = [s \in Requests |-> Nobody] /\ raced = {} /\ told = {}
  /\ troubles = 0

Trouble == troubles < MaxTroubles /\ troubles' = troubles + 1

-----------------------------------------------------------------------------
(* verbSyncthingInstall.                                                   *)

Step(from, to) == install = from /\ install' = to
Installing == install # "none"

\* The operator asks for the add-on.  What is enabled is refused, and so is
\* everything that an earlier installation left.
AskInstall ==
  /\ ~Installing /\ ~enabled /\ ~residue
  /\ install' = "download"
  /\ UNCHANGED <<residue, tor, enabled, daemon, atBoot, folder, pairing, troubles>>

\* Archive and checksums are fetched through Tor and verified in a directory
\* of the helper's own.
DownloadSyncthing ==
  /\ Step("download", "binary")
  /\ UNCHANGED <<residue, tor, enabled, daemon, atBoot, folder, pairing, troubles>>

\* From the binary on, what is written is residue.
InstallBinary ==
  /\ Step("binary", "folders") /\ residue' = TRUE
  /\ UNCHANGED <<tor, enabled, daemon, atBoot, folder, pairing, troubles>>

\* Accounts, the folders of the export and the unit.
CreateFolders ==
  /\ Step("folders", "config")
  /\ UNCHANGED <<residue, tor, enabled, daemon, atBoot, folder, pairing, troubles>>

\* configureSyncthingAuth: keys are generated, the configuration is authored
\* around them and read back.
AuthorConfig ==
  /\ Step("config", "tor")
  /\ UNCHANGED <<residue, tor, enabled, daemon, atBoot, folder, pairing, troubles>>

\* configureAndReloadTorForSyncthing: the onion's configuration is written,
\* Tor reloads it and names the onion.
ConfigureTor ==
  /\ Step("tor", "start") /\ tor' = TRUE
  /\ UNCHANGED <<residue, enabled, daemon, atBoot, folder, pairing, troubles>>

\* startSyncthing: enabled, started, and ready.
StartDaemon ==
  /\ Step("start", "confirm")
  /\ atBoot' = TRUE /\ daemon' = "starting"
  /\ UNCHANGED <<residue, tor, enabled, folder, pairing, troubles>>

\* confirmSyncthingPrivacy, and the readiness before it: a daemon that does
\* not answer, or answers otherwise, is stopped and disabled.
ConfirmPrivacy ==
  /\ install = "confirm"
  /\ \/ /\ install' = "register" /\ daemon' = "confirmed"
        /\ UNCHANGED <<atBoot, troubles>>
     \/ /\ install' = "none" /\ daemon' = "down" /\ atBoot' = FALSE
        /\ Trouble
  /\ UNCHANGED <<residue, tor, enabled, folder, pairing>>

\* registerBackupFolder: a folder with the identifier is left as it is.
RegisterFolder ==
  /\ Step("register", "watch") /\ folder' = TRUE
  /\ UNCHANGED <<residue, tor, enabled, daemon, atBoot, pairing, troubles>>

\* setupChannelBackupWatcher, which waits for the first export.
SetUpWatcher ==
  /\ Step("watch", "export")
  /\ UNCHANGED <<residue, tor, enabled, daemon, atBoot, folder, pairing, troubles>>

\* The API key and the password are staged for the operator, then the setting
\* is published.
StageCredentials ==
  /\ Step("stage", "save")
  /\ UNCHANGED <<residue, tor, enabled, daemon, atBoot, folder, pairing, troubles>>

PublishSetting ==
  /\ Step("save", "none") /\ enabled' = TRUE
  /\ UNCHANGED <<residue, tor, daemon, atBoot, folder, pairing, troubles>>

\* A step fails, or the helper is killed in it: nothing is undone, not even
\* the unit's enabling when its start fails, but for Tor's configuration,
\* which is rolled back unless that fails too.
InstallFails ==
  /\ Installing /\ Trouble
  /\ install' = "none"
  /\ \/ UNCHANGED residue
     \/ install = "binary" /\ residue' = TRUE
  /\ \/ UNCHANGED tor
     \/ install = "tor" /\ tor' = TRUE
  /\ \/ UNCHANGED atBoot
     \/ install = "start" /\ atBoot' = TRUE
  /\ UNCHANGED <<enabled, daemon, folder, pairing>>

-----------------------------------------------------------------------------
(* Pairing, over REST: each call succeeds, fails, or succeeds although its *)
(* answer is lost.  An answer counts as told whether its screen is still   *)
(* open or not.                                                            *)

Up == daemon # "down"
UnderWay == {s \in Requests : request[s] # Nobody}
Becomes(s, r) == request' = [request EXCEPT ![s] = r]
TellPaired(s) == told' = told \cup request[s].device /\ Becomes(s, Nobody)
TellOther(s) == UNCHANGED told /\ Becomes(s, Nobody)

\* A pairing or a removal is submitted.  Nothing waits for the others: the
\* screen of one that is under way may be left or closed, and there are other
\* terminal UIs.
BeginPairing(s) ==
  /\ enabled /\ request[s] = Nobody
  /\ \E d \in Devices, l \in {"add", "remove"} :
       /\ Becomes(s, [pc |-> l, device |-> {d}, list |-> {}])
       /\ told' = told \ {d}
       /\ raced' = IF UnderWay = {} THEN raced \ {d}
                   ELSE raced \cup {d} \cup UNION {request[t].device : t \in UnderWay}
  /\ UNCHANGED <<installation, daemon, known, shares, troubles>>

\* POST of the device.
AddDevice(s) ==
  /\ request[s].pc = "add" /\ Up
  /\ known' = known \cup request[s].device
  /\ Becomes(s, [request[s] EXCEPT !.pc = "get"])
  /\ UNCHANGED <<installation, daemon, shares, raced, told, troubles>>

\* GET of the folders; addDeviceToBackupFolder has nothing to do for a device
\* the folder is shared with.
GetFolder(s) ==
  /\ request[s].pc = "get" /\ Up
  /\ \/ /\ ~folder /\ TellOther(s)
     \/ /\ folder /\ request[s].device \subseteq shares /\ TellPaired(s)
     \/ /\ folder /\ ~(request[s].device \subseteq shares)
        /\ Becomes(s, [request[s] EXCEPT !.pc = "patch", !.list = shares])
        /\ UNCHANGED told
  /\ UNCHANGED <<installation, daemon, known, shares, raced, troubles>>

\* Mutant: only the new device is sent, "PATCH replaces child arrays WHOLESALE".
PatchFolderAlone(s) ==
  /\ request[s].pc = "patch" /\ Up
  /\ shares' = request[s].device \cap known
  /\ TellPaired(s)
  /\ UNCHANGED <<installation, daemon, known, raced, troubles>>

\* PATCH of the merged list; the daemon drops devices it does not know.
PatchFolder(s) ==
  /\ request[s].pc = "patch" /\ Up
  /\ shares' = (request[s].list \cup request[s].device) \cap known
  /\ TellPaired(s)
  /\ UNCHANGED <<installation, daemon, known, raced, troubles>>

\* UnpairSyncthingDevice: the daemon removes the device from its folders.
RemoveDevice(s) ==
  /\ request[s].pc = "remove" /\ Up
  /\ known' = known \ request[s].device /\ shares' = shares \ request[s].device
  /\ TellOther(s)
  /\ UNCHANGED <<installation, daemon, raced, troubles>>

\* A call that fails, having been performed or not.
CallFails(s) ==
  /\ request[s].pc # "idle" /\ Trouble /\ TellOther(s)
  /\ \/ UNCHANGED <<known, shares>>
     \/ /\ request[s].pc = "add" /\ known' = known \cup request[s].device
        /\ UNCHANGED shares
     \/ /\ request[s].pc = "patch" /\ UNCHANGED known
        /\ shares' = (request[s].list \cup request[s].device) \cap known
     \/ /\ request[s].pc = "remove" /\ known' = known \ request[s].device
        /\ shares' = shares \ request[s].device
  /\ UNCHANGED <<installation, daemon, raced>>

\* The node restarts: the helper's installation and the terminal UIs are gone,
\* and systemd starts what is enabled.
Reboot ==
  /\ Trouble
  /\ install' = "none"
  /\ daemon' = IF ~atBoot THEN "down" ELSE IF daemon = "confirmed" THEN daemon ELSE "suspect"
  /\ request' = [s \in Requests |-> Nobody]
  /\ UNCHANGED <<residue, tor, enabled, atBoot, folder, known, shares, raced, told>>
=============================================================================
