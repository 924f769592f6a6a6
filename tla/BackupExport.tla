---------------------------- MODULE BackupExport ----------------------------
(***************************************************************************)
(* How a new channel.backup of LND reaches the folder that Syncthing may   *)
(* read (internal/installer: lnd_backup_export_linux.go and the units of   *)
(* syncthing.go).  systemd watches LND's file and runs a publisher, which  *)
(* copies the file into a private stage, checks that what it copied is     *)
(* still what the path holds, renames the copy into the export and makes   *)
(* that durable.                                                           *)
(*                                                                         *)
(* A backup is a pair of halves, each carrying the number of the version   *)
(* it belongs to, so that a copy taken while the file changes can be told  *)
(* from a version of LND's.  Version 0 stands for a file that is absent.   *)
(***************************************************************************)
EXTENDS Naturals

CONSTANTS Publishers,
          Service,     \* the publisher that systemd starts
          Rewrites,    \* how LND's file changes: "swap" by rename, "inplace"
          MaxVersion,  \* bound on the versions LND writes
          MaxFaults    \* bound on failures, kills and losses of power

ASSUME PublishersAssumption == Service \in Publishers
ASSUME RewritesAssumption == Rewrites \subseteq {"swap", "inplace"}
ASSUME BoundsAssumption == MaxVersion \in Nat /\ MaxFaults \in Nat

VARIABLES
  file,      \* the content of every file that was ever LND's channel.backup
  path,      \* the one that LND's path names, 0 before the first
  version,   \* the newest version LND has begun to write
  writing,   \* a rewrite in place is half done
  pub,       \* what each publisher is doing
  export,    \* the published file as it can be read
  kept,      \* the content it has after a loss of power
  watching,  \* lnd-backup-watch.path is started
  missed,    \* a change came while the service was running
  faults

source == <<file, path, version, writing>>
exportVars == <<file, path, version, writing, pub, export, kept, watching, missed, faults>>

Versions == 0..MaxVersion
Contents == Versions \X Versions
Absent == <<0, 0>>
Torn == <<0, 1>>

\* LND writes the first half of a version before the second one: these are
\* the contents its file goes through.
Existed(c) == c[1] = c[2] \/ c[1] = c[2] + 1
NotNewer(c, d) == c[1] <= d[1] /\ c[2] <= d[2]

Locked == {"copy.1", "copy.2", "reread.1", "reread.2", "path", "sync", "rename",
           "verify", "commit"}
Publisher == [pc : {"idle", "open", "lock"} \cup Locked,
              file : Versions,      \* the file it opened
              touched : BOOLEAN,    \* whose modification time has moved since
              copy : Contents,
              synced : BOOLEAN,     \* the private copy is on the disk
              answer : {"none", "ok", "error"}]
Idle == [pc |-> "idle", file |-> 0, touched |-> FALSE, copy |-> Absent,
         synced |-> FALSE, answer |-> "none"]

ExportInit ==
  /\ file = [n \in Versions |-> Absent] /\ path = 0 /\ version = 0 /\ writing = FALSE
  /\ pub = [p \in Publishers |-> Idle]
  /\ export = [data |-> Absent, synced |-> TRUE] /\ kept = Absent
  /\ watching = FALSE /\ missed = FALSE /\ faults = 0

-----------------------------------------------------------------------------
(* publishLNDBackup.                                                       *)

At(p, l) == pub[p].pc = l
Goto(p, l) == pub' = [pub EXCEPT ![p].pc = l]
Holds(p) == pub[p].pc \in Locked

\* It ends with an error; what it had in the stage is removed.
Failed == [Idle EXCEPT !.answer = "error"]
Fail(p) == pub' = [pub EXCEPT ![p] = Failed]

\* verifySourceSnapshot: a file that was replaced has lost its only link, one
\* that was written has another modification time, unless the clock did not
\* tick in between.
Stands(p) == path = pub[p].file /\ ~pub[p].touched

\* The source is opened before the lock is taken.
OpenSource(p) ==
  /\ At(p, "open")
  /\ IF path = 0 THEN Fail(p)
     ELSE pub' = [pub EXCEPT ![p].pc = "lock", ![p].file = path,
                             ![p].touched = FALSE]
  /\ UNCHANGED <<source, export, kept, watching, missed, faults>>

\* Mutant: the stage is not locked.
LockStageNever(p) ==
  /\ At(p, "lock")
  /\ Goto(p, "copy.1")
  /\ UNCHANGED <<source, export, kept, watching, missed, faults>>

\* "another LND backup publisher is running"
LockStage(p) ==
  /\ At(p, "lock")
  /\ IF \E q \in Publishers : Holds(q) THEN Fail(p) ELSE Goto(p, "copy.1")
  /\ UNCHANGED <<source, export, kept, watching, missed, faults>>

\* An exclusive temporary, io.Copy into it, its group and its mode.
CopySource(p) ==
  /\ \/ /\ At(p, "copy.1")
        /\ pub' = [pub EXCEPT ![p].pc = "copy.2", ![p].synced = FALSE,
                              ![p].copy = <<file[pub[p].file][1], 0>>]
     \/ /\ At(p, "copy.2")
        /\ pub' = [pub EXCEPT ![p].pc = "reread.1",
                              ![p].copy = <<@[1], file[pub[p].file][2]>>]
  /\ UNCHANGED <<source, export, kept, watching, missed, faults>>

\* Mutant: the source is not read again.
RereadSourceNever(p) ==
  /\ At(p, "reread.1")
  /\ IF Stands(p) THEN Goto(p, "path") ELSE Fail(p)
  /\ UNCHANGED <<source, export, kept, watching, missed, faults>>

\* verifySourceSnapshot before and after a second reading, whose hash is that
\* of the first.
RereadSource(p) ==
  /\ \/ /\ At(p, "reread.1")
        /\ IF Stands(p) /\ file[pub[p].file][1] = pub[p].copy[1]
           THEN Goto(p, "reread.2") ELSE Fail(p)
     \/ /\ At(p, "reread.2")
        /\ IF Stands(p) /\ file[pub[p].file][2] = pub[p].copy[2]
           THEN Goto(p, "path") ELSE Fail(p)
  /\ UNCHANGED <<source, export, kept, watching, missed, faults>>

\* verifySourcePath
VerifySourcePath(p) ==
  /\ At(p, "path")
  /\ IF Stands(p) THEN Goto(p, "sync") ELSE Fail(p)
  /\ UNCHANGED <<source, export, kept, watching, missed, faults>>

SyncTemporary(p) ==
  /\ At(p, "sync")
  /\ pub' = [pub EXCEPT ![p].pc = "rename", ![p].synced = TRUE]
  /\ UNCHANGED <<source, export, kept, watching, missed, faults>>

RenameIntoExport(p) ==
  /\ At(p, "rename")
  /\ export' = [data |-> pub[p].copy, synced |-> pub[p].synced]
  /\ Goto(p, "verify")
  /\ UNCHANGED <<source, kept, watching, missed, faults>>

\* The published file is opened by its name and compared with the copy.
VerifyPublished(p) ==
  /\ At(p, "verify")
  /\ IF export.data = pub[p].copy THEN Goto(p, "commit") ELSE Fail(p)
  /\ UNCHANGED <<source, export, kept, watching, missed, faults>>

OnDisk == IF export.synced THEN export.data ELSE Torn
Answered(p) ==
  pub' = [pub EXCEPT ![p] = [Idle EXCEPT !.copy = pub[p].copy, !.answer = "ok"]]

\* Mutant: success is reported before the directories are on the disk.
CommitExportLater(p) ==
  /\ At(p, "commit")
  /\ Answered(p)
  /\ UNCHANGED <<source, export, kept, watching, missed, faults>>

\* Both directories are synchronized.
CommitExport(p) ==
  /\ At(p, "commit")
  /\ kept' = OnDisk
  /\ Answered(p)
  /\ UNCHANGED <<source, export, watching, missed, faults>>

publishLNDBackup(p) ==
  \/ OpenSource(p) \/ LockStage(p) \/ CopySource(p) \/ RereadSource(p)
  \/ VerifySourcePath(p) \/ SyncTemporary(p) \/ RenameIntoExport(p)
  \/ VerifyPublished(p) \/ CommitExport(p)

\* A call fails, a check of owners and modes refuses, or the process is killed.
Interrupt(p) ==
  /\ ~At(p, "idle") /\ faults < MaxFaults
  /\ Fail(p) /\ faults' = faults + 1
  /\ UNCHANGED <<source, export, kept, watching, missed>>

-----------------------------------------------------------------------------
(* The units.                                                              *)

\* PublishLNDBackup begins with the accounts it works for and refuses any
\* other caller, which Interrupt may do.
Started(p) == [pub EXCEPT ![p] = [Idle EXCEPT !.pc = "open"]]

\* Somebody runs a publisher next to systemd's.
RunByHand(p) ==
  /\ p # Service /\ At(p, "idle")
  /\ pub' = Started(p)
  /\ UNCHANGED <<source, export, kept, watching, missed, faults>>

\* PathChanged= starts the service; for one that is running a start changes
\* nothing.
Notified(r) ==
  IF ~watching THEN pub' = r /\ UNCHANGED missed
  ELSE IF At(Service, "idle")
       THEN /\ pub' = [r EXCEPT ![Service] = [Idle EXCEPT !.pc = "open"]]
            /\ missed' = FALSE
       ELSE pub' = r /\ missed' = TRUE

\* Mutant: only changes are exported, not what is there already.
WatchOnly ==
  /\ ~watching /\ watching' = TRUE
  /\ UNCHANGED <<source, pub, export, kept, missed, faults>>

\* setupChannelBackupWatcher starts the watcher, then the service if LND has
\* a backup already.
WatchBackup ==
  /\ ~watching /\ watching' = TRUE
  /\ pub' = IF path # 0 /\ At(Service, "idle") THEN Started(Service) ELSE pub
  /\ UNCHANGED <<source, export, kept, missed, faults>>

-----------------------------------------------------------------------------
(* LND and the disk.                                                       *)

\* A new version replaces the file by a rename.
SwapBackup ==
  /\ "swap" \in Rewrites /\ ~writing /\ version < MaxVersion
  /\ version' = version + 1 /\ path' = version'
  /\ file' = [file EXCEPT ![path'] = <<version', version'>>]
  /\ Notified(pub)
  /\ UNCHANGED <<writing, export, kept, watching, faults>>

\* What a publisher can see of a write, if the clock has ticked.
Touched(tick) ==
  [p \in Publishers |->
     IF tick /\ pub[p].file = path /\ ~At(p, "idle")
     THEN [pub[p] EXCEPT !.touched = TRUE] ELSE pub[p]]

BeginRewrite ==
  /\ "inplace" \in Rewrites /\ path # 0 /\ ~writing /\ version < MaxVersion
  /\ version' = version + 1 /\ writing' = TRUE
  /\ file' = [file EXCEPT ![path][1] = version']
  /\ \E tick \in BOOLEAN : pub' = Touched(tick)
  /\ UNCHANGED <<path, export, kept, watching, missed, faults>>

EndRewrite ==
  /\ writing /\ writing' = FALSE
  /\ file' = [file EXCEPT ![path][2] = version]
  /\ \E tick \in BOOLEAN : Notified(Touched(tick))
  /\ UNCHANGED <<path, version, export, kept, watching, faults>>

\* The file system writes the export's directory back on its own.
Writeback ==
  /\ kept # OnDisk /\ kept' = OnDisk
  /\ UNCHANGED <<source, pub, export, watching, missed, faults>>

\* The node loses power and starts again; LND's own file is kept.
PowerLoss ==
  /\ faults < MaxFaults /\ faults' = faults + 1
  /\ export' = [data |-> kept, synced |-> TRUE]
  /\ pub' = [p \in Publishers |-> IF At(p, "idle") THEN pub[p] ELSE Failed]
  /\ UNCHANGED <<source, kept, watching, missed>>

ExportNext ==
  \/ \E p \in Publishers : publishLNDBackup(p) \/ Interrupt(p) \/ RunByHand(p)
  \/ WatchBackup
  \/ SwapBackup \/ BeginRewrite \/ EndRewrite
  \/ Writeback \/ PowerLoss

ExportSpec == ExportInit /\ [][ExportNext]_exportVars
-----------------------------------------------------------------------------
ExportTypeOK ==
  /\ file \in [Versions -> Contents] /\ path \in Versions /\ version \in Versions
  /\ writing \in BOOLEAN /\ watching \in BOOLEAN /\ missed \in BOOLEAN
  /\ pub \in [Publishers -> Publisher]
  /\ export \in [data : Contents, synced : BOOLEAN] /\ kept \in Contents
  /\ faults \in 0..MaxFaults

\* What can be read in the export, now or after a loss of power, is a content
\* that LND's file really had, never parts of two ("atomic observation").
ExportExisted == Existed(export.data) /\ Existed(kept)

\* No publisher replaces the export by an older backup, whichever publishers
\* run and whenever LND writes.
ExportOnlyImproves ==
  [][faults' = faults => NotNewer(export.data, export'.data)]_exportVars

\* A publisher that reported success has made its backup, or a later one,
\* durable.
AnsweredIsDurable ==
  \A p \in Publishers : pub[p].answer = "ok" => NotNewer(pub[p].copy, kept)

\* When nothing runs, the export is LND's newest backup, unless the last run
\* reported an error or a change came while it was running.
QuietIsCurrent ==
  /\ watching /\ ~missed /\ ~writing
  /\ At(Service, "idle") /\ pub[Service].answer # "error"
  => NotNewer(file[path], export.data)
=============================================================================
