------------------------- MODULE ChannelBackupProofs -------------------------
(***************************************************************************)
(* Proofs about the export of LND's backups, for any publishers, any way   *)
(* LND rewrites its file, any number of versions and faults; and about the *)
(* devices that are told to get it, for any devices and failures.          *)
(*                                                                         *)
(* LND's file only grows newer in both halves, and path never returns to a *)
(* file it has left.  So a publisher that still finds the file it opened   *)
(* under LND's name has read what the name stood for all along, and a first*)
(* half that is found again unchanged was there when the second was read.  *)
(* The lock keeps every other rename out meanwhile.                        *)
(***************************************************************************)
EXTENDS ChannelBackup, TLAPS

\* LND's own file: newest under its name, half written at most there.
SourceInv ==
  /\ path <= version
  /\ writing => version > 0
  /\ file[path] = <<version, IF writing THEN version - 1 ELSE version>>
  /\ \A n \in Versions : n # path => file[n][1] = file[n][2]

\* The export is on the disk when it is visible, and never ahead of LND.
DiskInv ==
  /\ export.synced
  /\ ExportExisted
  /\ NotNewer(kept, export.data) /\ NotNewer(export.data, file[path])

\* What is known of the copy at each call of publishLNDBackup.
CopyInv(p) ==
  /\ pub[p].file <= path
  /\ pub[p].answer # "none" => pub[p].pc = "idle"
  /\ pub[p].answer = "ok" => NotNewer(pub[p].copy, kept)
  /\ pub[p].pc = "copy.2" /\ path = pub[p].file =>
       export.data[1] <= pub[p].copy[1] /\ pub[p].copy[1] <= file[path][1]
  /\ pub[p].pc = "reread.1" /\ path = pub[p].file =>
       /\ NotNewer(export.data, pub[p].copy) /\ NotNewer(pub[p].copy, file[path])
       /\ pub[p].copy[1] = file[path][1] => Existed(pub[p].copy)
  /\ pub[p].pc \in {"reread.2", "path", "sync", "rename"} =>
       /\ Existed(pub[p].copy)
       /\ NotNewer(export.data, pub[p].copy) /\ NotNewer(pub[p].copy, file[path])
  /\ pub[p].pc = "rename" => pub[p].synced
  /\ pub[p].pc \in {"verify", "commit"} => export.data = pub[p].copy

OneHolder == \A p, q \in Publishers : Holds(p) /\ Holds(q) => p = q

IInv ==
  /\ ExportTypeOK /\ SourceInv /\ DiskInv /\ OneHolder
  /\ \A p \in Publishers : CopyInv(p)

-----------------------------------------------------------------------------
LEMMA IdleIsPublisher ==
  Idle \in Publisher /\ Idle.pc = "idle" /\ Idle.file = 0 /\ Idle.answer = "none"
<1>1. Absent \in Contents /\ 0 \in Versions
    BY BoundsAssumption DEF Absent, Contents, Versions
<1> QED BY <1>1 DEF Idle, Publisher

LEMMA InitialState == ExportInit => IInv
<1> SUFFICES ASSUME ExportInit PROVE IInv
    OBVIOUS
<1> USE PublishersAssumption, BoundsAssumption
<1>1. Absent \in Contents /\ Absent[1] = 0 /\ Absent[2] = 0 /\ 0 \in Versions
    BY DEF Absent, Contents, Versions
<1>2. Idle \in Publisher
    BY IdleIsPublisher
<1>3. ExportTypeOK
  <2>1. file \in [Versions -> Contents] /\ path \in Versions /\ version \in Versions
      BY <1>1 DEF ExportInit
  <2>2. pub \in [Publishers -> Publisher]
      BY <1>2 DEF ExportInit
  <2>3. export \in [data : Contents, synced : BOOLEAN] /\ kept \in Contents
      BY <1>1 DEF ExportInit
  <2>4. writing \in BOOLEAN /\ watching \in BOOLEAN /\ missed \in BOOLEAN
      BY DEF ExportInit
  <2>5. faults \in 0..MaxFaults
      BY DEF ExportInit
  <2> QED BY <2>1, <2>2, <2>3, <2>4, <2>5 DEF ExportTypeOK
<1>4. SourceInv
    BY <1>1 DEF ExportInit, SourceInv, Absent
<1>5. DiskInv
    BY <1>1 DEF ExportInit, DiskInv, ExportExisted, Existed, NotNewer
<1>6. OneHolder
    BY DEF ExportInit, OneHolder, Holds, Idle, Locked
<1>7. \A p \in Publishers : CopyInv(p)
  <2> SUFFICES ASSUME NEW p \in Publishers PROVE CopyInv(p)
      OBVIOUS
  <2>1. pub[p].pc = "idle" /\ pub[p].file = 0 /\ pub[p].answer = "none" /\ path = 0
      BY DEF ExportInit, Idle
  <2> QED BY <2>1 DEF CopyInv
<1> QED BY <1>3, <1>4, <1>5, <1>6, <1>7 DEF IInv

\* A publisher that changes nothing but its own record, and leaves the lock
\* alone or takes it while it is free, keeps everything that is said of others.
LEMMA PublisherAlone ==
  ASSUME IInv, NEW p \in Publishers, NEW r \in Publisher,
         pub' = [pub EXCEPT ![p] = r],
         UNCHANGED <<source, watching, missed>>, faults' \in 0..MaxFaults,
         UNCHANGED export, UNCHANGED kept,
         CopyInv(p)',
         r.pc \in Locked => Holds(p) \/ \A q \in Publishers : ~Holds(q)
  PROVE  IInv'
<1>1. ExportTypeOK'
    BY DEF IInv, ExportTypeOK, source
<1>2. SourceInv' /\ DiskInv'
    BY DEF IInv, SourceInv, DiskInv, ExportExisted, source
<1>3. OneHolder'
    BY DEF IInv, OneHolder, Holds, ExportTypeOK
<1>4. ASSUME NEW q \in Publishers, q # p PROVE CopyInv(q)'
    BY <1>4 DEF IInv, CopyInv, ExportTypeOK, source
<1> QED BY <1>1, <1>2, <1>3, <1>4 DEF IInv
\* A copy that is not newer than LND's first file stays so when it grows.
LEMMA Transitive ==
  ASSUME NEW a \in Contents, NEW b \in Contents, NEW c \in Contents,
         NotNewer(a, b), NotNewer(b, c)
  PROVE  NotNewer(a, c)
BY BoundsAssumption DEF NotNewer, Contents, Versions

LEMMA FailKeeps ==
  ASSUME IInv, NEW p \in Publishers, Fail(p),
         UNCHANGED <<source, watching, missed>>, faults' \in 0..MaxFaults,
         UNCHANGED export, UNCHANGED kept
  PROVE  IInv'
<1>1. Failed \in Publisher /\ Failed.pc = "idle" /\ Failed.file = 0
        /\ Failed.answer = "error"
    BY IdleIsPublisher DEF Failed, Publisher
<1>2. pub' = [pub EXCEPT ![p] = Failed]
    BY DEF Fail
<1>3. pub'[p] = Failed
    BY <1>2 DEF IInv, ExportTypeOK
<1>4. 0 <= path'
    BY BoundsAssumption DEF IInv, ExportTypeOK, Versions, source
<1>5. pub'[p].pc = "idle" /\ pub'[p].file = 0 /\ pub'[p].answer = "error"
    BY <1>1, <1>3
<1>6. CopyInv(p)'
    BY <1>4, <1>5 DEF CopyInv
<1> QED BY <1>1, <1>2, <1>6, PublisherAlone DEF Locked

\* A step of p to another call, with its copy, file and answer as they were.
LEMMA GotoKeeps ==
  ASSUME IInv, NEW p \in Publishers, NEW l, Goto(p, l), ~At(p, "idle"),
         l \in {"lock"} \cup Locked,
         l \in Locked => Holds(p) \/ \A q \in Publishers : ~Holds(q),
         UNCHANGED <<source, export, kept, watching, missed, faults>>,
         l \notin {"copy.2", "reread.1", "rename"},
         l \in {"reread.2", "path", "sync"} =>
           /\ Existed(pub[p].copy) /\ NotNewer(export.data, pub[p].copy)
           /\ NotNewer(pub[p].copy, file[path]),
         l \in {"verify", "commit"} => export.data = pub[p].copy
  PROVE  IInv'
<1> DEFINE r == [pub[p] EXCEPT !.pc = l]
<1>1. pub[p] \in Publisher /\ pub \in [Publishers -> Publisher]
    BY DEF IInv, ExportTypeOK
<1>2. r \in Publisher /\ r.pc = l /\ r.file = pub[p].file /\ r.answer = pub[p].answer
        /\ r.copy = pub[p].copy /\ r.synced = pub[p].synced
    BY <1>1 DEF Publisher
<1>3. pub' = [pub EXCEPT ![p] = r]
    BY <1>1 DEF Goto
<1> HIDE DEF r
<1>4. pub'[p] = r
    BY <1>1, <1>3
<1>5. pub[p].answer = "none" /\ pub[p].file <= path
    BY <1>1 DEF IInv, CopyInv, At, Publisher
<1>6. CopyInv(p)'
    BY <1>2, <1>4, <1>5 DEF CopyInv, source
<1> QED BY <1>2, <1>3, <1>6, PublisherAlone DEF IInv, ExportTypeOK

-----------------------------------------------------------------------------
(* The calls of publishLNDBackup.                                          *)

LEMMA OpenKeeps ==
  ASSUME IInv, NEW p \in Publishers, OpenSource(p)
  PROVE  IInv'
<1>1. CASE path = 0
    BY <1>1, FailKeeps DEF OpenSource, source, IInv, ExportTypeOK
<1>2. CASE path # 0
  <2> DEFINE r == [pub[p] EXCEPT !.pc = "lock", !.file = path, !.touched = FALSE]
  <2>1. pub[p] \in Publisher /\ pub \in [Publishers -> Publisher] /\ path \in Versions
      BY DEF IInv, ExportTypeOK
  <2>2. r \in Publisher /\ r.pc = "lock" /\ r.file = path /\ r.answer = pub[p].answer
      BY <2>1 DEF Publisher
  <2>3. pub' = [pub EXCEPT ![p] = r]
      BY <1>2, <2>1 DEF OpenSource
  <2> HIDE DEF r
  <2>4. pub'[p] = r
      BY <2>1, <2>3
  <2>5. pub[p].answer = "none"
      BY <2>1 DEF IInv, CopyInv, OpenSource, At, Publisher
  <2>6. path \in Nat /\ path' = path
      BY <2>1, BoundsAssumption DEF OpenSource, source, Versions
  <2>7. CopyInv(p)'
      BY <2>2, <2>4, <2>5, <2>6 DEF CopyInv
  <2> QED BY <2>2, <2>3, <2>7, PublisherAlone
          DEF OpenSource, source, IInv, ExportTypeOK, Locked
<1> QED BY <1>1, <1>2

LEMMA LockKeeps ==
  ASSUME IInv, NEW p \in Publishers, LockStage(p)
  PROVE  IInv'
<1>1. CASE \E q \in Publishers : Holds(q)
    BY <1>1, FailKeeps DEF LockStage, source, IInv, ExportTypeOK
<1>2. CASE \A q \in Publishers : ~Holds(q)
  <2>1. Goto(p, "copy.1") /\ ~At(p, "idle") /\ "copy.1" \in Locked
      BY <1>2 DEF LockStage, At, Locked
  <2> QED BY <1>2, <2>1, GotoKeeps DEF LockStage
<1> QED BY <1>1, <1>2

LEMMA CopyKeeps ==
  ASSUME IInv, NEW p \in Publishers, CopySource(p)
  PROVE  IInv'
<1> DEFINE f == file[pub[p].file]
<1>1. /\ pub[p] \in Publisher /\ pub \in [Publishers -> Publisher]
      /\ f \in Contents /\ pub[p].copy \in Contents /\ 0 \in Versions
      /\ faults' \in 0..MaxFaults /\ export.data \in Contents
    BY BoundsAssumption
    DEF IInv, ExportTypeOK, Publisher, Versions, CopySource
<1>2. NotNewer(export.data, file[path]) /\ Existed(file[path])
    BY <1>1, BoundsAssumption
    DEF IInv, DiskInv, SourceInv, ExportTypeOK, Existed, Versions
<1>3. pub[p].answer = "none" /\ pub[p].file <= path
    BY <1>1 DEF IInv, CopyInv, CopySource, At, Publisher
<1>4. CASE At(p, "copy.1")
  <2> DEFINE r == [pub[p] EXCEPT !.pc = "copy.2", !.synced = FALSE,
                                 !.copy = <<f[1], 0>>]
  <2>1. /\ r \in Publisher /\ r.pc = "copy.2" /\ r.file = pub[p].file
        /\ r.answer = pub[p].answer /\ r.copy[1] = f[1]
      BY <1>1 DEF Publisher, Locked, Contents
  <2>2. pub' = [pub EXCEPT ![p] = r]
      BY <1>1, <1>4 DEF CopySource, At
  <2> HIDE DEF r
  <2>3. pub'[p] = r
      BY <1>1, <2>2
  <2>4. path = pub[p].file =>
          export.data[1] <= r.copy[1] /\ r.copy[1] <= file[path][1]
      BY <1>1, <1>2, <2>1, BoundsAssumption DEF NotNewer, Contents, Versions
  <2>5. CopyInv(p)'
      BY <1>3, <2>1, <2>3, <2>4 DEF CopyInv, CopySource, source
  <2> QED BY <1>1, <1>4, <2>1, <2>2, <2>5, PublisherAlone
          DEF CopySource, source, Holds, At, Locked
<1>5. CASE At(p, "copy.2")
  <2> DEFINE r == [pub[p] EXCEPT !.pc = "reread.1",
                                 !.copy = <<pub[p].copy[1], f[2]>>]
  <2>1. /\ r \in Publisher /\ r.pc = "reread.1" /\ r.file = pub[p].file
        /\ r.answer = pub[p].answer
        /\ r.copy[1] = pub[p].copy[1] /\ r.copy[2] = f[2]
      BY <1>1 DEF Publisher, Locked, Contents
  <2>2. pub' = [pub EXCEPT ![p] = r]
      BY <1>1, <1>5 DEF CopySource, At
  <2> HIDE DEF r
  <2>3. pub'[p] = r
      BY <1>1, <2>2
  <2>4. path = pub[p].file =>
          /\ NotNewer(export.data, r.copy) /\ NotNewer(r.copy, file[path])
          /\ r.copy[1] = file[path][1] => Existed(r.copy)
      BY <1>1, <1>2, <1>5, <2>1, BoundsAssumption
      DEF IInv, CopyInv, At, NotNewer, Existed, Contents, Versions
  <2>5. CopyInv(p)'
      BY <1>3, <2>1, <2>3, <2>4 DEF CopyInv, CopySource, source
  <2> QED BY <1>1, <1>5, <2>1, <2>2, <2>5, PublisherAlone
          DEF CopySource, source, Holds, At, Locked
<1> QED BY <1>4, <1>5 DEF CopySource

LEMMA RereadKeeps ==
  ASSUME IInv, NEW p \in Publishers, RereadSource(p)
  PROVE  IInv'
<1>1. /\ pub[p] \in Publisher /\ faults' \in 0..MaxFaults
      /\ UNCHANGED <<source, export, kept, watching, missed, faults>>
    BY DEF IInv, ExportTypeOK, RereadSource, source
<1>2. CASE Fail(p)
    BY <1>1, <1>2, FailKeeps DEF source
<1>3. CASE At(p, "reread.1") /\ Goto(p, "reread.2") /\ Stands(p)
             /\ file[pub[p].file][1] = pub[p].copy[1]
  <2>1. /\ Existed(pub[p].copy) /\ NotNewer(export.data, pub[p].copy)
        /\ NotNewer(pub[p].copy, file[path])
      BY <1>3 DEF IInv, CopyInv, Stands, At
  <2> QED BY <1>1, <1>3, <2>1, GotoKeeps DEF At, Holds, Locked
<1>4. CASE At(p, "reread.2") /\ Goto(p, "path")
  <2>1. /\ Existed(pub[p].copy) /\ NotNewer(export.data, pub[p].copy)
        /\ NotNewer(pub[p].copy, file[path])
      BY <1>4 DEF IInv, CopyInv, At
  <2> QED BY <1>1, <1>4, <2>1, GotoKeeps DEF At, Holds, Locked
<1> QED BY <1>2, <1>3, <1>4 DEF RereadSource

LEMMA VerifyPathKeeps ==
  ASSUME IInv, NEW p \in Publishers, VerifySourcePath(p)
  PROVE  IInv'
<1>1. /\ pub[p] \in Publisher /\ faults' \in 0..MaxFaults
      /\ UNCHANGED <<source, export, kept, watching, missed, faults>>
    BY DEF IInv, ExportTypeOK, VerifySourcePath, source
<1>2. CASE Fail(p)
    BY <1>1, <1>2, FailKeeps DEF source
<1>3. CASE Goto(p, "sync")
  <2>1. /\ Existed(pub[p].copy) /\ NotNewer(export.data, pub[p].copy)
        /\ NotNewer(pub[p].copy, file[path])
      BY DEF IInv, CopyInv, VerifySourcePath, At
  <2> QED BY <1>1, <1>3, <2>1, GotoKeeps DEF VerifySourcePath, At, Holds, Locked
<1> QED BY <1>2, <1>3 DEF VerifySourcePath

LEMMA SyncKeeps ==
  ASSUME IInv, NEW p \in Publishers, SyncTemporary(p)
  PROVE  IInv'
<1> DEFINE r == [pub[p] EXCEPT !.pc = "rename", !.synced = TRUE]
<1>1. pub[p] \in Publisher /\ pub \in [Publishers -> Publisher]
    BY DEF IInv, ExportTypeOK
<1>2. /\ r \in Publisher /\ r.pc = "rename" /\ r.synced /\ r.file = pub[p].file
      /\ r.copy = pub[p].copy /\ r.answer = pub[p].answer
    BY <1>1 DEF Publisher, Locked
<1>3. pub' = [pub EXCEPT ![p] = r]
    BY <1>1 DEF SyncTemporary
<1> HIDE DEF r
<1>4. pub'[p] = r
    BY <1>1, <1>3
<1>5. CopyInv(p)'
    BY <1>2, <1>4 DEF IInv, CopyInv, SyncTemporary, At, source
<1> QED BY <1>2, <1>3, <1>5, PublisherAlone
        DEF SyncTemporary, source, Holds, At, Locked, IInv, ExportTypeOK

LEMMA VerifyPublishedKeeps ==
  ASSUME IInv, NEW p \in Publishers, VerifyPublished(p)
  PROVE  IInv'
<1>1. /\ pub[p] \in Publisher /\ faults' \in 0..MaxFaults
      /\ UNCHANGED <<source, export, kept, watching, missed, faults>>
    BY DEF IInv, ExportTypeOK, VerifyPublished, source
<1>2. CASE Fail(p)
    BY <1>1, <1>2, FailKeeps DEF source
<1>3. CASE Goto(p, "commit") /\ export.data = pub[p].copy
    BY <1>1, <1>3, GotoKeeps DEF VerifyPublished, At, Holds, Locked
<1> QED BY <1>2, <1>3 DEF VerifyPublished

\* Nobody else holds the lock, so the rename disturbs no other copy.
LEMMA RenameKeeps ==
  ASSUME IInv, NEW p \in Publishers, RenameIntoExport(p)
  PROVE  IInv' /\ NotNewer(export.data, export'.data)
<1> DEFINE r == [pub[p] EXCEPT !.pc = "verify"]
<1>1. /\ pub[p] \in Publisher /\ pub \in [Publishers -> Publisher]
      /\ pub[p].copy \in Contents /\ export.data \in Contents /\ kept \in Contents
      /\ file[path] \in Contents
    BY DEF IInv, ExportTypeOK, Publisher
<1>2. /\ r \in Publisher /\ r.pc = "verify" /\ r.file = pub[p].file
      /\ r.copy = pub[p].copy /\ r.answer = pub[p].answer
    BY <1>1 DEF Publisher, Locked
<1>3. pub' = [pub EXCEPT ![p] = r]
    BY <1>1 DEF RenameIntoExport, Goto
<1> HIDE DEF r
<1>4. pub'[p] = r
    BY <1>1, <1>3
<1>5. /\ pub[p].synced /\ Existed(pub[p].copy)
      /\ NotNewer(export.data, pub[p].copy) /\ NotNewer(pub[p].copy, file[path])
      /\ pub[p].answer = "none" /\ Holds(p)
    BY <1>1 DEF IInv, CopyInv, RenameIntoExport, At, Holds, Locked, Publisher
<1>6. export' = [data |-> pub[p].copy, synced |-> pub[p].synced]
        /\ UNCHANGED <<source, kept, watching, missed, faults>>
    BY DEF RenameIntoExport
<1>7. export'.data = pub[p].copy /\ export'.synced
    BY <1>5, <1>6
<1>8. ExportTypeOK'
  <2>1. export' \in [data : Contents, synced : BOOLEAN]
      BY <1>1, <1>6 DEF Publisher
  <2> QED BY <1>2, <1>3, <1>6, <2>1 DEF IInv, ExportTypeOK, source
<1>9. SourceInv'
    BY <1>6 DEF IInv, SourceInv, source
<1>10. DiskInv'
  <2>1. NotNewer(kept, pub[p].copy)
      BY <1>1, <1>5, Transitive DEF IInv, DiskInv
  <2> QED BY <1>5, <1>6, <1>7, <2>1 DEF IInv, DiskInv, ExportExisted, source
<1>11. OneHolder'
    BY <1>1, <1>2, <1>3, <1>5 DEF IInv, OneHolder, Holds
<1>12. CopyInv(p)'
    BY <1>2, <1>4, <1>5, <1>6, <1>7 DEF IInv, CopyInv, source
<1>13. ASSUME NEW q \in Publishers, q # p PROVE CopyInv(q)'
  <2>1. pub'[q] = pub[q] /\ pub[q].pc \notin Locked
      BY <1>1, <1>3, <1>5, <1>13 DEF IInv, OneHolder, Holds
  <2> QED BY <1>6, <2>1, <1>13 DEF IInv, CopyInv, Locked, source
<1> QED BY <1>5, <1>7, <1>8, <1>9, <1>10, <1>11, <1>12, <1>13 DEF IInv

LEMMA CommitKeeps ==
  ASSUME IInv, NEW p \in Publishers, CommitExport(p)
  PROVE  IInv'
<1> DEFINE r == [Idle EXCEPT !.copy = pub[p].copy, !.answer = "ok"]
<1>1. /\ pub[p] \in Publisher /\ pub \in [Publishers -> Publisher]
      /\ pub[p].copy \in Contents /\ export.data \in Contents /\ kept \in Contents
    BY DEF IInv, ExportTypeOK, Publisher
<1>2. /\ r \in Publisher /\ r.pc = "idle" /\ r.file = 0
      /\ r.copy = pub[p].copy /\ r.answer = "ok"
    BY <1>1, IdleIsPublisher DEF Publisher
<1>3. pub' = [pub EXCEPT ![p] = r]
    BY <1>1 DEF CommitExport, Answered
<1> HIDE DEF r
<1>4. pub'[p] = r
    BY <1>1, <1>3
<1>5. export.data = pub[p].copy /\ kept' = export.data
    BY DEF IInv, CopyInv, DiskInv, CommitExport, At, OnDisk
<1>6. UNCHANGED <<source, export, watching, missed, faults>>
    BY DEF CommitExport
<1>7. NotNewer(kept, kept') /\ NotNewer(kept', export.data)
    BY <1>1, <1>5, BoundsAssumption DEF IInv, DiskInv, NotNewer, Contents, Versions
<1>8. ExportTypeOK'
    BY <1>1, <1>2, <1>3, <1>5, <1>6 DEF IInv, ExportTypeOK, source
<1>9. SourceInv' /\ DiskInv'
    BY <1>5, <1>6, <1>7 DEF IInv, SourceInv, DiskInv, ExportExisted, source
<1>10. OneHolder'
    BY <1>1, <1>2, <1>3 DEF IInv, OneHolder, Holds, Locked
<1>11. CopyInv(p)'
  <2>1. 0 <= path
      BY BoundsAssumption DEF IInv, ExportTypeOK, Versions
  <2> QED BY <1>2, <1>4, <1>5, <1>6, <1>7, <2>1 DEF CopyInv, source
<1>12. ASSUME NEW q \in Publishers, q # p PROVE CopyInv(q)'
  <2>1. pub'[q] = pub[q] /\ pub[q].copy \in Contents
      BY <1>1, <1>3, <1>12 DEF Publisher
  <2>2. pub[q].answer = "ok" => NotNewer(pub[q].copy, kept')
      BY <1>1, <1>5, <1>7, <2>1, Transitive DEF IInv, CopyInv
  <2> QED BY <1>6, <2>1, <2>2 DEF IInv, CopyInv, source
<1> QED BY <1>8, <1>9, <1>10, <1>11, <1>12 DEF IInv

LEMMA InterruptKeeps ==
  ASSUME IInv, NEW p \in Publishers, Interrupt(p)
  PROVE  IInv'
<1>1. faults' \in 0..MaxFaults
    BY BoundsAssumption DEF IInv, ExportTypeOK, Interrupt
<1> QED BY <1>1, FailKeeps DEF Interrupt

-----------------------------------------------------------------------------
(* LND, the units and the disk.                                            *)

\* A publisher goes on, is seen to have an older file open, or starts.
Alike(q) ==
  /\ pub'[q].pc = pub[q].pc /\ pub'[q].file = pub[q].file
  /\ pub'[q].copy = pub[q].copy /\ pub'[q].synced = pub[q].synced
  /\ pub'[q].answer = pub[q].answer
Starts(q) == pub'[q].pc = "open" /\ pub'[q].file = 0 /\ pub'[q].answer = "none"

\* LND's file grows, or another takes its name, under the publishers.
LEMMA SourceMoves ==
  ASSUME IInv, ExportTypeOK', SourceInv', UNCHANGED <<export, kept>>,
         path <= path', NotNewer(file[path], file'[path']),
         \A q \in Publishers : Alike(q) \/ Starts(q)
  PROVE  IInv'
<1>1. /\ path \in Nat /\ path' \in Nat /\ file[path] \in Contents
      /\ file'[path'] \in Contents /\ export.data \in Contents
    BY BoundsAssumption DEF IInv, ExportTypeOK, Versions
<1>2. DiskInv'
  <2>1. NotNewer(export.data, file'[path'])
      BY <1>1, Transitive DEF IInv, DiskInv
  <2> QED BY <2>1 DEF IInv, DiskInv, ExportExisted
<1>3. OneHolder'
    BY DEF IInv, OneHolder, Holds, Alike, Starts, Locked
<1>4. ASSUME NEW q \in Publishers PROVE CopyInv(q)'
  <2>1. CASE Starts(q)
      BY <1>1, <2>1 DEF CopyInv, Starts
  <2>2. CASE Alike(q)
    <3> DEFINE c == pub[q].copy
    <3>1. pub[q] \in Publisher /\ c \in Contents /\ pub[q].file \in Nat
        BY BoundsAssumption DEF IInv, ExportTypeOK, Publisher, Versions
    <3>2. NotNewer(c, file[path]) => NotNewer(c, file'[path'])
        BY <1>1, <3>1, Transitive
    <3>3. pub[q].file <= path /\ pub'[q].file <= path'
        BY <1>1, <2>2, <3>1 DEF IInv, CopyInv, Alike
    <3>4. path' = pub'[q].file => path' = path /\ path = pub[q].file
        BY <1>1, <2>2, <3>1, <3>3 DEF Alike
    <3>5. ASSUME pub'[q].pc = "copy.2", path' = pub'[q].file
          PROVE  export'.data[1] <= pub'[q].copy[1]
                   /\ pub'[q].copy[1] <= file'[path'][1]
      <4>1. export.data[1] <= c[1] /\ c[1] <= file[path][1]
          BY <2>2, <3>4, <3>5 DEF IInv, CopyInv, Alike
      <4> QED BY <1>1, <2>2, <3>1, <4>1, BoundsAssumption
              DEF Alike, NotNewer, Contents, Versions
    <3>6. ASSUME pub'[q].pc = "reread.1", path' = pub'[q].file
          PROVE  /\ NotNewer(export'.data, pub'[q].copy)
                 /\ NotNewer(pub'[q].copy, file'[path'])
                 /\ pub'[q].copy[1] = file'[path'][1] => Existed(pub'[q].copy)
      <4>1. /\ NotNewer(export.data, c) /\ NotNewer(c, file[path])
            /\ c[1] = file[path][1] => Existed(c)
          BY <2>2, <3>4, <3>6 DEF IInv, CopyInv, Alike
      <4>2. c[1] = file'[path'][1] => c[1] = file[path][1]
          BY <1>1, <3>1, <4>1, BoundsAssumption DEF NotNewer, Contents, Versions
      <4> QED BY <2>2, <3>2, <4>1, <4>2 DEF Alike
    <3>7. pub'[q].pc \in {"reread.2", "path", "sync", "rename"} =>
            /\ Existed(pub'[q].copy) /\ NotNewer(export'.data, pub'[q].copy)
            /\ NotNewer(pub'[q].copy, file'[path'])
        BY <2>2, <3>2 DEF IInv, CopyInv, Alike
    <3>8. /\ pub'[q].answer # "none" => pub'[q].pc = "idle"
          /\ pub'[q].answer = "ok" => NotNewer(pub'[q].copy, kept')
          /\ pub'[q].pc = "rename" => pub'[q].synced
          /\ pub'[q].pc \in {"verify", "commit"} => export'.data = pub'[q].copy
        BY <2>2 DEF IInv, CopyInv, Alike
    <3> QED BY <3>3, <3>5, <3>6, <3>7, <3>8 DEF CopyInv
  <2> QED BY <2>1, <2>2
<1> QED BY <1>2, <1>3, <1>4 DEF IInv

\* The three things LND and the units do to the record of a publisher.
LEMMA RecordMoves ==
  ASSUME pub \in [Publishers -> Publisher], DOMAIN pub' = Publishers,
         pub' \in [Publishers -> {pub'[q] : q \in Publishers}],
         \A q \in Publishers :
            \/ pub'[q] = pub[q]
            \/ pub'[q] = [pub[q] EXCEPT !.touched = TRUE]
            \/ pub'[q] = [Idle EXCEPT !.pc = "open"]
  PROVE  /\ pub' \in [Publishers -> Publisher]
         /\ \A q \in Publishers : Alike(q) \/ Starts(q)
<1>1. ASSUME NEW q \in Publishers
      PROVE  pub'[q] \in Publisher /\ (Alike(q) \/ Starts(q))
  <2>1. pub[q] \in Publisher
      OBVIOUS
  <2>2. CASE pub'[q] = pub[q]
      BY <2>1, <2>2 DEF Alike
  <2>3. CASE pub'[q] = [pub[q] EXCEPT !.touched = TRUE]
      BY <2>1, <2>3 DEF Alike, Publisher
  <2>4. CASE pub'[q] = [Idle EXCEPT !.pc = "open"]
      BY <2>4, IdleIsPublisher DEF Starts, Publisher
  <2> QED BY <2>2, <2>3, <2>4
<1> QED BY <1>1

\* What a publisher's record becomes when a start or a write reaches it.
Reached(q) ==
  \/ pub'[q] = pub[q]
  \/ pub'[q] = [pub[q] EXCEPT !.touched = TRUE]
  \/ pub'[q] = [Idle EXCEPT !.pc = "open"]

\* A start, by hand or by the watcher's, while LND's file stands still.
LEMMA StartKeeps ==
  ASSUME IInv, UNCHANGED <<source, export, kept, faults>>,
         watching' \in BOOLEAN, missed' \in BOOLEAN,
         DOMAIN pub' = Publishers, pub' \in [Publishers -> {pub'[q] : q \in Publishers}],
         \A q \in Publishers : Reached(q)
  PROVE  IInv'
<1>1. pub' \in [Publishers -> Publisher] /\ \A q \in Publishers : Alike(q) \/ Starts(q)
    BY RecordMoves DEF IInv, ExportTypeOK, Reached
<1>2. ExportTypeOK'
    BY <1>1 DEF IInv, ExportTypeOK, source
<1>3. SourceInv'
    BY DEF IInv, SourceInv, source
<1>4. path \in Nat /\ path' = path /\ file[path] \in Contents /\ file' = file
    BY BoundsAssumption DEF IInv, ExportTypeOK, Versions, source
<1>5. path <= path' /\ NotNewer(file[path], file'[path'])
    BY <1>4, BoundsAssumption DEF NotNewer, Contents, Versions
<1> QED BY <1>1, <1>2, <1>3, <1>5, SourceMoves

LEMMA ByHandKeeps ==
  ASSUME IInv, NEW p \in Publishers, RunByHand(p)
  PROVE  IInv'
<1>1. pub' = [pub EXCEPT ![p] = [Idle EXCEPT !.pc = "open"]]
        /\ UNCHANGED <<source, export, kept, watching, missed, faults>>
    BY DEF RunByHand, Started
<1>2. /\ DOMAIN pub' = Publishers /\ \A q \in Publishers : Reached(q)
      /\ pub' \in [Publishers -> {pub'[q] : q \in Publishers}]
    BY <1>1 DEF IInv, ExportTypeOK, Reached
<1> QED BY <1>1, <1>2, StartKeeps DEF IInv, ExportTypeOK

LEMMA WatchKeeps ==
  ASSUME IInv, WatchBackup
  PROVE  IInv'
<1>1. \/ pub' = [pub EXCEPT ![Service] = [Idle EXCEPT !.pc = "open"]]
      \/ pub' = pub
    BY DEF WatchBackup, Started
<1>2. /\ DOMAIN pub' = Publishers /\ \A q \in Publishers : Reached(q)
      /\ pub' \in [Publishers -> {pub'[q] : q \in Publishers}]
    BY <1>1 DEF IInv, ExportTypeOK, Reached
<1> QED BY <1>2, StartKeeps DEF IInv, ExportTypeOK, WatchBackup

\* What the watcher does to the records, whatever a write did to them before.
LEMMA NoticeReaches ==
  ASSUME IInv, NEW r, Notified(r), r \in [Publishers -> Publisher],
         \A q \in Publishers : r[q] = pub[q] \/ r[q] = [pub[q] EXCEPT !.touched = TRUE]
  PROVE  /\ DOMAIN pub' = Publishers /\ \A q \in Publishers : Reached(q)
         /\ pub' \in [Publishers -> {pub'[q] : q \in Publishers}]
         /\ missed' \in BOOLEAN
<1>1. \/ pub' = r
      \/ pub' = [r EXCEPT ![Service] = [Idle EXCEPT !.pc = "open"]]
    BY DEF Notified
<1>2. missed' \in BOOLEAN
    BY DEF Notified, IInv, ExportTypeOK
<1> QED BY <1>1, <1>2 DEF Reached

\* A write reaches the records of those that have the file open.
LEMMA TouchReaches ==
  ASSUME IInv, NEW tick \in BOOLEAN
  PROVE  /\ Touched(tick) \in [Publishers -> Publisher]
         /\ \A q \in Publishers : \/ Touched(tick)[q] = pub[q]
                                  \/ Touched(tick)[q] = [pub[q] EXCEPT !.touched = TRUE]
<1>1. ASSUME NEW q \in Publishers
      PROVE  /\ pub[q] \in Publisher /\ [pub[q] EXCEPT !.touched = TRUE] \in Publisher
             /\ \/ Touched(tick)[q] = pub[q]
                \/ Touched(tick)[q] = [pub[q] EXCEPT !.touched = TRUE]
  <2>1. pub[q] \in Publisher
      BY DEF IInv, ExportTypeOK
  <2>2. [pub[q] EXCEPT !.touched = TRUE] \in Publisher
      BY <2>1 DEF Publisher
  <2> QED BY <2>1, <2>2 DEF Touched
<1>2. Touched(tick) = [q \in Publishers |-> Touched(tick)[q]]
    BY DEF Touched
<1>3. \A q \in Publishers : Touched(tick)[q] \in Publisher
    BY <1>1
<1>4. [q \in Publishers |-> Touched(tick)[q]] \in [Publishers -> Publisher]
    BY <1>3
<1> QED BY <1>1, <1>2, <1>4

\* A pair written half by half.
LEMMA Halves ==
  ASSUME NEW a, NEW b, NEW c
  PROVE  /\ [<<a, b>> EXCEPT ![1] = c] = <<c, b>>
         /\ [<<a, b>> EXCEPT ![2] = c] = <<a, c>>
OBVIOUS

LEMMA SwapKeeps ==
  ASSUME IInv, SwapBackup
  PROVE  IInv'
<1> USE BoundsAssumption
<1>1. /\ version \in Nat /\ version' = version + 1 /\ version' \in Versions
      /\ path \in Nat /\ path <= version /\ path' = version' /\ ~writing /\ ~writing'
      /\ file \in [Versions -> Contents] /\ path' \in Versions
      /\ file' = [file EXCEPT ![path'] = <<version', version'>>]
    BY DEF IInv, SourceInv, ExportTypeOK, SwapBackup, Versions
<1>2. /\ DOMAIN pub' = Publishers /\ \A q \in Publishers : Reached(q)
      /\ pub' \in [Publishers -> {pub'[q] : q \in Publishers}] /\ missed' \in BOOLEAN
  <2>1. pub \in [Publishers -> Publisher] /\ Notified(pub)
      BY DEF IInv, ExportTypeOK, SwapBackup
  <2> QED BY <2>1, NoticeReaches
<1>3. pub' \in [Publishers -> Publisher] /\ \A q \in Publishers : Alike(q) \/ Starts(q)
    BY <1>2, RecordMoves DEF IInv, ExportTypeOK, Reached
<1>4. <<version', version'>> \in Contents
    BY <1>1 DEF Contents
<1>5. file' \in [Versions -> Contents] /\ file'[path'] = <<version', version'>>
        /\ \A n \in Versions : n # path' => file'[n] = file[n]
    BY <1>1, <1>4
<1>6. ExportTypeOK'
    BY <1>1, <1>2, <1>3, <1>5 DEF IInv, ExportTypeOK, SwapBackup
<1>7. \A n \in Versions : file[n][1] = file[n][2]
    BY <1>1 DEF IInv, SourceInv
<1>8. SourceInv'
    BY <1>1, <1>5, <1>7 DEF SourceInv
<1>9. path <= path' /\ NotNewer(file[path], file'[path'])
    BY <1>1, <1>5 DEF IInv, SourceInv, NotNewer
<1> QED BY <1>3, <1>6, <1>8, <1>9, SourceMoves DEF SwapBackup

LEMMA BeginKeeps ==
  ASSUME IInv, BeginRewrite
  PROVE  IInv'
<1> USE BoundsAssumption
<1>1. /\ version \in Nat /\ version' = version + 1 /\ version' \in Versions
      /\ path \in Versions /\ path \in Nat /\ path <= version /\ path' = path
      /\ ~writing /\ writing' = TRUE
      /\ file \in [Versions -> Contents] /\ file[path] = <<version, version>>
      /\ file' = [file EXCEPT ![path][1] = version']
    BY DEF IInv, SourceInv, ExportTypeOK, BeginRewrite, Versions
<1>2. /\ DOMAIN pub' = Publishers /\ \A q \in Publishers : Reached(q)
      /\ pub' \in [Publishers -> {pub'[q] : q \in Publishers}]
  <2>1. PICK tick \in BOOLEAN : pub' = Touched(tick)
      BY DEF BeginRewrite
  <2> QED BY <2>1, TouchReaches DEF Reached
<1>3. pub' \in [Publishers -> Publisher] /\ \A q \in Publishers : Alike(q) \/ Starts(q)
    BY <1>2, RecordMoves DEF IInv, ExportTypeOK, Reached
<1>4. [file[path] EXCEPT ![1] = version'] = <<version', version>>
    BY <1>1, Halves
<1>5. file' = [file EXCEPT ![path] = <<version', version>>]
    BY <1>1, <1>4
<1>6. <<version', version>> \in Contents
    BY <1>1 DEF Contents, IInv, ExportTypeOK
<1>7. file' \in [Versions -> Contents] /\ file'[path'] = <<version', version>>
        /\ \A n \in Versions : n # path' => file'[n] = file[n]
    BY <1>1, <1>5, <1>6
<1>8. ExportTypeOK'
    BY <1>1, <1>3, <1>7 DEF IInv, ExportTypeOK, BeginRewrite
<1>9. SourceInv'
  <2>1. version' > 0 /\ version' - 1 = version /\ path' <= version'
      BY <1>1
  <2>2. \A n \in Versions : n # path' => file'[n][1] = file'[n][2]
      BY <1>1, <1>7 DEF IInv, SourceInv
  <2> QED BY <1>1, <1>7, <2>1, <2>2 DEF SourceInv
<1>10. path <= path' /\ NotNewer(file[path], file'[path'])
    BY <1>1, <1>7 DEF NotNewer
<1> QED BY <1>3, <1>8, <1>9, <1>10, SourceMoves DEF BeginRewrite

LEMMA EndKeeps ==
  ASSUME IInv, EndRewrite
  PROVE  IInv'
<1> USE BoundsAssumption
<1>1. /\ version \in Nat /\ version > 0 /\ version' = version /\ version \in Versions
      /\ path \in Versions /\ path \in Nat /\ path <= version /\ path' = path
      /\ writing /\ writing' = FALSE
      /\ file \in [Versions -> Contents] /\ file[path] = <<version, version - 1>>
      /\ file' = [file EXCEPT ![path][2] = version]
    BY DEF IInv, SourceInv, ExportTypeOK, EndRewrite, Versions
<1>2. /\ DOMAIN pub' = Publishers /\ \A q \in Publishers : Reached(q)
      /\ pub' \in [Publishers -> {pub'[q] : q \in Publishers}] /\ missed' \in BOOLEAN
  <2>1. PICK tick \in BOOLEAN : Notified(Touched(tick))
      BY DEF EndRewrite
  <2> DEFINE r == Touched(tick)
  <2>2. /\ Notified(r) /\ r \in [Publishers -> Publisher]
        /\ \A q \in Publishers : r[q] = pub[q] \/ r[q] = [pub[q] EXCEPT !.touched = TRUE]
      BY <2>1, TouchReaches
  <2> HIDE DEF r
  <2> QED BY <2>2, NoticeReaches
<1>3. pub' \in [Publishers -> Publisher] /\ \A q \in Publishers : Alike(q) \/ Starts(q)
    BY <1>2, RecordMoves DEF IInv, ExportTypeOK, Reached
<1>4. [file[path] EXCEPT ![2] = version] = <<version, version>>
    BY <1>1, Halves
<1>5. file' = [file EXCEPT ![path] = <<version, version>>]
    BY <1>1, <1>4
<1>6. <<version, version>> \in Contents
    BY <1>1 DEF Contents
<1>7. file' \in [Versions -> Contents] /\ file'[path'] = <<version, version>>
        /\ \A n \in Versions : n # path' => file'[n] = file[n]
    BY <1>1, <1>5, <1>6
<1>8. ExportTypeOK'
    BY <1>1, <1>2, <1>3, <1>7 DEF IInv, ExportTypeOK, EndRewrite
<1>9. SourceInv'
    BY <1>1, <1>7 DEF IInv, SourceInv
<1>10. path <= path' /\ NotNewer(file[path], file'[path'])
    BY <1>1, <1>7 DEF NotNewer
<1> QED BY <1>3, <1>8, <1>9, <1>10, SourceMoves DEF EndRewrite

LEMMA WritebackKeeps ==
  ASSUME IInv, Writeback
  PROVE  IInv'
<1>1. /\ kept' = export.data /\ export.data \in Contents /\ kept \in Contents
      /\ UNCHANGED <<source, pub, export, watching, missed, faults>>
    BY DEF IInv, DiskInv, ExportTypeOK, Writeback, OnDisk
<1>2. NotNewer(kept, kept') /\ NotNewer(kept', export.data)
    BY <1>1, BoundsAssumption DEF IInv, DiskInv, NotNewer, Contents, Versions
<1>3. ExportTypeOK' /\ SourceInv' /\ OneHolder'
    BY <1>1 DEF IInv, ExportTypeOK, SourceInv, OneHolder, Holds, source
<1>4. DiskInv'
    BY <1>1, <1>2 DEF IInv, DiskInv, ExportExisted, source
<1>5. ASSUME NEW q \in Publishers PROVE CopyInv(q)'
  <2>1. pub[q].copy \in Contents
      BY DEF IInv, ExportTypeOK, Publisher
  <2>2. pub[q].answer = "ok" => NotNewer(pub[q].copy, kept')
      BY <1>1, <1>2, <2>1, Transitive DEF IInv, CopyInv
  <2> QED BY <1>1, <2>2 DEF IInv, CopyInv, source
<1> QED BY <1>3, <1>4, <1>5 DEF IInv

\* The export falls back to what is on the disk, and nobody is publishing.
LEMMA PowerKeeps ==
  ASSUME IInv, PowerLoss
  PROVE  IInv'
<1>1. Failed \in Publisher /\ Failed.pc = "idle" /\ Failed.file = 0
        /\ Failed.answer = "error"
    BY IdleIsPublisher DEF Failed, Publisher
<1>2. /\ export'.data = kept /\ export'.synced
      /\ export' \in [data : Contents, synced : BOOLEAN]
      /\ kept \in Contents /\ file[path] \in Contents /\ export.data \in Contents
      /\ UNCHANGED <<source, kept, watching, missed>>
    BY DEF IInv, ExportTypeOK, PowerLoss
<1>3. \A q \in Publishers : /\ pub[q] \in Publisher
                            /\ pub'[q] = IF pub[q].pc = "idle" THEN pub[q] ELSE Failed
    BY DEF IInv, ExportTypeOK, PowerLoss, At
<1>4. pub' \in [Publishers -> Publisher]
    BY <1>1, <1>3 DEF PowerLoss
<1>5. faults' \in 0..MaxFaults
    BY BoundsAssumption DEF IInv, ExportTypeOK, PowerLoss
<1>6. ExportTypeOK' /\ SourceInv'
    BY <1>2, <1>4, <1>5 DEF IInv, ExportTypeOK, SourceInv, source
<1>7. NotNewer(kept, kept) /\ NotNewer(kept, file[path])
    BY <1>2, Transitive, BoundsAssumption
    DEF IInv, DiskInv, NotNewer, Contents, Versions
<1>8. DiskInv'
    BY <1>2, <1>7 DEF IInv, DiskInv, ExportExisted, source
<1>9. \A q \in Publishers : pub'[q].pc = "idle"
    BY <1>1, <1>3
<1>10. OneHolder'
    BY <1>9 DEF OneHolder, Holds, Locked
<1>11. ASSUME NEW q \in Publishers PROVE CopyInv(q)'
  <2>1. 0 <= path
      BY BoundsAssumption DEF IInv, ExportTypeOK, Versions
  <2>2. pub'[q].file <= path
      BY <1>1, <1>3, <2>1 DEF IInv, CopyInv
  <2>3. pub'[q].answer = "ok" => NotNewer(pub'[q].copy, kept)
      BY <1>1, <1>3 DEF IInv, CopyInv
  <2> QED BY <1>2, <1>9, <2>2, <2>3 DEF CopyInv, source
<1> QED BY <1>6, <1>8, <1>10, <1>11 DEF IInv

-----------------------------------------------------------------------------
(* The theorems.                                                           *)

LEMMA StutterKeeps ==
  ASSUME IInv, UNCHANGED exportVars
  PROVE  IInv'
BY DEF IInv, exportVars, ExportTypeOK, SourceInv, DiskInv, ExportExisted,
       OneHolder, Holds, CopyInv

LEMMA NextKeeps ==
  ASSUME IInv, [ExportNext]_exportVars
  PROVE  IInv'
<1>1. ASSUME NEW p \in Publishers, publishLNDBackup(p) PROVE IInv'
    BY <1>1, OpenKeeps, LockKeeps, CopyKeeps, RereadKeeps, VerifyPathKeeps,
       SyncKeeps, RenameKeeps, VerifyPublishedKeeps, CommitKeeps
    DEF publishLNDBackup
<1> QED BY <1>1, InterruptKeeps, ByHandKeeps, WatchKeeps, SwapKeeps, BeginKeeps,
           EndKeeps, WritebackKeeps, PowerKeeps, StutterKeeps DEF ExportNext

\* Every behaviour of the export, alone or in the node, keeps the invariant.
THEOREM ExportInvariant == ExportSpec => []IInv
<1>1. ExportInit => IInv
    BY InitialState
<1>2. IInv /\ [ExportNext]_exportVars => IInv'
    BY NextKeeps
<1> QED BY <1>1, <1>2, PTL DEF ExportSpec

\* With the add-on's installation and its pairing around it, a step of the
\* node is a step of the export or leaves the export as it is.
THEOREM ComponentHolds == Spec => ExportSpec
<1>1. Init => ExportInit
    BY DEF Init
<1>2. ASSUME [Next]_vars PROVE [ExportNext]_exportVars
  <2>1. CASE Publishing
      BY <2>1 DEF Publishing, Export, ExportNext
  <2>2. CASE SetUpExport
      BY <2>2 DEF SetUpExport, ExportNext
  <2>3. CASE AwaitExport
      BY <2>3 DEF AwaitExport
  <2>4. CASE Addon
      BY <2>4 DEF Addon
  <2>5. CASE Restart
      BY <2>5 DEF Restart, ExportNext
  <2>6. CASE UNCHANGED vars
      BY <2>6 DEF vars
  <2> QED BY <1>2, <2>1, <2>2, <2>3, <2>4, <2>5, <2>6 DEF Next
<1>3. [Next]_vars => [ExportNext]_exportVars
    BY <1>2
<1> QED BY <1>1, <1>3, PTL DEF Spec, ExportSpec

LEMMA Invariant == Spec => []IInv
BY ExportInvariant, ComponentHolds, PTL

\* "atomic observation": whoever publishes, however LND writes, what can be
\* read in the export now or after a loss of power is what LND's file was.
THEOREM ExportIsABackup == Spec => []ExportExisted
<1>1. IInv => ExportExisted
    BY DEF IInv, DiskInv
<1> QED BY <1>1, Invariant, PTL

\* A publisher that answered success has made its backup durable.
THEOREM AnswersAreDurable == Spec => []AnsweredIsDurable
<1>1. IInv => AnsweredIsDurable
    BY DEF IInv, CopyInv, AnsweredIsDurable
<1> QED BY <1>1, Invariant, PTL

\* Short of a fault, no step puts an older backup in the place of a newer one:
\* only the rename changes the export, under the lock, after the copy was
\* found to be LND's file again.
THEOREM NeverOlder == Spec => ExportOnlyImproves
<1>1. ASSUME IInv, [ExportNext]_exportVars, faults' = faults
      PROVE  NotNewer(export.data, export'.data)
  <2>1. CASE \E p \in Publishers : RenameIntoExport(p)
      BY <1>1, <2>1, RenameKeeps
  <2>2. CASE UNCHANGED export
    <3>1. export.data \in Contents
        BY <1>1 DEF IInv, ExportTypeOK
    <3> QED BY <2>2, <3>1, BoundsAssumption DEF NotNewer, Contents, Versions
  <2>3. CASE PowerLoss
    <3>1. faults \in Nat
        BY <1>1, BoundsAssumption DEF IInv, ExportTypeOK
    <3> QED BY <1>1, <2>3, <3>1 DEF PowerLoss
  <2> QED BY <1>1, <2>1, <2>2, <2>3
          DEF ExportNext, publishLNDBackup, OpenSource, LockStage, CopySource,
              RereadSource, VerifySourcePath, SyncTemporary, VerifyPublished,
              CommitExport, Interrupt, RunByHand, WatchBackup, SwapBackup,
              BeginRewrite, EndRewrite, Writeback, exportVars
<1>2. IInv /\ [ExportNext]_exportVars
        => [faults' = faults => NotNewer(export.data, export'.data)]_exportVars
    BY <1>1
<1> QED BY <1>2, ExportInvariant, ComponentHolds, PTL DEF ExportSpec, ExportOnlyImproves

-----------------------------------------------------------------------------
(* The unit that starts the service, once it watches.                      *)

Served == pub[Service]

\* As long as no change was missed and LND is not writing, the service has
\* read what LND's file is now: in the copy it carries, or, once it has
\* answered, on the disk.  Before it watches, it has not run.
QuietInv ==
  /\ path = 0 => version = 0
  /\ ~watching => Served.pc = "idle" /\ Served.answer = "none"
  /\ watching /\ ~missed /\ ~writing =>
       /\ Served.pc = "idle" /\ Served.answer # "error" => NotNewer(file[path], kept)
       /\ Served.pc \in {"lock", "copy.1", "copy.2"} => Served.file = path
       /\ Served.pc = "copy.2" => Served.copy[1] = file[path][1]
       /\ Served.pc \in Locked \ {"copy.1", "copy.2"} => NotNewer(file[path], Served.copy)

LEMMA ContentFacts ==
  ASSUME IInv
  PROVE  /\ file[path] \in Contents /\ kept \in Contents /\ export.data \in Contents
         /\ Served \in Publisher /\ Service \in Publishers /\ Served.copy \in Contents
         /\ path \in Nat /\ version \in Nat /\ path <= version
         /\ pub \in [Publishers -> Publisher]
<1>1. /\ file[path] \in Contents /\ kept \in Contents /\ export.data \in Contents
      /\ path \in Versions /\ version \in Versions /\ path <= version
      /\ pub \in [Publishers -> Publisher]
    BY DEF IInv, SourceInv, ExportTypeOK
<1>2. Service \in Publishers /\ Served \in Publisher
    BY <1>1, PublishersAssumption DEF Served
<1>3. Served.copy \in Contents
    BY <1>2 DEF Publisher
<1> QED BY <1>1, <1>2, <1>3, BoundsAssumption DEF Versions

\* The service stands still, and the disk gets no older.
LEMMA QuietStill ==
  ASSUME IInv, QuietInv, UNCHANGED <<source, watching, missed>>,
         pub'[Service] = pub[Service], kept' \in Contents, NotNewer(kept, kept')
  PROVE  QuietInv'
<1>1. NotNewer(file[path], kept) => NotNewer(file[path], kept')
    BY ContentFacts, Transitive
<1> QED BY <1>1 DEF QuietInv, Served, source

\* A new run of the service has read nothing yet.
LEMMA QuietOpen ==
  ASSUME path' = 0 => version' = 0, watching', pub'[Service].pc = "open"
  PROVE  QuietInv'
BY DEF QuietInv, Served, Locked

\* A run that ended in an error makes no claim.
LEMMA QuietError ==
  ASSUME QuietInv, UNCHANGED <<path, version>>, watching', pub'[Service] = Failed
  PROVE  QuietInv'
<1>1. Failed.pc = "idle" /\ Failed.answer = "error"
    BY IdleIsPublisher DEF Failed, Idle
<1> QED BY <1>1 DEF QuietInv, Served, Locked

LEMMA QuietGoto ==
  ASSUME IInv, QuietInv, NEW l, Goto(Service, l), ~At(Service, "idle"), l # "idle",
         UNCHANGED <<source, watching, missed>>,
         ~missed /\ ~writing =>
           /\ l \in {"lock", "copy.1", "copy.2"} => Served.file = path
           /\ l = "copy.2" => Served.copy[1] = file[path][1]
           /\ l \in Locked \ {"copy.1", "copy.2"} => NotNewer(file[path], Served.copy)
  PROVE  QuietInv'
<1>1. /\ pub'[Service].pc = l /\ pub'[Service].file = Served.file
      /\ pub'[Service].copy = Served.copy
    BY ContentFacts DEF Goto, Served, Publisher
<1>2. watching BY DEF QuietInv, At, Served
<1> QED BY <1>1, <1>2 DEF QuietInv, Served, source

\* The service's own calls.
LEMMA QuietServes ==
  ASSUME IInv, QuietInv, publishLNDBackup(Service)
  PROVE  QuietInv'
<1>0. watching /\ ~At(Service, "idle")
    BY DEF QuietInv, Served, At, publishLNDBackup, OpenSource, LockStage, CopySource,
       RereadSource, VerifySourcePath, SyncTemporary, RenameIntoExport,
       VerifyPublished, CommitExport
<1>1. CASE Fail(Service) /\ UNCHANGED <<source, watching>>
  <2>1. pub'[Service] = Failed BY <1>1, ContentFacts DEF Fail
  <2> QED BY <1>0, <1>1, <2>1, QuietError DEF source
<1>2. CASE OpenSource(Service)
  <2>1. CASE path = 0 BY <1>1, <1>2, <2>1 DEF OpenSource
  <2>2. CASE path # 0
    <3>1. pub'[Service].pc = "lock" /\ pub'[Service].file = path
        BY <1>2, <2>2, ContentFacts DEF OpenSource, Publisher
    <3> QED BY <1>0, <1>2, <3>1 DEF OpenSource, QuietInv, Served, Locked, source
  <2> QED BY <2>1, <2>2
<1>3. CASE LockStage(Service)
  <2>1. CASE Goto(Service, "copy.1")
      BY <1>0, <1>3, <2>1, QuietGoto DEF LockStage, QuietInv, Served, At
  <2> QED BY <1>1, <1>3, <2>1 DEF LockStage
<1>4. CASE CopySource(Service)
  <2> DEFINE f == file[Served.file]
  <2>1. CASE At(Service, "copy.1")
    <3>1. /\ pub'[Service].pc = "copy.2" /\ pub'[Service].file = Served.file
          /\ pub'[Service].copy[1] = f[1]
        BY <1>4, <2>1, ContentFacts DEF CopySource, At, Served, Publisher
    <3> QED BY <1>0, <1>4, <2>1, <3>1 DEF CopySource, QuietInv, Served, At, Locked, source
  <2>2. CASE At(Service, "copy.2")
    <3>1. /\ pub'[Service].pc = "reread.1"
          /\ pub'[Service].copy = <<Served.copy[1], f[2]>>
        BY <1>4, <2>2, ContentFacts DEF CopySource, At, Served, Publisher
    <3>2. ~missed /\ ~writing => NotNewer(file[path], pub'[Service].copy)
        BY <1>0, <2>2, <3>1, ContentFacts, BoundsAssumption
        DEF QuietInv, Served, At, NotNewer, Contents, Versions
    <3> QED BY <1>0, <1>4, <3>1, <3>2 DEF CopySource, QuietInv, Served, Locked, source
  <2> QED BY <1>4, <2>1, <2>2 DEF CopySource
<1>5. CASE RereadSource(Service)
  <2>1. CASE \E l \in {"reread.2", "path"} : Goto(Service, l)
      BY <1>0, <1>5, <2>1, QuietGoto DEF RereadSource, QuietInv, Served, At, Locked
  <2> QED BY <1>1, <1>5, <2>1 DEF RereadSource
<1>6. CASE VerifySourcePath(Service)
  <2>1. CASE Goto(Service, "sync")
      BY <1>0, <1>6, <2>1, QuietGoto DEF VerifySourcePath, QuietInv, Served, At, Locked
  <2> QED BY <1>1, <1>6, <2>1 DEF VerifySourcePath
<1>7. CASE SyncTemporary(Service)
  <2>1. pub'[Service].pc = "rename" /\ pub'[Service].copy = Served.copy
      BY <1>7, ContentFacts DEF SyncTemporary, Served, Publisher
  <2> QED BY <1>0, <1>7, <2>1 DEF SyncTemporary, QuietInv, Served, At, Locked, source
<1>8. CASE RenameIntoExport(Service)
    BY <1>0, <1>8, QuietGoto DEF RenameIntoExport, QuietInv, Served, At, Locked
<1>9. CASE VerifyPublished(Service)
  <2>1. CASE Goto(Service, "commit")
      BY <1>0, <1>9, <2>1, QuietGoto DEF VerifyPublished, QuietInv, Served, At, Locked
  <2> QED BY <1>1, <1>9, <2>1 DEF VerifyPublished
<1>10. CASE CommitExport(Service)
  <2>1. pub'[Service].pc = "idle"
      BY <1>10, ContentFacts, IdleIsPublisher DEF CommitExport, Answered, Idle
  <2>2. kept' = Served.copy
      BY <1>10, ContentFacts DEF CommitExport, OnDisk, IInv, DiskInv, CopyInv, At, Served
  <2> QED BY <1>0, <1>10, <2>1, <2>2 DEF CommitExport, QuietInv, Served, At, Locked, source
<1> QED BY <1>2, <1>3, <1>4, <1>5, <1>6, <1>7, <1>8, <1>9, <1>10 DEF publishLNDBackup

\* Another publisher leaves the service alone.
LEMMA QuietOthers ==
  ASSUME IInv, QuietInv, NEW p \in Publishers, p # Service,
         publishLNDBackup(p) \/ Interrupt(p) \/ RunByHand(p)
  PROVE  QuietInv'
<1>1. pub'[Service] = pub[Service] /\ UNCHANGED <<source, watching, missed>>
    BY ContentFacts
    DEF publishLNDBackup, OpenSource, LockStage, CopySource, RereadSource,
        VerifySourcePath, SyncTemporary, RenameIntoExport, VerifyPublished,
        CommitExport, Interrupt, RunByHand, Fail, Goto, Answered, Started
<1>2. kept' = kept \/ kept' = export.data
    BY DEF publishLNDBackup, OpenSource, LockStage, CopySource, RereadSource,
        VerifySourcePath, SyncTemporary, RenameIntoExport, VerifyPublished,
        CommitExport, Interrupt, RunByHand, OnDisk, IInv, DiskInv
<1>3. kept' \in Contents /\ NotNewer(kept, kept')
    BY <1>2, ContentFacts, BoundsAssumption DEF IInv, DiskInv, NotNewer, Contents, Versions
<1> QED BY <1>1, <1>3, QuietStill

\* A change starts the service, or is missed because it runs.
LEMMA QuietNotice ==
  ASSUME IInv, QuietInv, path' = 0 => version' = 0, NEW r, Notified(r),
         r \in [Publishers -> Publisher], UNCHANGED watching,
         r[Service].pc = Served.pc, r[Service].answer = Served.answer
  PROVE  QuietInv'
<1>1. CASE ~watching
    BY <1>1 DEF Notified, QuietInv, Served
<1>2. CASE watching /\ At(Service, "idle")
  <2>1. pub'[Service].pc = "open"
      BY <1>2, ContentFacts, IdleIsPublisher DEF Notified, Idle
  <2> QED BY <1>2, <2>1, QuietOpen
<1>3. CASE watching /\ ~At(Service, "idle")
    BY <1>3 DEF Notified, QuietInv, Served
<1> QED BY <1>1, <1>2, <1>3

LEMMA TouchedServes ==
  ASSUME IInv, NEW tick \in BOOLEAN
  PROVE  /\ Touched(tick)[Service].pc = Served.pc
         /\ Touched(tick)[Service].answer = Served.answer
<1>1. /\ Service \in Publishers /\ pub[Service] \in Publisher
    BY ContentFacts DEF Served
<1>2. Touched(tick)[Service] \in {pub[Service], [pub[Service] EXCEPT !.touched = TRUE]}
    BY <1>1, TouchReaches
<1> HIDE DEF Touched
<1> QED BY <1>1, <1>2 DEF Served, Publisher

LEMMA QuietSource ==
  ASSUME IInv, QuietInv, SwapBackup \/ BeginRewrite \/ EndRewrite
  PROVE  QuietInv'
<1>1. CASE SwapBackup
  <2>1. path' # 0 BY <1>1, ContentFacts DEF SwapBackup
  <2> QED BY <1>1, <2>1, ContentFacts, QuietNotice DEF SwapBackup, Served
<1>2. CASE BeginRewrite
  <2>1. PICK tick \in BOOLEAN : pub' = Touched(tick)
      BY <1>2 DEF BeginRewrite
  <2>2. pub'[Service].pc = Served.pc /\ pub'[Service].answer = Served.answer
      BY <2>1, TouchedServes
  <2> QED BY <1>2, <2>2 DEF BeginRewrite, QuietInv, Served
<1>3. CASE EndRewrite
  <2>1. PICK tick \in BOOLEAN : Notified(Touched(tick))
      BY <1>3 DEF EndRewrite
  <2> DEFINE r == Touched(tick)
  <2>2. /\ Notified(r) /\ r \in [Publishers -> Publisher]
        /\ r[Service].pc = Served.pc /\ r[Service].answer = Served.answer
      BY <2>1, TouchReaches, TouchedServes
  <2>3. path' = 0 => version' = 0
      BY <1>3 DEF EndRewrite, QuietInv
  <2> HIDE DEF r
  <2> QED BY <1>3, <2>2, <2>3, QuietNotice DEF EndRewrite
<1> QED BY <1>1, <1>2, <1>3

\* What is there when the watching begins is exported, if there is anything.
LEMMA QuietWatch ==
  ASSUME IInv, QuietInv, WatchBackup
  PROVE  QuietInv'
<1>0. At(Service, "idle") /\ path' = path /\ version' = version /\ watching'
    BY DEF WatchBackup, QuietInv, At, Served, source
<1>1. CASE path # 0
  <2>1. pub'[Service].pc = "open"
      BY <1>0, <1>1, ContentFacts, IdleIsPublisher DEF WatchBackup, Started, Idle
  <2> QED BY <1>0, <1>1, <2>1, QuietOpen
<1>2. CASE path = 0
  <2>1. version = 0 /\ pub' = pub /\ UNCHANGED <<source, kept>> BY <1>2 DEF QuietInv, WatchBackup
  <2>2. ~writing => NotNewer(file[path], kept)
      BY <2>1, ContentFacts, BoundsAssumption
      DEF IInv, SourceInv, NotNewer, Contents, Versions
  <2> QED BY <1>0, <2>1, <2>2 DEF QuietInv, Served, At, Locked, source
<1> QED BY <1>1, <1>2

LEMMA QuietKeeps ==
  ASSUME IInv, QuietInv, [ExportNext]_exportVars
  PROVE  QuietInv'
<1>1. CASE Interrupt(Service)
  <2>1. pub'[Service] = Failed /\ watching
      BY <1>1, ContentFacts DEF Interrupt, Fail, QuietInv, Served, At
  <2> QED BY <1>1, <2>1, QuietError DEF Interrupt, source
<1>2. CASE Writeback
  <2>1. kept' = export.data BY <1>2 DEF Writeback, OnDisk, IInv, DiskInv
  <2> QED BY <1>2, <2>1, ContentFacts, QuietStill DEF Writeback, IInv, DiskInv
<1>3. CASE PowerLoss
  <2>1. CASE At(Service, "idle")
    <3>1. pub'[Service] = pub[Service] /\ kept' = kept
        BY <1>3, <2>1, ContentFacts DEF PowerLoss
    <3>2. NotNewer(kept, kept)
        BY ContentFacts, BoundsAssumption DEF NotNewer, Contents, Versions
    <3> QED BY <1>3, <3>1, <3>2, ContentFacts, QuietStill DEF PowerLoss
  <2>2. CASE ~At(Service, "idle")
    <3>1. pub'[Service] = Failed /\ watching
        BY <1>3, <2>2, ContentFacts DEF PowerLoss, QuietInv, Served, At
    <3> QED BY <1>3, <3>1, QuietError DEF PowerLoss, source
  <2> QED BY <2>1, <2>2
<1>4. CASE UNCHANGED exportVars
    BY <1>4 DEF exportVars, QuietInv, Served
<1>5. ASSUME NEW p \in Publishers, publishLNDBackup(p) \/ Interrupt(p) \/ RunByHand(p)
      PROVE  QuietInv'
  <2>1. CASE p = Service BY <1>1, <1>5, <2>1, QuietServes DEF RunByHand
  <2> QED BY <1>5, <2>1, QuietOthers
<1> QED BY <1>2, <1>3, <1>4, <1>5, QuietSource, QuietWatch DEF ExportNext

\* When nothing runs, the export is LND's newest backup, and also on the disk,
\* unless the last run reported an error or a change came while it was running:
\* lnd-backup-watch.path starts the service for each change, and starting the
\* watch exports what is there.
THEOREM QuietExportIsCurrent == Spec => []QuietIsCurrent
<1>1. ExportInit => QuietInv
  <2> SUFFICES ASSUME ExportInit PROVE QuietInv
      OBVIOUS
  <2>1. Served = Idle /\ path = 0 /\ version = 0 /\ ~watching
      BY PublishersAssumption DEF ExportInit, Served
  <2> QED BY <2>1 DEF QuietInv, Idle
<1>2. IInv /\ QuietInv /\ [ExportNext]_exportVars => QuietInv'
    BY QuietKeeps
<1>3. ASSUME IInv, QuietInv PROVE QuietIsCurrent
  <2>1. NotNewer(file[path], kept) => NotNewer(file[path], export.data)
      BY <1>3, ContentFacts, Transitive DEF IInv, DiskInv
  <2> QED BY <1>3, <2>1 DEF QuietIsCurrent, QuietInv, Served, At
<1>4. IInv /\ QuietInv => QuietIsCurrent
    BY <1>3
<1> QED BY <1>1, <1>2, <1>4, ExportInvariant, ComponentHolds, PTL DEF ExportSpec

-----------------------------------------------------------------------------
(* Pairing.                                                                *)

\* The devices that the operator was told are paired by a request that met no
\* other.  They are shared, known to every list that a PATCH is about to send,
\* and nobody's device; requests that are under way together have all raced.
\* Everything a finished installation needs stays as it was made.
Sure == told \ raced

AddonInv ==
  /\ request \in [Requests -> Request] /\ known \subseteq Devices /\ shares \subseteq known
  /\ install \in {"start", "confirm", "register", "watch", "export", "stage", "save"} => tor
  /\ install \in {"watch", "export", "stage", "save"} => folder
  /\ install \in {"export", "stage", "save"} => watching
  /\ enabled => tor /\ folder /\ watching
  /\ told # {} => enabled
  /\ Sure \subseteq shares
  /\ \A s \in Requests :
       /\ request[s].pc # "idle" => enabled /\ request[s].device \cap Sure = {}
       /\ request[s].pc \in {"get", "patch"} => request[s].device \subseteq known \cup raced
       /\ request[s].pc = "patch" => Sure \subseteq request[s].list
  /\ \A s, t \in Requests :
       s # t /\ request[s].pc # "idle" /\ request[t].pc # "idle" =>
         request[s].device \subseteq raced

LEMMA NobodyIsIdle == Nobody \in Request /\ Nobody.pc = "idle"
BY DEF Nobody, Request

\* A step of the export: the watch, once started, is not stopped.
LEMMA AddonAside ==
  ASSUME AddonInv, UNCHANGED addonVars, watching => watching'
  PROVE  AddonInv'
BY DEF AddonInv, Sure, addonVars

\* A step of the installation touches no pairing.
LEMMA InstallStepKeeps ==
  ASSUME AddonInv, UNCHANGED <<pairing, folder>>, watching' = watching,
         tor => tor',
         \/ install' = "none" /\ enabled' = enabled
         \/ install' = "none" /\ install = "save" /\ enabled'
         \/ /\ enabled' = enabled
            /\ \/ install' \in {"download", "binary", "folders", "config", "tor"}
               \/ install' = "start" /\ tor'
               \/ install' = "confirm" /\ install = "start"
               \/ install' = "register" /\ install = "confirm"
               \/ install' = "save" /\ install = "stage"
               \/ install' = "stage" /\ install = "export"
  PROVE  AddonInv'
<1>1. /\ request' = request /\ known' = known /\ shares' = shares /\ told' = told
      /\ raced' = raced /\ folder' = folder
    BY DEF pairing
<1>2. enabled => enabled' BY DEF AddonInv
<1>3. /\ install' \in {"start", "confirm", "register", "watch", "export", "stage", "save"} => tor'
      /\ install' \in {"watch", "export", "stage", "save"} => folder'
      /\ install' \in {"export", "stage", "save"} => watching'
    BY <1>1 DEF AddonInv
<1>4. enabled' => enabled \/ install = "save"
    OBVIOUS
<1>5. enabled \/ install = "save" => tor /\ folder /\ watching
    BY DEF AddonInv
<1>6. enabled' => tor' /\ folder' /\ watching'
    BY <1>1, <1>4, <1>5
<1> QED BY <1>1, <1>2, <1>3, <1>6 DEF AddonInv, Sure

LEMMA InstallKeeps ==
  ASSUME AddonInv, UNCHANGED exportVars,
         \/ AskInstall \/ DownloadSyncthing \/ InstallBinary \/ CreateFolders
         \/ AuthorConfig \/ ConfigureTor \/ StartDaemon
         \/ ConfirmPrivacy \/ StageCredentials \/ PublishSetting
         \/ InstallFails
  PROVE  AddonInv'
<1>1. watching' = watching BY DEF exportVars
<1>2. CASE AskInstall \/ DownloadSyncthing \/ InstallBinary \/ CreateFolders \/ AuthorConfig
    BY <1>1, <1>2, InstallStepKeeps
    DEF AskInstall, DownloadSyncthing, InstallBinary, CreateFolders, AuthorConfig, Step
<1>3. CASE ConfigureTor \/ StartDaemon \/ ConfirmPrivacy
    BY <1>1, <1>3, InstallStepKeeps DEF ConfigureTor, StartDaemon, ConfirmPrivacy, Step
<1>4. CASE StageCredentials \/ PublishSetting
    BY <1>1, <1>4, InstallStepKeeps DEF StageCredentials, PublishSetting, Step
<1>5. CASE InstallFails
    BY <1>1, <1>5, InstallStepKeeps DEF InstallFails
<1> QED BY <1>2, <1>3, <1>4, <1>5

LEMMA RegisterKeeps ==
  ASSUME AddonInv, UNCHANGED exportVars, RegisterFolder
  PROVE  AddonInv'
BY DEF AddonInv, Sure, exportVars, RegisterFolder, Step, pairing

LEMMA SetUpKeeps ==
  ASSUME AddonInv, SetUpExport
  PROVE  AddonInv'
BY DEF AddonInv, Sure, SetUpExport, SetUpWatcher, WatchBackup, Step, pairing

LEMMA AwaitKeeps ==
  ASSUME AddonInv, AwaitExport
  PROVE  AddonInv'
<1>1. watching' = watching BY DEF AwaitExport, exportVars
<1> QED BY <1>1, InstallStepKeeps DEF AwaitExport

\* What a request under way does to its own record and to the shares.
LEMMA PairingKeeps ==
  ASSUME AddonInv, UNCHANGED <<exportVars, installation, raced>>,
         NEW s \in Requests, NEW r \in Request, Becomes(s, r),
         request[s].pc # "idle", r.pc = "idle" \/ r.device = request[s].device,
         known' \subseteq Devices, shares' \subseteq known', Sure \subseteq shares',
         known \subseteq known' \cup request[s].device,
         \/ told' = told
         \/ r.pc = "idle" /\ told' = told \cup request[s].device
            /\ request[s].device \subseteq shares' \cup raced,
         r.pc \in {"get", "patch"} => r.device \subseteq known' \cup raced,
         r.pc = "patch" => Sure \subseteq r.list
  PROVE  AddonInv'
<1> DEFINE d == request[s].device
<1>1. /\ watching' = watching /\ install' = install /\ tor' = tor
      /\ enabled' = enabled /\ folder' = folder /\ raced' = raced
    BY DEF exportVars, installation
<1>2. /\ request' \in [Requests -> Request] /\ request'[s] = r
      /\ \A t \in Requests : t # s => request'[t] = request[t]
    BY DEF AddonInv, Becomes
<1>3. enabled /\ d \cap Sure = {}
    BY DEF AddonInv
<1>4. \A t \in Requests : t # s /\ request[t].pc # "idle" =>
        d \subseteq raced /\ request[t].device \subseteq raced
    BY DEF AddonInv
<1>5. Sure' = Sure \/ (r.pc = "idle" /\ Sure' = Sure \cup (d \ raced) /\ d \ raced \subseteq shares')
    BY <1>1 DEF Sure
<1>6. Sure' \subseteq shares'
    BY <1>5
<1>7. ASSUME NEW t \in Requests, request'[t].pc # "idle"
      PROVE  /\ request'[t].device \cap Sure' = {}
             /\ request'[t].pc \in {"get", "patch"} => request'[t].device \subseteq known' \cup raced'
             /\ request'[t].pc = "patch" => Sure' \subseteq request'[t].list
  <2>1. CASE t = s
      BY <1>1, <1>2, <1>3, <1>5, <1>7, <2>1
  <2>2. CASE t # s
    <3>1. request'[t] = request[t] /\ d \subseteq raced /\ request[t].device \subseteq raced
        BY <1>2, <1>4, <1>7, <2>2
    <3>2. Sure' = Sure
        BY <1>5, <3>1
    <3> QED BY <1>1, <1>7, <3>1, <3>2 DEF AddonInv
  <2> QED BY <2>1, <2>2
<1>8. ASSUME NEW t \in Requests, NEW u \in Requests, t # u,
             request'[t].pc # "idle", request'[u].pc # "idle"
      PROVE  request'[t].device \subseteq raced'
    BY <1>1, <1>2, <1>4, <1>8 DEF AddonInv
<1>9. told' # {} => enabled'
    BY <1>1, <1>3
<1>10. /\ install' \in {"start", "confirm", "register", "watch", "export", "stage", "save"} => tor'
       /\ install' \in {"watch", "export", "stage", "save"} => folder'
       /\ install' \in {"export", "stage", "save"} => watching'
       /\ enabled' => tor' /\ folder' /\ watching'
    BY <1>1 DEF AddonInv
<1> QED BY <1>1, <1>2, <1>3, <1>6, <1>7, <1>8, <1>9, <1>10 DEF AddonInv

\* A request begins: its device is not paired for sure, and whatever is under
\* way besides has raced.
LEMMA SubmitKeeps ==
  ASSUME AddonInv, UNCHANGED exportVars, NEW s \in Requests, BeginPairing(s)
  PROVE  AddonInv'
<1>1. SUFFICES ASSUME NEW e \in Devices, NEW what \in {"add", "remove"},
                      Becomes(s, [pc |-> what, device |-> {e}, list |-> {}]),
                      told' = told \ {e},
                      raced' = IF UnderWay = {} THEN raced \ {e}
                               ELSE raced \cup {e} \cup UNION {request[t].device : t \in UnderWay}
               PROVE  AddonInv'
    BY DEF BeginPairing
<1> DEFINE r == [pc |-> what, device |-> {e}, list |-> {}]
<1>2. /\ r \in Request /\ r.pc = what /\ r.device = {e} /\ what \notin {"idle", "get", "patch"}
    BY DEF Request
<1>3. Becomes(s, r)
    BY <1>1
<1> HIDE DEF r
<1>4. /\ watching' = watching /\ install' = install /\ tor' = tor /\ enabled /\ enabled'
      /\ folder' = folder /\ known' = known /\ shares' = shares
    BY DEF BeginPairing, exportVars, installation
<1>5. /\ request' \in [Requests -> Request] /\ request'[s] = r
      /\ \A t \in Requests : t # s => request'[t] = request[t]
    BY <1>2, <1>3 DEF AddonInv, Becomes
<1>6. Sure' \subseteq Sure /\ e \notin Sure'
  <2>1. Sure' \subseteq told \ {e}
      BY <1>1 DEF Sure
  <2>2. raced \subseteq raced' \cup {e}
      BY <1>1
  <2> QED BY <2>1, <2>2 DEF Sure
<1>7. \A t \in Requests : request[t].pc # "idle" =>
        request[t].device \subseteq raced' /\ e \in raced' /\ raced \subseteq raced'
  <2>1. SUFFICES ASSUME NEW t \in Requests, request[t].pc # "idle"
                 PROVE  request[t].device \subseteq raced' /\ e \in raced' /\ raced \subseteq raced'
      OBVIOUS
  <2>2. t \in UnderWay
      BY <2>1, NobodyIsIdle DEF UnderWay
  <2> QED BY <1>1, <2>2
<1>8. request[s].pc = "idle"
    BY NobodyIsIdle DEF BeginPairing
<1>9. ASSUME NEW t \in Requests, request'[t].pc # "idle"
      PROVE  /\ request'[t].device \cap Sure' = {}
             /\ request'[t].pc \in {"get", "patch"} => request'[t].device \subseteq known' \cup raced'
             /\ request'[t].pc = "patch" => Sure' \subseteq request'[t].list
  <2>1. CASE t = s
      BY <1>2, <1>5, <1>6, <2>1
  <2>2. CASE t # s
      BY <1>4, <1>5, <1>6, <1>7, <1>9, <2>2 DEF AddonInv
  <2> QED BY <2>1, <2>2
<1>10. ASSUME NEW t \in Requests, NEW u \in Requests, t # u,
              request'[t].pc # "idle", request'[u].pc # "idle"
       PROVE  request'[t].device \subseteq raced'
  <2>1. CASE t = s
    <3>1. request[u].pc # "idle"
        BY <1>5, <1>10, <2>1
    <3> QED BY <1>2, <1>5, <1>7, <2>1, <3>1
  <2>2. CASE t # s
      BY <1>5, <1>7, <1>10, <2>2
  <2> QED BY <2>1, <2>2
<1>11. Sure' \subseteq shares' /\ shares' \subseteq known' /\ known' \subseteq Devices
    BY <1>4, <1>6 DEF AddonInv
<1>12. /\ install' \in {"start", "confirm", "register", "watch", "export", "stage", "save"} => tor'
       /\ install' \in {"watch", "export", "stage", "save"} => folder'
       /\ install' \in {"export", "stage", "save"} => watching'
       /\ enabled' => tor' /\ folder' /\ watching'
    BY <1>4 DEF AddonInv
<1> QED BY <1>4, <1>5, <1>9, <1>10, <1>11, <1>12 DEF AddonInv

LEMMA RequestKeeps ==
  ASSUME AddonInv, UNCHANGED exportVars, NEW s \in Requests,
         \/ AddDevice(s) \/ GetFolder(s) \/ PatchFolder(s)
         \/ RemoveDevice(s) \/ CallFails(s)
  PROVE  AddonInv'
<1> DEFINE d == request[s].device
           l == request[s].list
<1>0. /\ request[s] \in Request /\ d \in SUBSET Devices /\ l \in SUBSET Devices
      /\ UNCHANGED <<exportVars, installation, raced>>
      /\ known \subseteq Devices /\ shares \subseteq known /\ Sure \subseteq shares
    BY DEF AddonInv, Request, AddDevice, GetFolder, PatchFolder, RemoveDevice, CallFails
<1>2. /\ request[s].pc # "idle"
      /\ enabled /\ d \cap Sure = {}
      /\ request[s].pc \in {"get", "patch"} => d \subseteq known \cup raced
      /\ request[s].pc = "patch" => Sure \subseteq l
  <2>1. request[s].pc # "idle"
      BY DEF AddDevice, GetFolder, PatchFolder, RemoveDevice, CallFails
  <2> QED BY <2>1 DEF AddonInv
<1>3. CASE AddDevice(s)
  <2> DEFINE r == [request[s] EXCEPT !.pc = "get"]
  <2>1. /\ r \in Request /\ r.pc = "get" /\ r.device = d
        /\ Becomes(s, r)
      BY <1>0, <1>3 DEF AddDevice, Request
  <2>2. known' = known \cup d /\ shares' = shares /\ told' = told /\ request[s].pc = "add"
      BY <1>3 DEF AddDevice
  <2> HIDE DEF r
  <2> QED BY <1>0, <1>2, <2>1, <2>2, PairingKeeps
<1>4. CASE GetFolder(s)
  <2>1. request[s].pc = "get" /\ known' = known /\ shares' = shares
      BY <1>4 DEF GetFolder
  <2>2. CASE TellOther(s)
      BY <1>0, <1>2, <2>1, <2>2, NobodyIsIdle, PairingKeeps DEF TellOther
  <2>3. CASE TellPaired(s) /\ d \subseteq shares
      BY <1>0, <1>2, <2>1, <2>3, NobodyIsIdle, PairingKeeps DEF TellPaired
  <2>4. CASE told' = told /\ Becomes(s, [request[s] EXCEPT !.pc = "patch", !.list = shares])
    <3> DEFINE r == [request[s] EXCEPT !.pc = "patch", !.list = shares]
    <3>1. /\ r \in Request /\ r.pc = "patch" /\ r.device = d /\ r.list = shares
          /\ Becomes(s, r)
        BY <1>0, <2>4 DEF Request
    <3> HIDE DEF r
    <3> QED BY <1>0, <1>2, <2>1, <2>4, <3>1, PairingKeeps
  <2> QED BY <1>4, <2>2, <2>3, <2>4 DEF GetFolder
<1>5. CASE PatchFolder(s)
  <2>1. /\ request[s].pc = "patch" /\ known' = known
        /\ shares' = (l \cup d) \cap known /\ TellPaired(s)
      BY <1>5 DEF PatchFolder
  <2>2. Sure \subseteq shares' /\ d \subseteq shares' \cup raced
      BY <1>0, <1>2, <2>1
  <2> QED BY <1>0, <1>2, <2>1, <2>2, NobodyIsIdle, PairingKeeps DEF TellPaired
<1>6. CASE RemoveDevice(s)
  <2>1. /\ request[s].pc = "remove" /\ known' = known \ d /\ shares' = shares \ d
        /\ TellOther(s)
      BY <1>6 DEF RemoveDevice
  <2> QED BY <1>0, <1>2, <2>1, NobodyIsIdle, PairingKeeps DEF TellOther
<1>7. CASE CallFails(s)
  <2>1. TellOther(s)
      BY <1>7 DEF CallFails
  <2>2. /\ known' \subseteq Devices /\ shares' \subseteq known' /\ Sure \subseteq shares'
        /\ known \subseteq known' \cup d
      BY <1>0, <1>2, <1>7 DEF CallFails
  <2> QED BY <1>0, <1>2, <2>1, <2>2, NobodyIsIdle, PairingKeeps DEF TellOther
<1> QED BY <1>3, <1>4, <1>5, <1>6, <1>7

LEMMA RestartKeeps ==
  ASSUME AddonInv, Restart
  PROVE  AddonInv'
<1>1. /\ UNCHANGED <<watching, tor, enabled, folder, known, shares, raced, told>>
      /\ install' = "none" /\ request' = [s \in Requests |-> Nobody]
    BY DEF Restart, PowerLoss, Reboot
<1> QED BY <1>1, NobodyIsIdle DEF AddonInv, Sure

LEMMA AddonKeeps ==
  ASSUME AddonInv, [Next]_vars
  PROVE  AddonInv'
<1>1. CASE Publishing
  <2>1. watching' = watching
      BY <1>1 DEF Publishing, Export, publishLNDBackup, OpenSource, LockStage, CopySource,
         RereadSource, VerifySourcePath, SyncTemporary, RenameIntoExport, VerifyPublished,
         CommitExport, Interrupt, RunByHand, SwapBackup, BeginRewrite, EndRewrite, Writeback
  <2> QED BY <1>1, <2>1, AddonAside DEF Publishing
<1>2. CASE Addon
  <2>1. CASE \E s \in Requests :
               BeginPairing(s) \/ AddDevice(s) \/ GetFolder(s) \/ PatchFolder(s)
                 \/ RemoveDevice(s) \/ CallFails(s)
      BY <1>2, <2>1, SubmitKeeps, RequestKeeps DEF Addon
  <2> QED BY <1>2, <2>1, InstallKeeps, RegisterKeeps DEF Addon
<1>3. CASE UNCHANGED vars
    BY <1>3, AddonAside DEF vars, exportVars
<1> QED BY <1>1, <1>2, <1>3, SetUpKeeps, AwaitKeeps, RestartKeeps DEF Next

\* "a silent false success here is forbidden": every device that the operator
\* was told is paired, by a request that met no other, is among those the folder
\* is shared with, and the export and the onion are there, whatever failed, was
\* removed, raced or restarted since; for any number of requests at once.
THEOREM ToldDevicesGetBackups == Spec => []PairedIsShared
<1>1. Init => AddonInv
    BY NobodyIsIdle DEF Init, AddonInit, AddonInv, Sure
<1>2. AddonInv /\ [Next]_vars => AddonInv'
    BY AddonKeeps
<1>3. AddonInv => PairedIsShared
    BY DEF AddonInv, PairedIsShared, Sure
<1> QED BY <1>1, <1>2, <1>3, PTL DEF Spec

=============================================================================
