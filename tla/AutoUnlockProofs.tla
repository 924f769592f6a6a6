--------------------------- MODULE AutoUnlockProofs ---------------------------
(***************************************************************************)
(* The safety of the auto-unlock transition for every number of            *)
(* disturbances.  NoRestartLoop is not inductive: a power loss may combine *)
(* the visible and the durable version of each file, so the invariant says *)
(* which combinations can exist, and where each transition has already     *)
(* made which fact durable.                                                *)
(***************************************************************************)
EXTENDS AutoUnlock, TLAPS

(* Between the durable one-attempt drop-in and its removal.                *)
Guarded == {
  "enable.plain", "enable.reload", "enable.before", "enable.clear", "enable.again",
  "enable.disk", "enable.password", "enable.unit", "enable.arm", "enable.stop",
  "enable.launch", "enable.wait", "enable.undrop",
  "relock.stop", "relock.clear", "relock.launch", "relock.wait",
  "restoreDisabled.plain", "restoreDisabled.reload", "restoreDisabled.runtime",
  "restoreDisabled.original", "restoreDisabled.clear", "restoreDisabled.undrop",
  "disable.plain", "disable.reload", "disable.before", "disable.stop",
  "disable.launch", "disable.wait", "disable.undrop",
  "finish.plain", "finish.reload", "finish.ensure", "finish.stop", "finish.launch",
  "finish.wait", "finish.undrop",
  "restoreEnabled.unit", "restoreEnabled.arm", "restoreEnabled.before",
  "restoreEnabled.stop", "restoreEnabled.launch", "restoreEnabled.wait",
  "restoreEnabled.undrop"}

(* The plain unit is loaded; it is durably on the disk there and at the    *)
(* reload that loads it.                                                   *)
PlainLoaded == {
  "enable.before", "enable.clear", "enable.again", "enable.disk", "enable.password",
  "relock.stop", "relock.clear", "relock.launch", "relock.wait",
  "restoreDisabled.runtime", "restoreDisabled.original", "restoreDisabled.clear",
  "restoreDisabled.undrop", "restoreDisabled.policy", "restoreDisabled.same",
  "restoreDisabled.save", "restoreDisabled.final",
  "disable.before", "disable.stop", "disable.launch", "disable.wait",
  "disable.undrop", "disable.policy", "disable.same", "disable.remove",
  "disable.retry", "finish.ensure", "finish.stop", "finish.launch", "finish.wait",
  "finish.undrop", "finish.policy", "finish.same", "finish.save", "finish.final"}
PlainOnDisk == PlainLoaded \cup
  {"enable.reload", "restoreDisabled.reload", "disable.reload", "finish.reload"}

(* No LND that was started to unlock is running.                           *)
NoUnlocker == {
  "enable.clear", "enable.again", "enable.disk", "enable.password", "relock.clear",
  "relock.launch", "relock.wait", "restoreDisabled.clear",
  "disable.launch", "disable.wait", "disable.undrop", "disable.policy",
  "disable.same", "disable.remove", "disable.retry"}

(* A password is durably stored; it has been proved.                       *)
Stored == {"enable.unit", "enable.arm", "enable.stop", "enable.launch", "enable.wait",
  "restoreEnabled.drop", "restoreEnabled.unit", "restoreEnabled.arm",
  "restoreEnabled.before", "restoreEnabled.stop", "restoreEnabled.launch",
  "restoreEnabled.wait"}
Proved == {"enable.undrop", "enable.policy", "enable.same", "enable.save",
           "restoreEnabled.undrop", "restoreEnabled.policy", "restoreEnabled.same",
           "restoreEnabled.save"}

(* The published setting a transition started from still stands.           *)
FromDisabled == {
  "enable.drop", "enable.plain", "enable.reload", "enable.before", "enable.clear",
  "enable.again", "enable.disk", "enable.password", "enable.unit", "enable.arm",
  "enable.stop", "enable.launch", "enable.wait"}
FromEnabled == {
  "disable.drop", "disable.plain", "disable.reload", "disable.before", "disable.stop",
  "disable.launch", "disable.wait", "disable.undrop", "disable.policy",
  "disable.same", "disable.remove",
  "restoreEnabled.check", "restoreEnabled.drop", "restoreEnabled.unit",
  "restoreEnabled.arm", "restoreEnabled.before", "restoreEnabled.stop",
  "restoreEnabled.launch", "restoreEnabled.wait"}

DiskSafe == (disk.unit = "enabled" \/ durable.unit = "enabled") /\ ~(disk.drop /\ durable.drop)
              => disk.password = "good" /\ durable.password = "good"
LoadedSafe == loaded.unit = "enabled" /\ ~loaded.drop => disk.password = "good"
UnlockerProves == lnd.unlock => disk.password = "good" /\ lnd.state = "running"
PublishedDurable == disk.autoUnlock /\ disk.password # "none"
                      => durable.password = disk.password
SettingReachable ==
  (disk.autoUnlock \/ durable.autoUnlock) /\ (disk.password = "none" \/ durable.password = "none")
    => disk.unit = "plain" /\ durable.unit = "plain"

Located ==
  /\ pc \in Guarded => disk.drop /\ durable.drop
  /\ pc \in PlainOnDisk => disk.unit = "plain" /\ durable.unit = "plain"
  /\ pc \in PlainLoaded => loaded.unit = "plain"
  /\ pc \in NoUnlocker => ~lnd.unlock
  /\ pc \in Stored => disk.password # "none" /\ durable.password = disk.password
  /\ pc = "enable.password" => disk.password = "none"
  /\ pc \in Proved => disk.password = "good" /\ durable.password = "good"
  /\ pc = "enable.start" => candidate # "none"
  /\ pc \notin {"idle", "enable.start", "disable.start"} => ~disk.residue
  /\ pc \in FromDisabled => ~disk.autoUnlock /\ candidate # "none"
  /\ pc \in FromEnabled => disk.autoUnlock
  /\ pc \in {"relock.stop", "relock.clear", "relock.launch", "relock.wait"}
       /\ ~job.transitioned => ~disk.autoUnlock /\ candidate # "none"

Safe == DiskSafe /\ LoadedSafe /\ UnlockerProves /\ PublishedDurable /\ SettingReachable
IInv == TypeOK /\ Safe /\ Located
-------------------------------------------------------------------------------
(* Typing of the operators that the steps are built from.                  *)

LEMMA NoSecretType ==
  ASSUME NEW f \in Files
  PROVE  /\ NoSecret(f) \in Files /\ NoSecret(f).password = "none"
         /\ NoSecret(f).unit = f.unit /\ NoSecret(f).drop = f.drop
         /\ NoSecret(f).autoUnlock = f.autoUnlock /\ NoSecret(f).residue = f.residue
BY DEF NoSecret, Files, Secrets

LEMMA LaunchType ==
  ASSUME NEW u \in [unit : Units, drop : BOOLEAN], NEW p \in Secrets
  PROVE  /\ Launch(u, p) \in Services
         /\ Launch(u, p).unlock =>
              u.unit = "enabled" /\ p = "good" /\ Launch(u, p).state = "running"
         /\ Down("timeout", u) \in Services /\ ~Down("timeout", u).unlock
         /\ Down("failed", u) \in Services /\ ~Down("failed", u).unlock
         /\ Halted \in Services /\ ~Halted.unlock
BY DEF Launch, Down, Halted, Services, Units

LEMMA LoadedType ==
  ASSUME NEW f \in Files
  PROVE  LET u == [unit |-> f.unit, drop |-> f.drop] IN
           /\ u \in [unit : Units, drop : BOOLEAN]
           /\ u.unit = f.unit /\ u.drop = f.drop
BY DEF Files

LEMMA JobTypes ==
  ASSUME TypeOK
  PROVE  /\ NewJob \in Jobs /\ Sampled \in Jobs /\ job.pending \in Failures
         /\ [job EXCEPT !.fresh = TRUE] \in Jobs
         /\ [job EXCEPT !.transitioned = TRUE] \in Jobs
         /\ [job EXCEPT !.wiped = FALSE] \in Jobs
         /\ [job EXCEPT !.synced = FALSE] \in Jobs
         /\ \A o \in Failures : [job EXCEPT !.pending = o] \in Jobs
BY DEF TypeOK, Jobs, NewJob, Sampled, Failures

(* What each exit of a call leaves in the variables it sets.               *)
ExitType == job' \in Jobs /\ result' \in Outcomes \cup {"none"}

LEMMA ExitsType ==
  ASSUME TypeOK
  PROVE  /\ \A l : To(l) => ExitType
         /\ \A l : \A j \in Jobs : ToWith(l, j) => ExitType
         /\ Repair => ExitType
         /\ \A o \in Failures : Fail(o) => ExitType
         /\ Restore => ExitType
         /\ VerifyFail => ExitType
         /\ \A r \in Outcomes : Return(r) => ExitType
<1> USE JobTypes DEF TypeOK, ExitType
<1>1. \A l : To(l) => ExitType
  BY DEF To
<1>2. \A l : \A j \in Jobs : ToWith(l, j) => ExitType
  BY DEF ToWith
<1>3. \A r \in Outcomes : Return(r) => ExitType
  BY DEF Return
<1>4. \A o \in Failures : Fail(o) => ExitType
  BY <1>2 DEF Fail
<1>5. Repair => ExitType
  BY <1>3 DEF Repair, Outcomes
<1>6. (Restore => ExitType) /\ (VerifyFail => ExitType)
  BY <1>1, <1>4 DEF Restore, VerifyFail, Failures
<1> QED
  BY <1>1, <1>2, <1>3, <1>4, <1>5, <1>6

LEMMA CountType ==
  ASSUME TypeOK
  PROVE  /\ Disturb => disturbances' \in 0..MaxDisturbances
         /\ Quiet => disturbances' \in 0..MaxDisturbances
BY DisturbanceBound DEF TypeOK, Disturb, Quiet

-------------------------------------------------------------------------------
(* Type correctness, transition by transition.                             *)

LEMMA EnableAutoUnlockType == ASSUME TypeOK, EnableAutoUnlock PROVE TypeOK'
<1>1. CASE Check("enable.start", ~disk.autoUnlock /\ Inspectable, To("enable.drop"), Repair)
  BY <1>1, ExitsType, CountType DEF Check, Look, TypeOK, ExitType
<1>2. CASE Write("enable.drop", "drop", TRUE, To("enable.plain"), Repair)
  BY <1>2, ExitsType, CountType DEF Write, DropWrites, Residue, TypeOK, Files, Units, ExitType
<1>3. CASE Write("enable.plain", "unit", "plain", To("enable.reload"), Repair)
  BY <1>3, ExitsType, CountType DEF Write, DropWrites, Residue, TypeOK, Files, Units, ExitType
<1>4. CASE Reload("enable.reload", "plain", TRUE, To("enable.before"), Repair)
  BY <1>4, ExitsType, CountType, LoadedType DEF Reload, TypeOK, ExitType
<1>5. CASE Look("enable.before", Running(FALSE), ToWith("enable.clear", Sampled),
                ToWith("relock.stop", Sampled), ToWith("relock.stop", Sampled) \/ Repair)
  BY <1>5, ExitsType, CountType, JobTypes DEF Look, TypeOK, ExitType
<1>6. CASE RemovePassword("enable.clear", To("enable.disk"), Repair)
  BY <1>6, ExitsType, CountType, NoSecretType DEF RemovePassword, TypeOK, Files, ExitType
<1>7. CASE Check("enable.again", TRUE, ToWith("enable.disk", Sampled), Repair)
  BY <1>7, ExitsType, CountType, JobTypes DEF Check, Look, TypeOK, ExitType
<1>8. CASE Check("enable.disk", /\ disk.unit = "plain" /\ disk.drop
                                /\ NoSecret(disk) = disk,
                 To("enable.password"), Repair)
  BY <1>8, ExitsType, CountType DEF Check, Look, TypeOK, ExitType
<1>9. CASE WritePassword("enable.password", To("enable.unit"), VerifyFail)
  BY <1>9, ExitsType, CountType DEF WritePassword, TypeOK, Files, ExitType
<1>10. CASE Write("enable.unit", "unit", "enabled", To("enable.arm"), VerifyFail)
  BY <1>10, ExitsType, CountType DEF Write, DropWrites, Residue, TypeOK, Files, Units, ExitType
<1>11. CASE Reload("enable.arm", "enabled", TRUE,
                   ToWith("enable.stop", [job EXCEPT !.transitioned = TRUE]), VerifyFail)
  BY <1>11, ExitsType, CountType, LoadedType, JobTypes DEF Reload, TypeOK, ExitType
<1>12. CASE Stop("enable.stop", To("enable.launch"), VerifyFail)
  BY <1>12, ExitsType, CountType, LaunchType DEF Stop, TypeOK, Files, ExitType
<1>13. CASE Start("enable.launch", "enable.wait")
  BY <1>13, ExitsType, CountType, LaunchType, JobTypes DEF Start, TypeOK, Files, ExitType
<1>14. CASE Wait("enable.wait", Ready, To("enable.undrop"),
                 VerifyFail, Fail("verification_timed_out"), VerifyFail)
  BY <1>14, ExitsType, CountType, JobTypes DEF Wait, Outcomes, Failures, TypeOK, ExitType
<1>15. CASE Write("enable.undrop", "drop", FALSE, To("enable.policy"), VerifyFail)
  BY <1>15, ExitsType, CountType DEF Write, DropWrites, Residue, TypeOK, Files, Units, ExitType
<1>16. CASE Reload("enable.policy", "enabled", FALSE, To("enable.same"), VerifyFail)
  BY <1>16, ExitsType, CountType, LoadedType DEF Reload, TypeOK, ExitType
<1>17. CASE Check("enable.same", Ready /\ job.fresh, To("enable.save"), VerifyFail)
  BY <1>17, ExitsType, CountType DEF Check, Look, TypeOK, ExitType
<1>18. CASE Write("enable.save", "autoUnlock", TRUE, To("enable.confirm"), VerifyFail)
  BY <1>18, ExitsType, CountType DEF Write, DropWrites, Residue, TypeOK, Files, Units, ExitType
<1>19. CASE Check("enable.confirm", disk.autoUnlock, Return("enabled"), VerifyFail)
  BY <1>19, ExitsType, CountType, JobTypes DEF Check, Look, Outcomes, Failures, TypeOK, ExitType
<1> QED
  BY <1>1, <1>2, <1>3, <1>4, <1>5, <1>6, <1>7, <1>8, <1>9, <1>10, <1>11, <1>12, <1>13, <1>14, <1>15, <1>16, <1>17, <1>18, <1>19 DEF EnableAutoUnlock

LEMMA ReplaceWithLockedPlainType == ASSUME TypeOK, ReplaceWithLockedPlain PROVE TypeOK'
<1>1. CASE Stop("relock.stop", To("relock.clear"), Repair)
  BY <1>1, ExitsType, CountType, LaunchType DEF Stop, TypeOK, Files, ExitType
<1>2. CASE RemovePassword("relock.clear", To("relock.launch"),
                          ToWith("relock.launch", [job EXCEPT !.wiped = FALSE]))
  BY <1>2, ExitsType, CountType, NoSecretType, JobTypes DEF RemovePassword, TypeOK, Files, ExitType
<1>3. CASE Start("relock.launch", "relock.wait")
  BY <1>3, ExitsType, CountType, LaunchType, JobTypes DEF Start, TypeOK, Files, ExitType
<1>4. CASE Wait("relock.wait", Locked,
                \/ ~job.wiped /\ Repair
                \/ job.wiped /\ job.transitioned /\ To("restoreDisabled.undrop")
                \/ job.wiped /\ ~job.transitioned /\ To("enable.again"),
                Repair, Repair, Repair)
  BY <1>4, ExitsType, CountType DEF Wait, TypeOK, ExitType
<1> QED
  BY <1>1, <1>2, <1>3, <1>4 DEF ReplaceWithLockedPlain

LEMMA RestoreDisabledType == ASSUME TypeOK, RestoreDisabled PROVE TypeOK'
<1>1. CASE Write("restoreDisabled.drop", "drop", TRUE, To("restoreDisabled.plain"), Repair)
  BY <1>1, ExitsType, CountType DEF Write, DropWrites, Residue, TypeOK, Files, Units, ExitType
<1>2. CASE Write("restoreDisabled.plain", "unit", "plain", To("restoreDisabled.reload"), Repair)
  BY <1>2, ExitsType, CountType DEF Write, DropWrites, Residue, TypeOK, Files, Units, ExitType
<1>3. CASE Reload("restoreDisabled.reload", "plain", TRUE, To("restoreDisabled.runtime"), Repair)
  BY <1>3, ExitsType, CountType, LoadedType DEF Reload, TypeOK, ExitType
<1>4. CASE Look("restoreDisabled.runtime", job.transitioned, ToWith("relock.stop", Sampled),
                To(IF job.beforeUp THEN "restoreDisabled.original" ELSE "restoreDisabled.undrop"),
                Repair)
  BY <1>4, ExitsType, CountType, JobTypes DEF Look, TypeOK, ExitType
<1>5. CASE Check("restoreDisabled.original", ~job.fresh /\ Running(FALSE),
                 To("restoreDisabled.clear"), Repair)
  BY <1>5, ExitsType, CountType DEF Check, Look, TypeOK, ExitType
<1>6. CASE RemovePassword("restoreDisabled.clear", To("restoreDisabled.undrop"), Repair)
  BY <1>6, ExitsType, CountType, NoSecretType DEF RemovePassword, TypeOK, Files, ExitType
<1>7. CASE Write("restoreDisabled.undrop", "drop", FALSE, To("restoreDisabled.policy"), Repair)
  BY <1>7, ExitsType, CountType DEF Write, DropWrites, Residue, TypeOK, Files, Units, ExitType
<1>8. CASE Reload("restoreDisabled.policy", "plain", FALSE, To("restoreDisabled.same"), Repair)
  BY <1>8, ExitsType, CountType, LoadedType DEF Reload, TypeOK, ExitType
<1>9. CASE Check("restoreDisabled.same", job.transitioned => Locked /\ job.fresh,
                 To("restoreDisabled.save"), Repair)
  BY <1>9, ExitsType, CountType DEF Check, Look, TypeOK, ExitType
<1>10. CASE SaveConfirmed("restoreDisabled.save", FALSE, To("restoreDisabled.final"), Repair)
  BY <1>10, ExitsType, CountType DEF SaveConfirmed, Write, DropWrites, Residue, TypeOK, Files, Units, ExitType
<1>11. CASE Check("restoreDisabled.final", DisabledDisk, Return(job.pending), Repair)
  BY <1>11, ExitsType, CountType, JobTypes DEF Check, Look, Outcomes, Failures, TypeOK, ExitType
<1> QED
  BY <1>1, <1>2, <1>3, <1>4, <1>5, <1>6, <1>7, <1>8, <1>9, <1>10, <1>11 DEF RestoreDisabled

LEMMA DisableAutoUnlockType == ASSUME TypeOK, DisableAutoUnlock PROVE TypeOK'
<1>1. CASE Look("disable.start", disk.autoUnlock /\ Inspectable,
                \/ disk.password # "none" /\ To("disable.drop")
                \/ disk.password = "none" /\ disk.unit = "plain" /\ To("finish.drop")
                \/ disk.password = "none" /\ disk.unit # "plain" /\ Repair,
                Repair, Repair)
  BY <1>1, ExitsType, CountType DEF Look, TypeOK, ExitType
<1>2. CASE Write("disable.drop", "drop", TRUE, To("disable.plain"), Repair)
  BY <1>2, ExitsType, CountType DEF Write, DropWrites, Residue, TypeOK, Files, Units, ExitType
<1>3. CASE Write("disable.plain", "unit", "plain", To("disable.reload"), Restore)
  BY <1>3, ExitsType, CountType DEF Write, DropWrites, Residue, TypeOK, Files, Units, ExitType
<1>4. CASE Reload("disable.reload", "plain", TRUE, To("disable.before"), Restore)
  BY <1>4, ExitsType, CountType, LoadedType DEF Reload, TypeOK, ExitType
<1>5. CASE Check("disable.before", TRUE, ToWith("disable.stop", Sampled), Restore)
  BY <1>5, ExitsType, CountType, JobTypes DEF Check, Look, TypeOK, ExitType
<1>6. CASE Stop("disable.stop", To("disable.launch"), Restore)
  BY <1>6, ExitsType, CountType, LaunchType DEF Stop, TypeOK, Files, ExitType
<1>7. CASE Start("disable.launch", "disable.wait")
  BY <1>7, ExitsType, CountType, LaunchType, JobTypes DEF Start, TypeOK, Files, ExitType
<1>8. CASE Wait("disable.wait", Locked, To("disable.undrop"), Restore, Restore, Restore)
  BY <1>8, ExitsType, CountType DEF Wait, TypeOK, ExitType
<1>9. CASE Write("disable.undrop", "drop", FALSE, To("disable.policy"), Restore)
  BY <1>9, ExitsType, CountType DEF Write, DropWrites, Residue, TypeOK, Files, Units, ExitType
<1>10. CASE Reload("disable.policy", "plain", FALSE, To("disable.same"), Restore)
  BY <1>10, ExitsType, CountType, LoadedType DEF Reload, TypeOK, ExitType
<1>11. CASE Check("disable.same", Locked /\ job.fresh, To("disable.remove"), Restore)
  BY <1>11, ExitsType, CountType DEF Check, Look, TypeOK, ExitType
<1>12. CASE RemovePassword("disable.remove", To("finish.drop"),
                           \/ disk'.password # "none" /\ Restore
                           \/ disk'.password = "none" /\ To("disable.retry")
                           \/ Repair)
  BY <1>12, ExitsType, CountType, NoSecretType DEF RemovePassword, TypeOK, Files, ExitType
<1>13. CASE RemovePassword("disable.retry", To("finish.drop"),
                           ToWith("finish.drop", [job EXCEPT !.synced = FALSE]))
  BY <1>13, ExitsType, CountType, NoSecretType, JobTypes DEF RemovePassword, TypeOK, Files, ExitType
<1> QED
  BY <1>1, <1>2, <1>3, <1>4, <1>5, <1>6, <1>7, <1>8, <1>9, <1>10, <1>11, <1>12, <1>13 DEF DisableAutoUnlock

LEMMA FinishDisabledType == ASSUME TypeOK, FinishDisabled PROVE TypeOK'
<1>1. CASE Write("finish.drop", "drop", TRUE, To("finish.plain"), Repair)
  BY <1>1, ExitsType, CountType DEF Write, DropWrites, Residue, TypeOK, Files, Units, ExitType
<1>2. CASE Write("finish.plain", "unit", "plain", To("finish.reload"), Repair)
  BY <1>2, ExitsType, CountType DEF Write, DropWrites, Residue, TypeOK, Files, Units, ExitType
<1>3. CASE Reload("finish.reload", "plain", TRUE, To("finish.ensure"), Repair)
  BY <1>3, ExitsType, CountType, LoadedType DEF Reload, TypeOK, ExitType
<1>4. CASE Look("finish.ensure", Locked, To("finish.undrop"), ToWith("finish.stop", Sampled),
                ToWith("finish.stop", Sampled) \/ Repair)
  BY <1>4, ExitsType, CountType, JobTypes DEF Look, TypeOK, ExitType
<1>5. CASE Stop("finish.stop", To("finish.launch"), Repair)
  BY <1>5, ExitsType, CountType, LaunchType DEF Stop, TypeOK, Files, ExitType
<1>6. CASE Start("finish.launch", "finish.wait")
  BY <1>6, ExitsType, CountType, LaunchType, JobTypes DEF Start, TypeOK, Files, ExitType
<1>7. CASE Wait("finish.wait", Locked, To("finish.undrop"), Repair, Repair, Repair)
  BY <1>7, ExitsType, CountType DEF Wait, TypeOK, ExitType
<1>8. CASE Write("finish.undrop", "drop", FALSE, To("finish.policy"), Repair)
  BY <1>8, ExitsType, CountType DEF Write, DropWrites, Residue, TypeOK, Files, Units, ExitType
<1>9. CASE Reload("finish.policy", "plain", FALSE, To("finish.same"), Repair)
  BY <1>9, ExitsType, CountType, LoadedType DEF Reload, TypeOK, ExitType
<1>10. CASE Check("finish.same", Locked, To("finish.save"), Repair)
  BY <1>10, ExitsType, CountType DEF Check, Look, TypeOK, ExitType
<1>11. CASE SaveConfirmed("finish.save", FALSE, To("finish.final"), Repair)
  BY <1>11, ExitsType, CountType DEF SaveConfirmed, Write, DropWrites, Residue, TypeOK, Files, Units, ExitType
<1>12. CASE Check("finish.final", DisabledDisk,
                  \/ job.synced /\ Return("disabled")
                  \/ ~job.synced /\ Repair, Repair)
  BY <1>12, ExitsType, CountType, JobTypes DEF Check, Look, Outcomes, Failures, TypeOK, ExitType
<1> QED
  BY <1>1, <1>2, <1>3, <1>4, <1>5, <1>6, <1>7, <1>8, <1>9, <1>10, <1>11, <1>12 DEF FinishDisabled

LEMMA RestoreEnabledType == ASSUME TypeOK, RestoreEnabled PROVE TypeOK'
<1>1. CASE Check("restoreEnabled.check", disk.password # "none", To("restoreEnabled.drop"), Repair)
  BY <1>1, ExitsType, CountType DEF Check, Look, TypeOK, ExitType
<1>2. CASE Write("restoreEnabled.drop", "drop", TRUE, To("restoreEnabled.unit"), Repair)
  BY <1>2, ExitsType, CountType DEF Write, DropWrites, Residue, TypeOK, Files, Units, ExitType
<1>3. CASE Write("restoreEnabled.unit", "unit", "enabled", To("restoreEnabled.arm"), Repair)
  BY <1>3, ExitsType, CountType DEF Write, DropWrites, Residue, TypeOK, Files, Units, ExitType
<1>4. CASE Reload("restoreEnabled.arm", "enabled", TRUE, To("restoreEnabled.before"), Repair)
  BY <1>4, ExitsType, CountType, LoadedType DEF Reload, TypeOK, ExitType
<1>5. CASE Check("restoreEnabled.before", TRUE, ToWith("restoreEnabled.stop", Sampled), Repair)
  BY <1>5, ExitsType, CountType, JobTypes DEF Check, Look, TypeOK, ExitType
<1>6. CASE Stop("restoreEnabled.stop", To("restoreEnabled.launch"), Repair)
  BY <1>6, ExitsType, CountType, LaunchType DEF Stop, TypeOK, Files, ExitType
<1>7. CASE Start("restoreEnabled.launch", "restoreEnabled.wait")
  BY <1>7, ExitsType, CountType, LaunchType, JobTypes DEF Start, TypeOK, Files, ExitType
<1>8. CASE Wait("restoreEnabled.wait", Ready, To("restoreEnabled.undrop"), Repair, Repair, Repair)
  BY <1>8, ExitsType, CountType DEF Wait, TypeOK, ExitType
<1>9. CASE Write("restoreEnabled.undrop", "drop", FALSE, To("restoreEnabled.policy"), Repair)
  BY <1>9, ExitsType, CountType DEF Write, DropWrites, Residue, TypeOK, Files, Units, ExitType
<1>10. CASE Reload("restoreEnabled.policy", "enabled", FALSE, To("restoreEnabled.same"), Repair)
  BY <1>10, ExitsType, CountType, LoadedType DEF Reload, TypeOK, ExitType
<1>11. CASE Check("restoreEnabled.same", Ready /\ job.fresh, To("restoreEnabled.save"), Repair)
  BY <1>11, ExitsType, CountType DEF Check, Look, TypeOK, ExitType
<1>12. CASE SaveConfirmed("restoreEnabled.save", TRUE, Return("still_enabled"), Repair)
  BY <1>12, ExitsType, CountType, JobTypes DEF SaveConfirmed, Write, DropWrites, Residue, TypeOK, Files, Units, Outcomes, Failures, ExitType
<1> QED
  BY <1>1, <1>2, <1>3, <1>4, <1>5, <1>6, <1>7, <1>8, <1>9, <1>10, <1>11, <1>12 DEF RestoreEnabled

LEMMA RequestType == ASSUME TypeOK, RequestEnable \/ RequestDisable PROVE TypeOK'
BY JobTypes DEF TypeOK, RequestEnable, RequestDisable, Request, Secrets

LEMMA EnvironmentType == ASSUME TypeOK, Environment PROVE TypeOK'
<1>1. CASE AutoRestart
  BY <1>1, LaunchType, JobTypes DEF AutoRestart, TypeOK, Files
<1>2. CASE LNDCrash
  BY <1>2, LaunchType, CountType DEF LNDCrash, TypeOK
<1>3. CASE ManualUnlock
  BY <1>3, CountType DEF ManualUnlock, Locked, Running, TypeOK, Services
<1>4. CASE ServiceAction
  BY <1>4, LaunchType DEF ServiceAction, TypeOK, Files
<1>5. CASE Writeback
  BY <1>5 DEF Writeback, TypeOK
<1>6. CASE HelperCrash
  BY <1>6, JobTypes, CountType DEF HelperCrash, Stopped, DropWrites, Residue, TypeOK, Files
<1>7. CASE PowerLoss
  <2>1. disk' \in Files
    BY <1>7 DEF PowerLoss
  <2>2. loaded' \in [unit : Units, drop : BOOLEAN]
    BY <1>7, <2>1, LoadedType DEF PowerLoss
  <2>3. lnd' \in Services
    BY <1>7, <2>1, <2>2, LaunchType DEF PowerLoss, Files
  <2> QED
    BY <1>7, <2>1, <2>2, <2>3, JobTypes, CountType DEF PowerLoss, TypeOK
<1> QED
  BY <1>1, <1>2, <1>3, <1>4, <1>5, <1>6, <1>7 DEF Environment

LEMMA InitType == Init => TypeOK
BY DisturbanceBound DEF Init, TypeOK, Files, Units, Secrets, Services, NewJob, Jobs, Failures

LEMMA NextType == ASSUME TypeOK, [Next]_vars PROVE TypeOK'
<1>1. CASE HelperStep
  BY <1>1, EnableAutoUnlockType, ReplaceWithLockedPlainType, RestoreDisabledType,
     DisableAutoUnlockType, FinishDisabledType, RestoreEnabledType DEF HelperStep
<1>2. CASE UNCHANGED vars
  BY <1>2 DEF vars, TypeOK
<1> QED
  BY <1>1, <1>2, RequestType, EnvironmentType DEF Next

(* Every reachable state is well typed, for every bound on disturbances.   *)
THEOREM TypeCorrect == Spec => []TypeOK
<1>1. Init => TypeOK
  BY InitType
<1>2. TypeOK /\ [Next]_vars => TypeOK'
  BY NextType
<1> QED
  BY <1>1, <1>2, PTL DEF Spec

-------------------------------------------------------------------------------
(* The safety invariant, transition by transition.                         *)

USE DEF Guarded, PlainLoaded, PlainOnDisk, NoUnlocker, Stored, Proved, FromDisabled, FromEnabled

LEMMA EnableAutoUnlockSafe == ASSUME TypeOK, TypeOK', Safe, Located, EnableAutoUnlock PROVE Safe' /\ Located'
<1> USE DEF Safe, DiskSafe, LoadedSafe, UnlockerProves, PublishedDurable, SettingReachable,
            Located, Return, Repair, To, ToWith, Fail, VerifyFail, Restore
<1>1. CASE Check("enable.start", ~disk.autoUnlock /\ Inspectable, To("enable.drop"), Repair)
  BY <1>1 DEF Check, Look, Inspectable
<1>2. CASE Write("enable.drop", "drop", TRUE, To("enable.plain"), Repair)
  BY <1>2 DEF Write, DropWrites, Residue, TypeOK, Files
<1>3. CASE Write("enable.plain", "unit", "plain", To("enable.reload"), Repair)
  BY <1>3 DEF Write, DropWrites, Residue, TypeOK, Files
<1>4. CASE Reload("enable.reload", "plain", TRUE, To("enable.before"), Repair)
  BY <1>4 DEF Reload, TypeOK, Files
<1>5. CASE Look("enable.before", Running(FALSE), ToWith("enable.clear", Sampled),
                ToWith("relock.stop", Sampled), ToWith("relock.stop", Sampled) \/ Repair)
  BY <1>5 DEF Look, TypeOK, Jobs, Running, Sampled
<1>6. CASE RemovePassword("enable.clear", To("enable.disk"), Repair)
  BY <1>6, NoSecretType DEF RemovePassword, TypeOK, Files
<1>7. CASE Check("enable.again", TRUE, ToWith("enable.disk", Sampled), Repair)
  BY <1>7 DEF Check, Look, TypeOK, Jobs, Sampled
<1>8. CASE Check("enable.disk", /\ disk.unit = "plain" /\ disk.drop
                                /\ NoSecret(disk) = disk,
                 To("enable.password"), Repair)
  BY <1>8, NoSecretType DEF Check, Look, TypeOK
<1>9. CASE WritePassword("enable.password", To("enable.unit"), VerifyFail)
  <2>1. /\ disk.unit = "plain" /\ durable.unit = "plain" /\ disk.drop /\ durable.drop
        /\ ~disk.autoUnlock /\ loaded.unit = "plain" /\ ~lnd.unlock /\ candidate # "none"
    BY <1>9 DEF WritePassword
  <2>2. /\ disk'.unit = "plain" /\ durable'.unit = "plain" /\ disk'.drop /\ durable'.drop
        /\ ~disk'.autoUnlock /\ loaded' = loaded /\ lnd' = lnd /\ candidate' = candidate
        /\ ~disk'.residue
    BY <1>9, <2>1 DEF WritePassword, TypeOK, Files
  <2>3. \/ pc' \in {"idle", "restoreDisabled.drop"}
        \/ pc' = "enable.unit" /\ disk'.password = candidate /\ durable'.password = candidate
    BY <1>9 DEF WritePassword, TypeOK, Files
  <2> QED
    BY <2>1, <2>2, <2>3
<1>10. CASE Write("enable.unit", "unit", "enabled", To("enable.arm"), VerifyFail)
  BY <1>10 DEF Write, DropWrites, Residue, TypeOK, Files
<1>11. CASE Reload("enable.arm", "enabled", TRUE,
                   ToWith("enable.stop", [job EXCEPT !.transitioned = TRUE]), VerifyFail)
  BY <1>11 DEF Reload, TypeOK, Files, Jobs
<1>12. CASE Stop("enable.stop", To("enable.launch"), VerifyFail)
  BY <1>12, LaunchType DEF Stop, TypeOK, Files
<1>13. CASE Start("enable.launch", "enable.wait")
  BY <1>13, LaunchType DEF Start, TypeOK, Files
<1>14. CASE Wait("enable.wait", Ready, To("enable.undrop"),
                 VerifyFail, Fail("verification_timed_out"), VerifyFail)
  BY <1>14 DEF Wait, Ready, Running
<1>15. CASE Write("enable.undrop", "drop", FALSE, To("enable.policy"), VerifyFail)
  BY <1>15 DEF Write, DropWrites, Residue, TypeOK, Files
<1>16. CASE Reload("enable.policy", "enabled", FALSE, To("enable.same"), VerifyFail)
  BY <1>16 DEF Reload, TypeOK, Files
<1>17. CASE Check("enable.same", Ready /\ job.fresh, To("enable.save"), VerifyFail)
  BY <1>17 DEF Check, Look, TypeOK, Jobs, Ready, Running
<1>18. CASE Write("enable.save", "autoUnlock", TRUE, To("enable.confirm"), VerifyFail)
  BY <1>18 DEF Write, DropWrites, Residue, TypeOK, Files
<1>19. CASE Check("enable.confirm", disk.autoUnlock, Return("enabled"), VerifyFail)
  BY <1>19 DEF Check, Look, Inspectable
<1> QED
  BY <1>1, <1>2, <1>3, <1>4, <1>5, <1>6, <1>7, <1>8, <1>9, <1>10, <1>11, <1>12, <1>13, <1>14, <1>15, <1>16, <1>17, <1>18, <1>19 DEF EnableAutoUnlock

LEMMA ReplaceWithLockedPlainSafe == ASSUME TypeOK, TypeOK', Safe, Located, ReplaceWithLockedPlain PROVE Safe' /\ Located'
<1> USE DEF Safe, DiskSafe, LoadedSafe, UnlockerProves, PublishedDurable, SettingReachable,
            Located, Return, Repair, To, ToWith, Fail, VerifyFail, Restore
<1>1. CASE Stop("relock.stop", To("relock.clear"), Repair)
  BY <1>1, LaunchType DEF Stop, TypeOK, Files, Jobs
<1>2. CASE RemovePassword("relock.clear", To("relock.launch"),
                          ToWith("relock.launch", [job EXCEPT !.wiped = FALSE]))
  BY <1>2, NoSecretType DEF RemovePassword, TypeOK, Files, Jobs
<1>3. CASE Start("relock.launch", "relock.wait")
  BY <1>3, LaunchType DEF Start, TypeOK, Files, Jobs
<1>4. CASE Wait("relock.wait", Locked,
                \/ ~job.wiped /\ Repair
                \/ job.wiped /\ job.transitioned /\ To("restoreDisabled.undrop")
                \/ job.wiped /\ ~job.transitioned /\ To("enable.again"),
                Repair, Repair, Repair)
  BY <1>4 DEF Wait, TypeOK, Jobs, Locked, Running
<1> QED
  BY <1>1, <1>2, <1>3, <1>4 DEF ReplaceWithLockedPlain

LEMMA RestoreDisabledSafe == ASSUME TypeOK, TypeOK', Safe, Located, RestoreDisabled PROVE Safe' /\ Located'
<1> USE DEF Safe, DiskSafe, LoadedSafe, UnlockerProves, PublishedDurable, SettingReachable,
            Located, Return, Repair, To, ToWith, Fail, VerifyFail, Restore
<1>1. CASE Write("restoreDisabled.drop", "drop", TRUE, To("restoreDisabled.plain"), Repair)
  BY <1>1 DEF Write, DropWrites, Residue, TypeOK, Files
<1>2. CASE Write("restoreDisabled.plain", "unit", "plain", To("restoreDisabled.reload"), Repair)
  BY <1>2 DEF Write, DropWrites, Residue, TypeOK, Files
<1>3. CASE Reload("restoreDisabled.reload", "plain", TRUE, To("restoreDisabled.runtime"), Repair)
  BY <1>3 DEF Reload, TypeOK, Files
<1>4. CASE Look("restoreDisabled.runtime", job.transitioned, ToWith("relock.stop", Sampled),
                To(IF job.beforeUp THEN "restoreDisabled.original" ELSE "restoreDisabled.undrop"),
                Repair)
  BY <1>4 DEF Look, TypeOK, Jobs, Sampled
<1>5. CASE Check("restoreDisabled.original", ~job.fresh /\ Running(FALSE),
                 To("restoreDisabled.clear"), Repair)
  BY <1>5 DEF Check, Look, TypeOK, Jobs, Running
<1>6. CASE RemovePassword("restoreDisabled.clear", To("restoreDisabled.undrop"), Repair)
  BY <1>6, NoSecretType DEF RemovePassword, TypeOK, Files
<1>7. CASE Write("restoreDisabled.undrop", "drop", FALSE, To("restoreDisabled.policy"), Repair)
  BY <1>7 DEF Write, DropWrites, Residue, TypeOK, Files
<1>8. CASE Reload("restoreDisabled.policy", "plain", FALSE, To("restoreDisabled.same"), Repair)
  BY <1>8 DEF Reload, TypeOK, Files
<1>9. CASE Check("restoreDisabled.same", job.transitioned => Locked /\ job.fresh,
                 To("restoreDisabled.save"), Repair)
  BY <1>9 DEF Check, Look, TypeOK, Jobs, Locked, Running
<1>10. CASE SaveConfirmed("restoreDisabled.save", FALSE, To("restoreDisabled.final"), Repair)
  BY <1>10 DEF SaveConfirmed, Write, DropWrites, Residue, TypeOK, Files
<1>11. CASE Check("restoreDisabled.final", DisabledDisk, Return(job.pending), Repair)
  BY <1>11 DEF Check, Look, TypeOK, Jobs
<1> QED
  BY <1>1, <1>2, <1>3, <1>4, <1>5, <1>6, <1>7, <1>8, <1>9, <1>10, <1>11 DEF RestoreDisabled

LEMMA DisableAutoUnlockSafe == ASSUME TypeOK, TypeOK', Safe, Located, DisableAutoUnlock PROVE Safe' /\ Located'
<1> USE DEF Safe, DiskSafe, LoadedSafe, UnlockerProves, PublishedDurable, SettingReachable,
            Located, Return, Repair, To, ToWith, Fail, VerifyFail, Restore
<1>1. CASE Look("disable.start", disk.autoUnlock /\ Inspectable,
                \/ disk.password # "none" /\ To("disable.drop")
                \/ disk.password = "none" /\ disk.unit = "plain" /\ To("finish.drop")
                \/ disk.password = "none" /\ disk.unit # "plain" /\ Repair,
                Repair, Repair)
  BY <1>1 DEF Look, Inspectable
<1>2. CASE Write("disable.drop", "drop", TRUE, To("disable.plain"), Repair)
  BY <1>2 DEF Write, DropWrites, Residue, TypeOK, Files
<1>3. CASE Write("disable.plain", "unit", "plain", To("disable.reload"), Restore)
  BY <1>3 DEF Write, DropWrites, Residue, TypeOK, Files
<1>4. CASE Reload("disable.reload", "plain", TRUE, To("disable.before"), Restore)
  BY <1>4 DEF Reload, TypeOK, Files
<1>5. CASE Check("disable.before", TRUE, ToWith("disable.stop", Sampled), Restore)
  BY <1>5 DEF Check, Look, TypeOK, Jobs, Sampled
<1>6. CASE Stop("disable.stop", To("disable.launch"), Restore)
  BY <1>6, LaunchType DEF Stop, TypeOK, Files
<1>7. CASE Start("disable.launch", "disable.wait")
  BY <1>7, LaunchType DEF Start, TypeOK, Files
<1>8. CASE Wait("disable.wait", Locked, To("disable.undrop"), Restore, Restore, Restore)
  BY <1>8 DEF Wait, Locked, Running
<1>9. CASE Write("disable.undrop", "drop", FALSE, To("disable.policy"), Restore)
  BY <1>9 DEF Write, DropWrites, Residue, TypeOK, Files
<1>10. CASE Reload("disable.policy", "plain", FALSE, To("disable.same"), Restore)
  BY <1>10 DEF Reload, TypeOK, Files
<1>11. CASE Check("disable.same", Locked /\ job.fresh, To("disable.remove"), Restore)
  BY <1>11 DEF Check, Look, TypeOK, Jobs, Locked, Running
<1>12. CASE RemovePassword("disable.remove", To("finish.drop"),
                           \/ disk'.password # "none" /\ Restore
                           \/ disk'.password = "none" /\ To("disable.retry")
                           \/ Repair)
  BY <1>12, NoSecretType DEF RemovePassword, TypeOK, Files
<1>13. CASE RemovePassword("disable.retry", To("finish.drop"),
                           ToWith("finish.drop", [job EXCEPT !.synced = FALSE]))
  BY <1>13, NoSecretType DEF RemovePassword, TypeOK, Files, Jobs
<1> QED
  BY <1>1, <1>2, <1>3, <1>4, <1>5, <1>6, <1>7, <1>8, <1>9, <1>10, <1>11, <1>12, <1>13 DEF DisableAutoUnlock

LEMMA FinishDisabledSafe == ASSUME TypeOK, TypeOK', Safe, Located, FinishDisabled PROVE Safe' /\ Located'
<1> USE DEF Safe, DiskSafe, LoadedSafe, UnlockerProves, PublishedDurable, SettingReachable,
            Located, Return, Repair, To, ToWith, Fail, VerifyFail, Restore
<1>1. CASE Write("finish.drop", "drop", TRUE, To("finish.plain"), Repair)
  BY <1>1 DEF Write, DropWrites, Residue, TypeOK, Files
<1>2. CASE Write("finish.plain", "unit", "plain", To("finish.reload"), Repair)
  BY <1>2 DEF Write, DropWrites, Residue, TypeOK, Files
<1>3. CASE Reload("finish.reload", "plain", TRUE, To("finish.ensure"), Repair)
  BY <1>3 DEF Reload, TypeOK, Files
<1>4. CASE Look("finish.ensure", Locked, To("finish.undrop"), ToWith("finish.stop", Sampled),
                ToWith("finish.stop", Sampled) \/ Repair)
  BY <1>4 DEF Look, TypeOK, Jobs, Locked, Running, Sampled
<1>5. CASE Stop("finish.stop", To("finish.launch"), Repair)
  BY <1>5, LaunchType DEF Stop, TypeOK, Files
<1>6. CASE Start("finish.launch", "finish.wait")
  BY <1>6, LaunchType DEF Start, TypeOK, Files
<1>7. CASE Wait("finish.wait", Locked, To("finish.undrop"), Repair, Repair, Repair)
  BY <1>7 DEF Wait, Locked, Running
<1>8. CASE Write("finish.undrop", "drop", FALSE, To("finish.policy"), Repair)
  BY <1>8 DEF Write, DropWrites, Residue, TypeOK, Files
<1>9. CASE Reload("finish.policy", "plain", FALSE, To("finish.same"), Repair)
  BY <1>9 DEF Reload, TypeOK, Files
<1>10. CASE Check("finish.same", Locked, To("finish.save"), Repair)
  BY <1>10 DEF Check, Look, Locked, Running
<1>11. CASE SaveConfirmed("finish.save", FALSE, To("finish.final"), Repair)
  BY <1>11 DEF SaveConfirmed, Write, DropWrites, Residue, TypeOK, Files
<1>12. CASE Check("finish.final", DisabledDisk,
                  \/ job.synced /\ Return("disabled")
                  \/ ~job.synced /\ Repair, Repair)
  BY <1>12 DEF Check, Look, TypeOK, Jobs
<1> QED
  BY <1>1, <1>2, <1>3, <1>4, <1>5, <1>6, <1>7, <1>8, <1>9, <1>10, <1>11, <1>12 DEF FinishDisabled

LEMMA RestoreEnabledSafe == ASSUME TypeOK, TypeOK', Safe, Located, RestoreEnabled PROVE Safe' /\ Located'
<1> USE DEF Safe, DiskSafe, LoadedSafe, UnlockerProves, PublishedDurable, SettingReachable,
            Located, Return, Repair, To, ToWith, Fail, VerifyFail, Restore
<1>1. CASE Check("restoreEnabled.check", disk.password # "none", To("restoreEnabled.drop"), Repair)
  BY <1>1 DEF Check, Look, Inspectable
<1>2. CASE Write("restoreEnabled.drop", "drop", TRUE, To("restoreEnabled.unit"), Repair)
  BY <1>2 DEF Write, DropWrites, Residue, TypeOK, Files
<1>3. CASE Write("restoreEnabled.unit", "unit", "enabled", To("restoreEnabled.arm"), Repair)
  BY <1>3 DEF Write, DropWrites, Residue, TypeOK, Files
<1>4. CASE Reload("restoreEnabled.arm", "enabled", TRUE, To("restoreEnabled.before"), Repair)
  BY <1>4 DEF Reload, TypeOK, Files
<1>5. CASE Check("restoreEnabled.before", TRUE, ToWith("restoreEnabled.stop", Sampled), Repair)
  BY <1>5 DEF Check, Look, TypeOK, Jobs, Sampled
<1>6. CASE Stop("restoreEnabled.stop", To("restoreEnabled.launch"), Repair)
  BY <1>6, LaunchType DEF Stop, TypeOK, Files
<1>7. CASE Start("restoreEnabled.launch", "restoreEnabled.wait")
  BY <1>7, LaunchType DEF Start, TypeOK, Files
<1>8. CASE Wait("restoreEnabled.wait", Ready, To("restoreEnabled.undrop"), Repair, Repair, Repair)
  BY <1>8 DEF Wait, Ready, Running
<1>9. CASE Write("restoreEnabled.undrop", "drop", FALSE, To("restoreEnabled.policy"), Repair)
  BY <1>9 DEF Write, DropWrites, Residue, TypeOK, Files
<1>10. CASE Reload("restoreEnabled.policy", "enabled", FALSE, To("restoreEnabled.same"), Repair)
  BY <1>10 DEF Reload, TypeOK, Files
<1>11. CASE Check("restoreEnabled.same", Ready /\ job.fresh, To("restoreEnabled.save"), Repair)
  BY <1>11 DEF Check, Look, TypeOK, Jobs, Ready, Running
<1>12. CASE SaveConfirmed("restoreEnabled.save", TRUE, Return("still_enabled"), Repair)
  BY <1>12 DEF SaveConfirmed, Write, DropWrites, Residue, TypeOK, Files
<1> QED
  BY <1>1, <1>2, <1>3, <1>4, <1>5, <1>6, <1>7, <1>8, <1>9, <1>10, <1>11, <1>12 DEF RestoreEnabled

LEMMA RequestSafe ==
  ASSUME TypeOK, Safe, RequestEnable \/ RequestDisable PROVE Safe' /\ Located'
BY DEF RequestEnable, RequestDisable, Request, Safe, DiskSafe, LoadedSafe, UnlockerProves,
       PublishedDurable, SettingReachable, Located

LEMMA EnvironmentSafe == ASSUME TypeOK, TypeOK', Safe, Located, Environment PROVE Safe' /\ Located'
<1> USE DEF Safe, DiskSafe, LoadedSafe, UnlockerProves, PublishedDurable, SettingReachable, Located
<1>1. CASE AutoRestart
  BY <1>1, LaunchType DEF AutoRestart, TypeOK, Files, Jobs
<1>2. CASE LNDCrash
  BY <1>2, LaunchType DEF LNDCrash, TypeOK
<1>3. CASE ManualUnlock
  BY <1>3 DEF ManualUnlock, Locked, Running, TypeOK, Services
<1>4. CASE ServiceAction
  BY <1>4, LaunchType DEF ServiceAction, TypeOK, Files
<1>5. CASE Writeback
  BY <1>5 DEF Writeback, TypeOK, Files
<1>6. CASE HelperCrash
  BY <1>6 DEF HelperCrash, Stopped, DropWrites, Residue, TypeOK, Files
<1>7. CASE PowerLoss
  BY <1>7, LaunchType, LoadedType DEF PowerLoss, Stopped, DropWrites, Residue, FileNames, TypeOK, Files
<1> QED
  BY <1>1, <1>2, <1>3, <1>4, <1>5, <1>6, <1>7 DEF Environment

LEMMA InitSafe == Init => Safe /\ Located
BY DEF Init, Safe, DiskSafe, LoadedSafe, UnlockerProves, PublishedDurable, SettingReachable, Located

LEMMA NextSafe == ASSUME TypeOK, TypeOK', Safe, Located, [Next]_vars PROVE Safe' /\ Located'
<1>1. CASE HelperStep
  BY <1>1, EnableAutoUnlockSafe, ReplaceWithLockedPlainSafe, RestoreDisabledSafe,
     DisableAutoUnlockSafe, FinishDisabledSafe, RestoreEnabledSafe DEF HelperStep
<1>2. CASE UNCHANGED vars
  BY <1>2 DEF vars, Safe, DiskSafe, LoadedSafe, UnlockerProves, PublishedDurable,
              SettingReachable, Located
<1> QED
  BY <1>1, <1>2, RequestSafe, EnvironmentSafe DEF Next

(* The inductive invariant: which files can meet on the disk after a power *)
(* loss, and what each call of a transition already knows.                 *)
THEOREM Invariant == Spec => []IInv
<1>1. Init => IInv
  BY InitType, InitSafe DEF IInv
<1>2. IInv /\ [Next]_vars => IInv'
  BY NextType, NextSafe DEF IInv
<1> QED
  BY <1>1, <1>2, PTL DEF Spec

(* A password that does not open the wallet is never under an automatic    *)
(* restart.                                                                *)
THEOREM NeverRestartLoops == Spec => []NoRestartLoop
<1>1. IInv => NoRestartLoop
  BY DEF IInv, Safe, LoadedSafe, NoRestartLoop
<1> QED
  BY <1>1, Invariant, PTL

(* A published setting can always be left again.                           *)
THEOREM SettingsCanBeLeft == Spec => []NeverStranded
<1>1. IInv => NeverStranded
  BY DEF IInv, Safe, SettingReachable, NeverStranded
<1> QED
  BY <1>1, Invariant, PTL

(* Where a step of the helper takes the password away.                     *)
RemovalSites == {"enable.clear", "relock.clear", "restoreDisabled.clear",
                 "disable.remove", "disable.retry"}

LEMMA RemovalSite ==
  ASSUME TypeOK, Located, HelperStep, disk.password # "none", disk'.password = "none"
  PROVE  pc \in RemovalSites
<1> USE DEF TypeOK, Files, RemovalSites, Check, Look, Write, DropWrites, Residue, SaveConfirmed, Reload, Stop, Start, Wait
<1>1. CASE EnableAutoUnlock
  BY <1>1 DEF EnableAutoUnlock, RemovePassword, WritePassword, Located
<1>2. CASE ReplaceWithLockedPlain
  BY <1>2 DEF ReplaceWithLockedPlain, RemovePassword
<1>3. CASE RestoreDisabled
  BY <1>3 DEF RestoreDisabled, RemovePassword
<1>4. CASE DisableAutoUnlock
  BY <1>4 DEF DisableAutoUnlock, RemovePassword
<1>5. CASE FinishDisabled
  BY <1>5 DEF FinishDisabled
<1>6. CASE RestoreEnabled
  BY <1>6 DEF RestoreEnabled
<1> QED
  BY <1>1, <1>2, <1>3, <1>4, <1>5, <1>6 DEF HelperStep

(* The password is deleted only when no unlocking LND runs and systemd     *)
(* would not start one.                                                    *)
THEOREM RemovesOnlyUnused == Spec => RemovedOnlyWhenUnused
<1> DEFINE Removed == disk.password # "none" /\ disk'.password = "none" /\ pc # "idle" /\ pc' # "idle"
<1>1. ASSUME IInv, Next, Removed
      PROVE  ~lnd.unlock /\ loaded.unit = "plain"
  <2>1. HelperStep
    BY <1>1 DEF Next, RequestEnable, RequestDisable, Request, Environment, AutoRestart, LNDCrash,
                ManualUnlock, ServiceAction, Writeback, HelperCrash, PowerLoss
  <2>2. pc \in RemovalSites
    BY <1>1, <2>1, RemovalSite DEF IInv
  <2> QED
    BY <1>1, <2>2 DEF IInv, Located, RemovalSites
<1>2. IInv /\ [Next]_vars => [Removed => ~lnd.unlock /\ loaded.unit = "plain"]_vars
  BY <1>1 DEF vars
<1> QED
  BY <1>2, Invariant, PTL DEF Spec, RemovedOnlyWhenUnused

-------------------------------------------------------------------------------
(* What the helper has been told when it answers.  OutcomeHolds needs what *)
(* the calls have made true on the way to an answer, and that no setting   *)
(* is published next to an unfinished copy of a password that is stored.   *)

(* Both names of the password are gone, also after a power loss.           *)
NoSecretLeft ==
  /\ disk.password = "none" /\ durable.password = "none"
  /\ ~disk.stage /\ ~durable.stage

(* The calls after a removal that was synced.                              *)
Cleared == {"enable.again", "enable.disk", "enable.password"}

(* No unfinished copy of a password lies on the disk.                      *)
Unstaged == {
  "enable.unit", "enable.arm", "enable.stop", "enable.launch", "enable.wait",
  "enable.undrop", "enable.policy", "enable.same", "enable.save", "enable.confirm",
  "restoreEnabled.drop", "restoreEnabled.unit", "restoreEnabled.arm",
  "restoreEnabled.before", "restoreEnabled.stop", "restoreEnabled.launch",
  "restoreEnabled.wait", "restoreEnabled.undrop", "restoreEnabled.policy",
  "restoreEnabled.same", "restoreEnabled.save"}

(* The enabled unit is on the disk, the drop-in removed, the result loaded. *)
EnabledOnDisk == {
  "enable.arm", "enable.stop", "enable.launch", "enable.wait", "enable.undrop",
  "enable.policy", "enable.same", "enable.save", "enable.confirm",
  "restoreEnabled.arm", "restoreEnabled.before", "restoreEnabled.stop",
  "restoreEnabled.launch", "restoreEnabled.wait", "restoreEnabled.undrop",
  "restoreEnabled.policy", "restoreEnabled.same", "restoreEnabled.save"}
EnabledUndropped == {
  "enable.policy", "enable.same", "enable.save", "enable.confirm",
  "restoreEnabled.policy", "restoreEnabled.same", "restoreEnabled.save"}
EnabledLoaded == EnabledUndropped \ {"enable.policy", "restoreEnabled.policy"}
PlainUndropped == {
  "restoreDisabled.same", "restoreDisabled.save", "restoreDisabled.final",
  "finish.same", "finish.save", "finish.final"}

(* The calls of restoreDisabled.                                           *)
Undoing == {
  "restoreDisabled.drop", "restoreDisabled.plain", "restoreDisabled.reload",
  "restoreDisabled.runtime", "restoreDisabled.original", "restoreDisabled.clear",
  "restoreDisabled.undrop", "restoreDisabled.policy", "restoreDisabled.same",
  "restoreDisabled.save", "restoreDisabled.final"}

Told ==
  /\ (disk.stage \/ durable.stage) /\ (disk.autoUnlock \/ durable.autoUnlock)
       => disk.password = "none" /\ durable.password = "none"
  /\ pc # "idle" => result = "none"
  /\ pc \in Cleared => NoSecretLeft
  /\ pc \in {"relock.launch", "relock.wait"} /\ job.wiped => NoSecretLeft
  /\ pc \in Undoing /\ disk.password = "none" => durable.password = "none"
  /\ pc \in Unstaged => ~disk.stage /\ ~durable.stage
  /\ pc \in EnabledOnDisk => disk.unit = "enabled" /\ durable.unit = "enabled"
  /\ pc \in EnabledUndropped => ~disk.drop /\ ~durable.drop
  /\ pc \in EnabledLoaded => loaded.unit = "enabled" /\ ~loaded.drop
  /\ pc \in PlainUndropped => ~loaded.drop
  /\ pc \in {"restoreDisabled.final", "finish.final"} => ~disk.autoUnlock
  /\ pc = "enable.confirm" => disk.password = "good" /\ durable.password = "good"

USE DEF Cleared, Unstaged, EnabledOnDisk, EnabledUndropped, EnabledLoaded, PlainUndropped,
        Undoing, Failures

LEMMA SecretFields ==
  ASSUME NEW f \in Files
  PROVE  /\ NoSecret(f).password = "none" /\ ~NoSecret(f).stage
         /\ NoSecret(f).unit = f.unit /\ NoSecret(f).drop = f.drop
         /\ NoSecret(f).autoUnlock = f.autoUnlock /\ NoSecret(f).residue = f.residue
         /\ NoSecret(f) = f => f.password = "none" /\ ~f.stage
<1>1. NoSecret(f).password = "none" /\ NoSecret(f).stage = FALSE
  BY DEF NoSecret, Files
<1> QED BY <1>1, NoSecretType

LEMMA WholeRecords ==
  /\ \A f \in Files :
       f = [unit |-> f.unit, password |-> f.password, stage |-> f.stage,
            drop |-> f.drop, autoUnlock |-> f.autoUnlock, residue |-> f.residue]
  /\ \A u \in [unit : Units, drop : BOOLEAN] : u = [unit |-> u.unit, drop |-> u.drop]
BY DEF Files

LEMMA EnableAutoUnlockTold ==
  ASSUME TypeOK, TypeOK', Safe, Located, Told, EnableAutoUnlock
  PROVE  Told' /\ OutcomeHolds'
<1> USE DEF Safe, DiskSafe, UnlockerProves, PublishedDurable, Located, Told, NoSecretLeft,
            OutcomeHolds, Return, Repair, To, ToWith, Fail, VerifyFail, Restore
<1>1. CASE Check("enable.start", ~disk.autoUnlock /\ Inspectable, To("enable.drop"), Repair)
  BY <1>1 DEF Check, Look, Inspectable
<1>2. CASE Write("enable.drop", "drop", TRUE, To("enable.plain"), Repair)
  BY <1>2 DEF Write, DropWrites, Residue, TypeOK, Files
<1>3. CASE Write("enable.plain", "unit", "plain", To("enable.reload"), Repair)
  BY <1>3 DEF Write, DropWrites, Residue, TypeOK, Files
<1>4. CASE Reload("enable.reload", "plain", TRUE, To("enable.before"), Repair)
  BY <1>4 DEF Reload, TypeOK, Files
<1>5. CASE Look("enable.before", Running(FALSE), ToWith("enable.clear", Sampled),
                ToWith("relock.stop", Sampled), ToWith("relock.stop", Sampled) \/ Repair)
  BY <1>5 DEF Look, TypeOK, Jobs, Running, Sampled
<1>6. CASE RemovePassword("enable.clear", To("enable.disk"), Repair)
  BY <1>6, SecretFields DEF RemovePassword, TypeOK, Files
<1>7. CASE Check("enable.again", TRUE, ToWith("enable.disk", Sampled), Repair)
  BY <1>7 DEF Check, Look, TypeOK, Jobs, Sampled
<1>8. CASE Check("enable.disk", /\ disk.unit = "plain" /\ disk.drop
                                /\ NoSecret(disk) = disk,
                 To("enable.password"), Repair)
  BY <1>8, SecretFields DEF Check, Look, TypeOK
<1>9. CASE WritePassword("enable.password", To("enable.unit"), VerifyFail)
  <2>1. CASE To("enable.unit")
    <3>1. /\ ~disk.stage
          /\ disk' = [disk EXCEPT !.password = candidate]
          /\ durable' = [durable EXCEPT !.password = candidate, !.stage = FALSE]
          /\ pc' = "enable.unit" /\ UNCHANGED <<loaded, job>>
      BY <1>9, <2>1 DEF WritePassword
    <3>2. Told' BY <1>9, <2>1, <3>1 DEF WritePassword, TypeOK, Files
    <3>3. OutcomeHolds' BY <1>9, <2>1, <3>1 DEF WritePassword, TypeOK, Files
    <3> QED BY <3>2, <3>3
  <2>2. CASE VerifyFail
    <3>1. UNCHANGED durable
      BY <1>9, <2>2 DEF WritePassword
    <3> QED BY <1>9, <2>2, <3>1 DEF WritePassword, TypeOK, Files
  <2> QED BY <1>9, <2>1, <2>2 DEF WritePassword
<1>10. CASE Write("enable.unit", "unit", "enabled", To("enable.arm"), VerifyFail)
  BY <1>10 DEF Write, DropWrites, Residue, TypeOK, Files
<1>11. CASE Reload("enable.arm", "enabled", TRUE,
                   ToWith("enable.stop", [job EXCEPT !.transitioned = TRUE]), VerifyFail)
  BY <1>11 DEF Reload, TypeOK, Files, Jobs
<1>12. CASE Stop("enable.stop", To("enable.launch"), VerifyFail)
  BY <1>12, LaunchType DEF Stop, TypeOK, Files
<1>13. CASE Start("enable.launch", "enable.wait")
  BY <1>13, LaunchType DEF Start, TypeOK, Files
<1>14. CASE Wait("enable.wait", Ready, To("enable.undrop"),
                 VerifyFail, Fail("verification_timed_out"), VerifyFail)
  BY <1>14 DEF Wait, Ready, Running
<1>15. CASE Write("enable.undrop", "drop", FALSE, To("enable.policy"), VerifyFail)
  BY <1>15 DEF Write, DropWrites, Residue, TypeOK, Files
<1>16. CASE Reload("enable.policy", "enabled", FALSE, To("enable.same"), VerifyFail)
  BY <1>16 DEF Reload, TypeOK, Files
<1>17. CASE Check("enable.same", Ready /\ job.fresh, To("enable.save"), VerifyFail)
  BY <1>17 DEF Check, Look, TypeOK, Jobs, Ready, Running
<1>18. CASE Write("enable.save", "autoUnlock", TRUE, To("enable.confirm"), VerifyFail)
  BY <1>18 DEF Write, DropWrites, Residue, TypeOK, Files
<1>19. CASE Check("enable.confirm", disk.autoUnlock, Return("enabled"), VerifyFail)
  BY <1>19, WholeRecords DEF Check, Look, TypeOK, Files
<1> QED
  BY <1>1, <1>2, <1>3, <1>4, <1>5, <1>6, <1>7, <1>8, <1>9, <1>10, <1>11, <1>12, <1>13, <1>14, <1>15, <1>16, <1>17, <1>18, <1>19 DEF EnableAutoUnlock

LEMMA ReplaceWithLockedPlainTold ==
  ASSUME TypeOK, TypeOK', Safe, Located, Told, ReplaceWithLockedPlain
  PROVE  Told' /\ OutcomeHolds'
<1> USE DEF Safe, DiskSafe, UnlockerProves, PublishedDurable, Located, Told, NoSecretLeft,
            OutcomeHolds, Return, Repair, To, ToWith, Fail, VerifyFail, Restore
<1>1. CASE Stop("relock.stop", To("relock.clear"), Repair)
  BY <1>1, LaunchType DEF Stop, TypeOK, Files, Jobs
<1>2. CASE RemovePassword("relock.clear", To("relock.launch"),
                          ToWith("relock.launch", [job EXCEPT !.wiped = FALSE]))
  BY <1>2, SecretFields DEF RemovePassword, TypeOK, Files, Jobs
<1>3. CASE Start("relock.launch", "relock.wait")
  BY <1>3, LaunchType DEF Start, TypeOK, Files, Jobs
<1>4. CASE Wait("relock.wait", Locked,
                \/ ~job.wiped /\ Repair
                \/ job.wiped /\ job.transitioned /\ To("restoreDisabled.undrop")
                \/ job.wiped /\ ~job.transitioned /\ To("enable.again"),
                Repair, Repair, Repair)
  BY <1>4 DEF Wait, TypeOK, Jobs, Locked, Running
<1> QED
  BY <1>1, <1>2, <1>3, <1>4 DEF ReplaceWithLockedPlain

LEMMA RestoreDisabledTold ==
  ASSUME TypeOK, TypeOK', Safe, Located, Told, RestoreDisabled
  PROVE  Told' /\ OutcomeHolds'
<1> USE DEF Safe, DiskSafe, UnlockerProves, PublishedDurable, Located, Told, NoSecretLeft,
            OutcomeHolds, Return, Repair, To, ToWith, Fail, VerifyFail, Restore
<1>1. CASE Write("restoreDisabled.drop", "drop", TRUE, To("restoreDisabled.plain"), Repair)
  BY <1>1 DEF Write, DropWrites, Residue, TypeOK, Files
<1>2. CASE Write("restoreDisabled.plain", "unit", "plain", To("restoreDisabled.reload"), Repair)
  BY <1>2 DEF Write, DropWrites, Residue, TypeOK, Files
<1>3. CASE Reload("restoreDisabled.reload", "plain", TRUE, To("restoreDisabled.runtime"), Repair)
  BY <1>3 DEF Reload, TypeOK, Files
<1>4. CASE Look("restoreDisabled.runtime", job.transitioned, ToWith("relock.stop", Sampled),
                To(IF job.beforeUp THEN "restoreDisabled.original" ELSE "restoreDisabled.undrop"),
                Repair)
  BY <1>4 DEF Look, TypeOK, Jobs, Sampled
<1>5. CASE Check("restoreDisabled.original", ~job.fresh /\ Running(FALSE),
                 To("restoreDisabled.clear"), Repair)
  BY <1>5 DEF Check, Look, TypeOK, Jobs, Running
<1>6. CASE RemovePassword("restoreDisabled.clear", To("restoreDisabled.undrop"), Repair)
  BY <1>6, SecretFields DEF RemovePassword, TypeOK, Files
<1>7. CASE Write("restoreDisabled.undrop", "drop", FALSE, To("restoreDisabled.policy"), Repair)
  BY <1>7 DEF Write, DropWrites, Residue, TypeOK, Files
<1>8. CASE Reload("restoreDisabled.policy", "plain", FALSE, To("restoreDisabled.same"), Repair)
  BY <1>8 DEF Reload, TypeOK, Files
<1>9. CASE Check("restoreDisabled.same", job.transitioned => Locked /\ job.fresh,
                 To("restoreDisabled.save"), Repair)
  BY <1>9 DEF Check, Look, TypeOK, Jobs, Locked, Running
<1>10. CASE SaveConfirmed("restoreDisabled.save", FALSE, To("restoreDisabled.final"), Repair)
  BY <1>10 DEF SaveConfirmed, Write, DropWrites, Residue, TypeOK, Files
<1>11. CASE Check("restoreDisabled.final", DisabledDisk, Return(job.pending), Repair)
  BY <1>11, WholeRecords DEF Check, Look, DisabledDisk, TypeOK, Files, Jobs
<1> QED
  BY <1>1, <1>2, <1>3, <1>4, <1>5, <1>6, <1>7, <1>8, <1>9, <1>10, <1>11 DEF RestoreDisabled

LEMMA DisableAutoUnlockTold ==
  ASSUME TypeOK, TypeOK', Safe, Located, Told, DisableAutoUnlock
  PROVE  Told' /\ OutcomeHolds'
<1> USE DEF Safe, DiskSafe, UnlockerProves, PublishedDurable, Located, Told, NoSecretLeft,
            OutcomeHolds, Return, Repair, To, ToWith, Fail, VerifyFail, Restore
<1>1. CASE Look("disable.start", disk.autoUnlock /\ Inspectable,
                \/ disk.password # "none" /\ To("disable.drop")
                \/ disk.password = "none" /\ disk.unit = "plain" /\ To("finish.drop")
                \/ disk.password = "none" /\ disk.unit # "plain" /\ Repair,
                Repair, Repair)
  BY <1>1 DEF Look, Inspectable
<1>2. CASE Write("disable.drop", "drop", TRUE, To("disable.plain"), Repair)
  BY <1>2 DEF Write, DropWrites, Residue, TypeOK, Files
<1>3. CASE Write("disable.plain", "unit", "plain", To("disable.reload"), Restore)
  BY <1>3 DEF Write, DropWrites, Residue, TypeOK, Files
<1>4. CASE Reload("disable.reload", "plain", TRUE, To("disable.before"), Restore)
  BY <1>4 DEF Reload, TypeOK, Files
<1>5. CASE Check("disable.before", TRUE, ToWith("disable.stop", Sampled), Restore)
  BY <1>5 DEF Check, Look, TypeOK, Jobs, Sampled
<1>6. CASE Stop("disable.stop", To("disable.launch"), Restore)
  BY <1>6, LaunchType DEF Stop, TypeOK, Files
<1>7. CASE Start("disable.launch", "disable.wait")
  BY <1>7, LaunchType DEF Start, TypeOK, Files
<1>8. CASE Wait("disable.wait", Locked, To("disable.undrop"), Restore, Restore, Restore)
  BY <1>8 DEF Wait, Locked, Running
<1>9. CASE Write("disable.undrop", "drop", FALSE, To("disable.policy"), Restore)
  BY <1>9 DEF Write, DropWrites, Residue, TypeOK, Files
<1>10. CASE Reload("disable.policy", "plain", FALSE, To("disable.same"), Restore)
  BY <1>10 DEF Reload, TypeOK, Files
<1>11. CASE Check("disable.same", Locked /\ job.fresh, To("disable.remove"), Restore)
  BY <1>11 DEF Check, Look, TypeOK, Jobs, Locked, Running
<1>12. CASE RemovePassword("disable.remove", To("finish.drop"),
                           \/ disk'.password # "none" /\ Restore
                           \/ disk'.password = "none" /\ To("disable.retry")
                           \/ Repair)
  BY <1>12, SecretFields DEF RemovePassword, TypeOK, Files
<1>13. CASE RemovePassword("disable.retry", To("finish.drop"),
                           ToWith("finish.drop", [job EXCEPT !.synced = FALSE]))
  BY <1>13, SecretFields DEF RemovePassword, TypeOK, Files, Jobs
<1> QED
  BY <1>1, <1>2, <1>3, <1>4, <1>5, <1>6, <1>7, <1>8, <1>9, <1>10, <1>11, <1>12, <1>13 DEF DisableAutoUnlock

LEMMA FinishDisabledTold ==
  ASSUME TypeOK, TypeOK', Safe, Located, Told, FinishDisabled
  PROVE  Told' /\ OutcomeHolds'
<1> USE DEF Safe, DiskSafe, UnlockerProves, PublishedDurable, Located, Told, NoSecretLeft,
            OutcomeHolds, Return, Repair, To, ToWith, Fail, VerifyFail, Restore
<1>1. CASE Write("finish.drop", "drop", TRUE, To("finish.plain"), Repair)
  BY <1>1 DEF Write, DropWrites, Residue, TypeOK, Files
<1>2. CASE Write("finish.plain", "unit", "plain", To("finish.reload"), Repair)
  BY <1>2 DEF Write, DropWrites, Residue, TypeOK, Files
<1>3. CASE Reload("finish.reload", "plain", TRUE, To("finish.ensure"), Repair)
  BY <1>3 DEF Reload, TypeOK, Files
<1>4. CASE Look("finish.ensure", Locked, To("finish.undrop"), ToWith("finish.stop", Sampled),
                ToWith("finish.stop", Sampled) \/ Repair)
  BY <1>4 DEF Look, TypeOK, Jobs, Locked, Running, Sampled
<1>5. CASE Stop("finish.stop", To("finish.launch"), Repair)
  BY <1>5, LaunchType DEF Stop, TypeOK, Files
<1>6. CASE Start("finish.launch", "finish.wait")
  BY <1>6, LaunchType DEF Start, TypeOK, Files
<1>7. CASE Wait("finish.wait", Locked, To("finish.undrop"), Repair, Repair, Repair)
  BY <1>7 DEF Wait, Locked, Running
<1>8. CASE Write("finish.undrop", "drop", FALSE, To("finish.policy"), Repair)
  BY <1>8 DEF Write, DropWrites, Residue, TypeOK, Files
<1>9. CASE Reload("finish.policy", "plain", FALSE, To("finish.same"), Repair)
  BY <1>9 DEF Reload, TypeOK, Files
<1>10. CASE Check("finish.same", Locked, To("finish.save"), Repair)
  BY <1>10 DEF Check, Look, Locked, Running
<1>11. CASE SaveConfirmed("finish.save", FALSE, To("finish.final"), Repair)
  BY <1>11 DEF SaveConfirmed, Write, DropWrites, Residue, TypeOK, Files
<1>12. CASE Check("finish.final", DisabledDisk,
                  \/ job.synced /\ Return("disabled")
                  \/ ~job.synced /\ Repair, Repair)
  BY <1>12, WholeRecords DEF Check, Look, DisabledDisk, TypeOK, Files
<1> QED
  BY <1>1, <1>2, <1>3, <1>4, <1>5, <1>6, <1>7, <1>8, <1>9, <1>10, <1>11, <1>12 DEF FinishDisabled

LEMMA RestoreEnabledTold ==
  ASSUME TypeOK, TypeOK', Safe, Located, Told, RestoreEnabled
  PROVE  Told' /\ OutcomeHolds'
<1> USE DEF Safe, DiskSafe, UnlockerProves, PublishedDurable, Located, Told, NoSecretLeft,
            OutcomeHolds, Return, Repair, To, ToWith, Fail, VerifyFail, Restore
<1>1. CASE Check("restoreEnabled.check", disk.password # "none", To("restoreEnabled.drop"), Repair)
  BY <1>1 DEF Check, Look, Inspectable
<1>2. CASE Write("restoreEnabled.drop", "drop", TRUE, To("restoreEnabled.unit"), Repair)
  BY <1>2 DEF Write, DropWrites, Residue, TypeOK, Files
<1>3. CASE Write("restoreEnabled.unit", "unit", "enabled", To("restoreEnabled.arm"), Repair)
  BY <1>3 DEF Write, DropWrites, Residue, TypeOK, Files
<1>4. CASE Reload("restoreEnabled.arm", "enabled", TRUE, To("restoreEnabled.before"), Repair)
  BY <1>4 DEF Reload, TypeOK, Files
<1>5. CASE Check("restoreEnabled.before", TRUE, ToWith("restoreEnabled.stop", Sampled), Repair)
  BY <1>5 DEF Check, Look, TypeOK, Jobs, Sampled
<1>6. CASE Stop("restoreEnabled.stop", To("restoreEnabled.launch"), Repair)
  BY <1>6, LaunchType DEF Stop, TypeOK, Files
<1>7. CASE Start("restoreEnabled.launch", "restoreEnabled.wait")
  BY <1>7, LaunchType DEF Start, TypeOK, Files
<1>8. CASE Wait("restoreEnabled.wait", Ready, To("restoreEnabled.undrop"), Repair, Repair, Repair)
  BY <1>8 DEF Wait, Ready, Running
<1>9. CASE Write("restoreEnabled.undrop", "drop", FALSE, To("restoreEnabled.policy"), Repair)
  BY <1>9 DEF Write, DropWrites, Residue, TypeOK, Files
<1>10. CASE Reload("restoreEnabled.policy", "enabled", FALSE, To("restoreEnabled.same"), Repair)
  BY <1>10 DEF Reload, TypeOK, Files
<1>11. CASE Check("restoreEnabled.same", Ready /\ job.fresh, To("restoreEnabled.save"), Repair)
  BY <1>11 DEF Check, Look, TypeOK, Jobs, Ready, Running
<1>12. CASE SaveConfirmed("restoreEnabled.save", TRUE, Return("still_enabled"), Repair)
  BY <1>12 DEF SaveConfirmed, Write, DropWrites, Residue, TypeOK, Files
<1> QED
  BY <1>1, <1>2, <1>3, <1>4, <1>5, <1>6, <1>7, <1>8, <1>9, <1>10, <1>11, <1>12 DEF RestoreEnabled
LEMMA RequestTold ==
  ASSUME TypeOK, Told, RequestEnable \/ RequestDisable
  PROVE  Told' /\ OutcomeHolds'
BY DEF RequestEnable, RequestDisable, Request, Told, NoSecretLeft, OutcomeHolds

LEMMA EnvironmentTold ==
  ASSUME TypeOK, TypeOK', Safe, Located, Told, OutcomeHolds, Environment
  PROVE  Told' /\ OutcomeHolds'
<1> USE DEF Told, NoSecretLeft, OutcomeHolds
<1>1. CASE AutoRestart
  BY <1>1, LaunchType DEF AutoRestart, TypeOK, Files, Jobs
<1>2. CASE LNDCrash
  BY <1>2, LaunchType DEF LNDCrash, TypeOK
<1>3. CASE ManualUnlock
  BY <1>3 DEF ManualUnlock, Locked, Running, TypeOK, Services
<1>4. CASE ServiceAction
  BY <1>4, LaunchType DEF ServiceAction, TypeOK, Files
<1>5. CASE Writeback
  BY <1>5 DEF Writeback, TypeOK, Files
<1>6. CASE HelperCrash
  BY <1>6 DEF HelperCrash, Stopped, DropWrites, Residue, TypeOK, Files
<1>7. CASE PowerLoss
  BY <1>7, LaunchType, LoadedType DEF PowerLoss, Stopped, DropWrites, Residue, FileNames, TypeOK, Files
<1> QED
  BY <1>1, <1>2, <1>3, <1>4, <1>5, <1>6, <1>7 DEF Environment

LEMMA NextTold ==
  ASSUME IInv, IInv', Told, OutcomeHolds, [Next]_vars
  PROVE  Told' /\ OutcomeHolds'
<1> USE DEF IInv
<1>1. CASE HelperStep
  BY <1>1, EnableAutoUnlockTold, ReplaceWithLockedPlainTold, RestoreDisabledTold,
     DisableAutoUnlockTold, FinishDisabledTold, RestoreEnabledTold DEF HelperStep
<1>2. CASE UNCHANGED vars
  BY <1>2 DEF vars, Told, NoSecretLeft, OutcomeHolds
<1> QED
  BY <1>1, <1>2, RequestTold, EnvironmentTold DEF Next

(* The outcome that the TUI was given describes the node until the next    *)
(* request: what the files say, what systemd has loaded, how LND runs, and *)
(* what a power loss would keep of an enabled or an undone setting.        *)
THEOREM OutcomesHold == Spec => []OutcomeHolds
<1>1. Init => Told /\ OutcomeHolds
  BY DEF Init, Told, NoSecretLeft, OutcomeHolds
<1>2. IInv /\ IInv' /\ Told /\ OutcomeHolds /\ [Next]_vars => Told' /\ OutcomeHolds'
  BY NextTold
<1> QED
  BY <1>1, <1>2, Invariant, PTL DEF Spec

===============================================================================
