------------------------------ MODULE AutoUnlock ------------------------------
(***************************************************************************)
(* The wallet auto-unlock transition of internal/installer                 *)
(* (lnd_auto_unlock.go): the root helper proves one candidate wallet        *)
(* password by swapping LND's systemd unit, storing the password, and      *)
(* restarting LND under a drop-in that allows one attempt; or it goes back *)
(* to a locked LND and deletes the password.                               *)
(*                                                                         *)
(* The files it writes have a visible and a durable version: rename and    *)
(* unlink act on the visible one, the directory fsync that follows makes   *)
(* them durable, and a power loss may return to the durable one.           *)
(*                                                                         *)
(* A line of a transition below is one call of the Go function, in its     *)
(* order: where it stands, what it does, where it goes on, where its error *)
(* goes.  Reads that decide nothing are left out; each call may fail.      *)
(***************************************************************************)
EXTENDS Naturals

CONSTANT MaxDisturbances  \* failed calls, crashes, power losses, LND crashes
ASSUME DisturbanceBound == MaxDisturbances \in Nat

VARIABLES
  disk,      \* the files as the running system sees them
  durable,   \* the files a power loss returns to
  loaded,    \* the LND unit as systemd has it loaded
  lnd,       \* the LND service: state, its argument vector, its wallet
  pc,        \* where the helper's transition stands; "idle" between requests
  job,       \* the transition's local variables
  candidate, \* the password given to enable
  result,    \* the outcome last returned to the TUI
  disturbances

vars == <<disk, durable, loaded, lnd, pc, job, candidate, result, disturbances>>

Units     == {"plain", "enabled"}
Secrets   == {"none", "good", "bad"}   \* against the wallet's real password
Files     == [unit : Units, password : Secrets, stage : BOOLEAN,
              drop : BOOLEAN, autoUnlock : BOOLEAN,
              residue : BOOLEAN]   \* a temporary file in lnd.service.d
FileNames == {"unit", "password", "stage", "drop", "autoUnlock", "residue"}
Services  == [state : {"running", "inactive", "failed", "timeout", "restarting"},
              unlock : BOOLEAN, wallet : {"locked", "active"}]
Failures  == {"verification_failed", "verification_timed_out"}
Outcomes  == Failures \cup {"enabled", "disabled", "still_enabled", "repair_required"}
Jobs      == [fresh : BOOLEAN,        \* invocation differs from the sampled one
              beforeUp : BOOLEAN,     \* before.mainPID > 0
              transitioned : BOOLEAN, \* runtimeTransitioned
              wiped : BOOLEAN,        \* removeErr = nil
              synced : BOOLEAN,       \* durabilityErr = nil
              pending : Failures]     \* outcome of a successful recovery

NewJob == [fresh |-> FALSE, beforeUp |-> FALSE, transitioned |-> FALSE,
           wiped |-> TRUE, synced |-> TRUE, pending |-> "verification_failed"]

Init ==
  /\ disk = [unit |-> "plain", password |-> "none", stage |-> FALSE,
             drop |-> FALSE, autoUnlock |-> FALSE, residue |-> FALSE]
  /\ durable = disk
  /\ loaded = [unit |-> "plain", drop |-> FALSE]
  /\ lnd = [state |-> "running", unlock |-> FALSE, wallet |-> "locked"]
  /\ pc = "idle" /\ job = NewJob /\ candidate = "none"
  /\ result = "none" /\ disturbances = 0

-------------------------------------------------------------------------------
(* Exits of a call: go on, return an outcome, or start a recovery.         *)

Disturb  == disturbances < MaxDisturbances /\ disturbances' = disturbances + 1
Quiet    == UNCHANGED disturbances

To(l)       == pc' = l /\ UNCHANGED <<job, result>>
ToWith(l,j) == pc' = l /\ job' = j /\ UNCHANGED result
Return(r)   == pc' = "idle" /\ job' = NewJob /\ result' = r
Repair      == Return("repair_required")

Fail(o)     == ToWith("restoreDisabled.drop", [job EXCEPT !.pending = o])
VerifyFail  == Fail("verification_failed")
Restore     == To("restoreEnabled.check")

(* Mutant of DisabledDisk: the final inspection skips the password.        *)
DisabledUnit == disk.unit = "plain" /\ ~disk.drop

(* validateOptionalDropInDir, which every inspection of the files starts   *)
(* with, refuses any other name next to the drop-in.  Each request begins  *)
(* with an inspection, and what leaves a residue ends the request, so the  *)
(* later inspections of a request never meet one.                          *)
Inspectable == ~disk.residue

(* What the final inspections of a disabled state accept.                  *)
DisabledDisk == /\ disk.unit = "plain" /\ disk.password = "none"
                /\ ~disk.stage /\ ~disk.drop

Running(unlock) == lnd.state = "running" /\ lnd.unlock = unlock
Locked          == Running(FALSE) /\ lnd.wallet = "locked"
Ready           == Running(TRUE) /\ lnd.wallet = "active"

-------------------------------------------------------------------------------
(* The primitives of autoUnlockOps.                                        *)

(* What systemd gets from starting the loaded unit: an unlocking LND exits *)
(* unless the stored password is the wallet's; an exit is retried by       *)
(* systemd unless the verification drop-in is loaded.                      *)
Halted == [state |-> "inactive", unlock |-> FALSE, wallet |-> "locked"]
Down(why, u) == [Halted EXCEPT !.state = IF u.drop THEN why ELSE "restarting"]
Launch(u, password) ==
  IF u.unit = "plain"
  THEN [state |-> "running", unlock |-> FALSE, wallet |-> "locked"]
  ELSE IF password = "good"
       THEN [state |-> "running", unlock |-> TRUE, wallet |-> "active"]
       ELSE Down("failed", u)

(* Calls that only read: on cond one way, else another, or they fail.      *)
Look(l, cond, yes, no, err) ==
  /\ pc = l
  /\ \/ cond /\ yes /\ Quiet
     \/ ~cond /\ no /\ Quiet
     \/ err /\ Disturb
  /\ UNCHANGED <<disk, durable, loaded, lnd, candidate>>
Check(l, cond, ok, err) == Look(l, cond, ok, err, err)

(* Mutant of Write: the directory is never synced.                         *)
WriteUnsynced(l, file, value, ok, err) ==
  /\ pc = l /\ disk' = [disk EXCEPT ![file] = value] /\ ok /\ Quiet
  /\ UNCHANGED <<durable, loaded, lnd, candidate>>

(* replaceExactFile writes a temporary file next to its target.  Only      *)
(* lnd.service.d is ever listed, so only the drop-in's matters: it stays   *)
(* when the replacement stops half-way or when its removal fails too.      *)
(* systemd reads *.conf files only.                                        *)
DropWrites == {"enable.drop", "restoreDisabled.drop", "disable.drop", "finish.drop",
               "restoreEnabled.drop"}
Residue == [disk EXCEPT !.residue = TRUE]

(* writeUnit (with the validateUnit that follows), writeVerifyDrop,        *)
(* removeVerifyDrop, saveConfig: an atomic replacement and directory fsync; *)
(* the error of the fsync comes after the replacement is visible.          *)
Write(l, file, value, ok, err) ==
  /\ pc = l
  /\ \/ /\ disk' = [disk EXCEPT ![file] = value]
        /\ durable' = [durable EXCEPT ![file] = value]
        /\ ok /\ Quiet
     \/ /\ \/ disk' \in {disk, [disk EXCEPT ![file] = value]}
           \/ l \in DropWrites /\ disk' = Residue
        /\ err /\ Disturb /\ UNCHANGED durable
  /\ UNCHANGED <<loaded, lnd, candidate>>

(* saveConfig whose error is forgiven when loadConfig shows the value.     *)
SaveConfirmed(l, value, ok, err) ==
  Write(l, "autoUnlock", value, ok, (disk'.autoUnlock = value /\ ok) \/ err)

(* publishWalletPassword: the stage is created, then renamed to the        *)
(* canonical name; an error removes the stage if it can.                   *)
WritePassword(l, ok, err) ==
  /\ pc = l
  /\ \/ /\ ~disk.stage
        /\ disk' = [disk EXCEPT !.password = candidate]
        /\ durable' = [durable EXCEPT !.password = candidate, !.stage = FALSE]
        /\ ok /\ Quiet
     \/ disk.stage /\ err /\ Quiet /\ UNCHANGED <<disk, durable>>
     \/ /\ ~disk.stage
        /\ disk' \in {disk, [disk EXCEPT !.stage = TRUE],
                      [disk EXCEPT !.password = candidate]}
        /\ err /\ Disturb /\ UNCHANGED durable
  /\ UNCHANGED <<loaded, lnd, candidate>>

(* Mutant of NoSecret: the staging name is forgotten.                      *)
NoSecretButStage(files) == [files EXCEPT !.password = "none"]

NoSecret(files) == [files EXCEPT !.password = "none", !.stage = FALSE]

(* Mutant of RemovePassword: the unlink is taken for durable.              *)
RemovePasswordUnsynced(l, ok, err) ==
  /\ pc = l /\ disk' = NoSecret(disk) /\ ok /\ Quiet
  /\ UNCHANGED <<durable, loaded, lnd, candidate>>

(* removePasswordDurably: both names are unlinked and the directory synced; *)
(* a reported sync error is retried once both names are gone.              *)
RemovePassword(l, ok, err) ==
  /\ pc = l
  /\ \/ disk' = NoSecret(disk) /\ durable' = NoSecret(durable) /\ ok /\ Quiet
     \/ /\ disk' \in {disk, [disk EXCEPT !.password = "none"],
                      [disk EXCEPT !.stage = FALSE], NoSecret(disk)}
        /\ err /\ Disturb /\ UNCHANGED durable
  /\ UNCHANGED <<loaded, lnd, candidate>>

(* daemonReload, then the loaded unit must be the one asked for.           *)
Reload(l, unit, drop, ok, err) ==
  /\ pc = l
  /\ LET now  == [unit |-> disk.unit, drop |-> disk.drop]
         want == [unit |-> unit, drop |-> drop]
     IN  \/ loaded' = now /\ now = want /\ ok /\ Quiet
         \/ loaded' = now /\ now # want /\ err /\ Quiet
         \/ loaded' \in {loaded, now} /\ err /\ Disturb
  /\ UNCHANGED <<disk, durable, lnd, candidate>>

(* Mutant of Stop: the stop is not followed by a look at the process.      *)
StopUnproved(l, ok, err) ==
  /\ pc = l /\ ok
  /\ \/ lnd' = Halted /\ Quiet
     \/ lnd' = lnd /\ Disturb
  /\ UNCHANGED <<disk, durable, loaded, candidate>>

(* stopAndVerifyNoProcess: a failed unit keeps its failed state; the stop  *)
(* is proved only under the loaded Restart=no.                             *)
Stop(l, ok, err) ==
  /\ pc = l
  /\ LET down == IF lnd.state \in {"failed", "timeout"} THEN lnd ELSE Halted
     IN  \/ lnd' = down /\ loaded.drop /\ ok /\ Quiet
         \/ lnd' = down /\ ~loaded.drop /\ err /\ Quiet
         \/ lnd' \in {lnd, down} /\ err /\ Disturb
  /\ UNCHANGED <<disk, durable, loaded, candidate>>

(* startLND: systemctl start returns once the unit is up or has failed; a  *)
(* start that never happened leaves the sampled invocation in place.       *)
Start(l, next) ==
  /\ pc = l
  /\ \/ lnd' = Launch(loaded, disk.password) /\ ToWith(next, [job EXCEPT !.fresh = TRUE]) /\ Quiet
     \/ lnd' = Down("timeout", loaded) /\ ToWith(next, [job EXCEPT !.fresh = TRUE]) /\ Disturb
     \/ lnd' = lnd /\ To(next) /\ Disturb
  /\ UNCHANGED <<disk, durable, loaded, candidate>>

(* waitForInvocation: the new invocation is ready, has exited, took longer *)
(* than the startup limit, or was not proved within the window.            *)
Wait(l, proved, ready, exited, late, unproved) ==
  /\ pc = l
  /\ LET gone == job.fresh /\ lnd.state \in {"failed", "inactive"}
         slow == job.fresh /\ lnd.state = "timeout"
         good == job.fresh /\ proved
     IN  \/ good /\ ready /\ Quiet
         \/ gone /\ exited /\ Quiet
         \/ slow /\ late /\ Quiet
         \/ ~(good \/ gone \/ slow) /\ unproved /\ Quiet
         \/ (late \/ unproved) /\ Disturb
  /\ UNCHANGED <<disk, durable, loaded, lnd, candidate>>
-------------------------------------------------------------------------------
(* The transitions.                                                        *)

(* A request is accepted by the helper, which serves one at a time.        *)
Request(l, password) ==
  /\ pc = "idle" /\ pc' = l /\ job' = NewJob /\ result' = "none"
  /\ candidate' = password
  /\ UNCHANGED <<disk, durable, loaded, lnd, disturbances>>

RequestEnable  == \E p \in {"good", "bad"} : Request("enable.start", p)
RequestDisable == Request("disable.start", "none")

(* before, err := ops.unitStatus(): the sampled invocation is the current. *)
Sampled == [job EXCEPT !.fresh = FALSE, !.beforeUp = (lnd.state = "running")]

EnableAutoUnlock ==
  \/ Check("enable.start", ~disk.autoUnlock /\ Inspectable, To("enable.drop"), Repair)
  \/ Write("enable.drop", "drop", TRUE, To("enable.plain"), Repair)
  \/ Write("enable.plain", "unit", "plain", To("enable.reload"), Repair)
  \/ Reload("enable.reload", "plain", TRUE, To("enable.before"), Repair)
  \/ Look("enable.before", Running(FALSE), ToWith("enable.clear", Sampled),
          ToWith("relock.stop", Sampled), ToWith("relock.stop", Sampled) \/ Repair)
  \/ RemovePassword("enable.clear", To("enable.disk"), Repair)
  \/ Check("enable.again", TRUE, ToWith("enable.disk", Sampled), Repair)
  \/ Check("enable.disk", /\ disk.unit = "plain" /\ disk.drop
                          /\ NoSecret(disk) = disk,
           To("enable.password"), Repair)
  \/ WritePassword("enable.password", To("enable.unit"), VerifyFail)
  \/ Write("enable.unit", "unit", "enabled", To("enable.arm"), VerifyFail)
  \/ Reload("enable.arm", "enabled", TRUE,
            ToWith("enable.stop", [job EXCEPT !.transitioned = TRUE]), VerifyFail)
  \/ Stop("enable.stop", To("enable.launch"), VerifyFail)
  \/ Start("enable.launch", "enable.wait")
  \/ Wait("enable.wait", Ready, To("enable.undrop"),
          VerifyFail, Fail("verification_timed_out"), VerifyFail)
  \/ Write("enable.undrop", "drop", FALSE, To("enable.policy"), VerifyFail)
  \/ Reload("enable.policy", "enabled", FALSE, To("enable.same"), VerifyFail)
  \/ Check("enable.same", Ready /\ job.fresh, To("enable.save"), VerifyFail)
  \/ Write("enable.save", "autoUnlock", TRUE, To("enable.confirm"), VerifyFail)
  \/ Check("enable.confirm", disk.autoUnlock, Return("enabled"), VerifyFail)

(* replaceWithLockedPlainInvocation, called at the start of an enable and  *)
(* when a transitioned enable is undone; a failed password removal does    *)
(* not keep it from starting the locked LND, and is reported after that.   *)
ReplaceWithLockedPlain ==
  \/ Stop("relock.stop", To("relock.clear"), Repair)
  \/ RemovePassword("relock.clear", To("relock.launch"),
                    ToWith("relock.launch", [job EXCEPT !.wiped = FALSE]))
  \/ Start("relock.launch", "relock.wait")
  \/ Wait("relock.wait", Locked,
          \/ ~job.wiped /\ Repair
          \/ job.wiped /\ job.transitioned /\ To("restoreDisabled.undrop")
          \/ job.wiped /\ ~job.transitioned /\ To("enable.again"),
          Repair, Repair, Repair)

(* restoreDisabled: undo a failed enable and return its pending outcome.   *)
RestoreDisabled ==
  \/ Write("restoreDisabled.drop", "drop", TRUE, To("restoreDisabled.plain"), Repair)
  \/ Write("restoreDisabled.plain", "unit", "plain", To("restoreDisabled.reload"), Repair)
  \/ Reload("restoreDisabled.reload", "plain", TRUE, To("restoreDisabled.runtime"), Repair)
  \/ Look("restoreDisabled.runtime", job.transitioned, ToWith("relock.stop", Sampled),
          To(IF job.beforeUp THEN "restoreDisabled.original" ELSE "restoreDisabled.undrop"),
          Repair)
  \/ Check("restoreDisabled.original", ~job.fresh /\ Running(FALSE),
           To("restoreDisabled.clear"), Repair)
  \/ RemovePassword("restoreDisabled.clear", To("restoreDisabled.undrop"), Repair)
  \/ Write("restoreDisabled.undrop", "drop", FALSE, To("restoreDisabled.policy"), Repair)
  \/ Reload("restoreDisabled.policy", "plain", FALSE, To("restoreDisabled.same"), Repair)
  \/ Check("restoreDisabled.same", job.transitioned => Locked /\ job.fresh,
           To("restoreDisabled.save"), Repair)
  \/ SaveConfirmed("restoreDisabled.save", FALSE, To("restoreDisabled.final"), Repair)
  \/ Check("restoreDisabled.final", DisabledDisk, Return(job.pending), Repair)

(* disableAutoUnlockTransition up to the removal of the password, the      *)
(* irreversible commit point; errors before it restore the enabled state.  *)
DisableAutoUnlock ==
  \/ Look("disable.start", disk.autoUnlock /\ Inspectable,
          \/ disk.password # "none" /\ To("disable.drop")
          \/ disk.password = "none" /\ disk.unit = "plain" /\ To("finish.drop")
          \/ disk.password = "none" /\ disk.unit # "plain" /\ Repair,
          Repair, Repair)
  \/ Write("disable.drop", "drop", TRUE, To("disable.plain"), Repair)
  \/ Write("disable.plain", "unit", "plain", To("disable.reload"), Restore)
  \/ Reload("disable.reload", "plain", TRUE, To("disable.before"), Restore)
  \/ Check("disable.before", TRUE, ToWith("disable.stop", Sampled), Restore)
  \/ Stop("disable.stop", To("disable.launch"), Restore)
  \/ Start("disable.launch", "disable.wait")
  \/ Wait("disable.wait", Locked, To("disable.undrop"), Restore, Restore, Restore)
  \/ Write("disable.undrop", "drop", FALSE, To("disable.policy"), Restore)
  \/ Reload("disable.policy", "plain", FALSE, To("disable.same"), Restore)
  \/ Check("disable.same", Locked /\ job.fresh, To("disable.remove"), Restore)
  \/ RemovePassword("disable.remove", To("finish.drop"),
       \/ disk'.password # "none" /\ Restore
       \/ disk'.password = "none" /\ To("disable.retry")
       \/ Repair)
  \/ RemovePassword("disable.retry", To("finish.drop"),
       ToWith("finish.drop", [job EXCEPT !.synced = FALSE]))

(* finishDisabledAfterPasswordRemoval with ensureLockedRuntime.            *)
FinishDisabled ==
  \/ Write("finish.drop", "drop", TRUE, To("finish.plain"), Repair)
  \/ Write("finish.plain", "unit", "plain", To("finish.reload"), Repair)
  \/ Reload("finish.reload", "plain", TRUE, To("finish.ensure"), Repair)
  \/ Look("finish.ensure", Locked, To("finish.undrop"), ToWith("finish.stop", Sampled),
          ToWith("finish.stop", Sampled) \/ Repair)
  \/ Stop("finish.stop", To("finish.launch"), Repair)
  \/ Start("finish.launch", "finish.wait")
  \/ Wait("finish.wait", Locked, To("finish.undrop"), Repair, Repair, Repair)
  \/ Write("finish.undrop", "drop", FALSE, To("finish.policy"), Repair)
  \/ Reload("finish.policy", "plain", FALSE, To("finish.same"), Repair)
  \/ Check("finish.same", Locked, To("finish.save"), Repair)
  \/ SaveConfirmed("finish.save", FALSE, To("finish.final"), Repair)
  \/ Check("finish.final", DisabledDisk,
           \/ job.synced /\ Return("disabled")
           \/ ~job.synced /\ Repair, Repair)

(* restoreEnabled: put the verified enabled state back.                    *)
RestoreEnabled ==
  \/ Check("restoreEnabled.check", disk.password # "none", To("restoreEnabled.drop"), Repair)
  \/ Write("restoreEnabled.drop", "drop", TRUE, To("restoreEnabled.unit"), Repair)
  \/ Write("restoreEnabled.unit", "unit", "enabled", To("restoreEnabled.arm"), Repair)
  \/ Reload("restoreEnabled.arm", "enabled", TRUE, To("restoreEnabled.before"), Repair)
  \/ Check("restoreEnabled.before", TRUE, ToWith("restoreEnabled.stop", Sampled), Repair)
  \/ Stop("restoreEnabled.stop", To("restoreEnabled.launch"), Repair)
  \/ Start("restoreEnabled.launch", "restoreEnabled.wait")
  \/ Wait("restoreEnabled.wait", Ready, To("restoreEnabled.undrop"), Repair, Repair, Repair)
  \/ Write("restoreEnabled.undrop", "drop", FALSE, To("restoreEnabled.policy"), Repair)
  \/ Reload("restoreEnabled.policy", "enabled", FALSE, To("restoreEnabled.same"), Repair)
  \/ Check("restoreEnabled.same", Ready /\ job.fresh, To("restoreEnabled.save"), Repair)
  \/ SaveConfirmed("restoreEnabled.save", TRUE, Return("still_enabled"), Repair)

HelperStep ==
  \/ EnableAutoUnlock \/ ReplaceWithLockedPlain \/ RestoreDisabled
  \/ DisableAutoUnlock \/ FinishDisabled \/ RestoreEnabled

-------------------------------------------------------------------------------
(* The machine around the helper.                                          *)

(* systemd's Restart=on-failure starts the loaded unit again.              *)
AutoRestart ==
  /\ lnd.state = "restarting"
  /\ lnd' = Launch(loaded, disk.password)
  /\ job' = IF pc = "idle" THEN job ELSE [job EXCEPT !.fresh = TRUE]
  /\ UNCHANGED <<disk, durable, loaded, pc, candidate, result, disturbances>>

LNDCrash ==
  /\ lnd.state = "running"
  /\ lnd' = Down("failed", loaded)
  /\ Disturb
  /\ UNCHANGED <<disk, durable, loaded, pc, job, candidate, result>>

(* The operator unlocks a locked wallet by hand; during a transition this  *)
(* competes with it.                                                       *)
ManualUnlock ==
  /\ Locked
  /\ lnd' = [lnd EXCEPT !.wallet = "active"]
  /\ IF pc = "idle" THEN Quiet ELSE Disturb
  /\ UNCHANGED <<disk, durable, loaded, pc, job, candidate, result>>

(* The helper's service-action verb starts, stops or restarts LND.         *)
ServiceAction ==
  /\ pc = "idle"
  /\ lnd' \in {Launch(loaded, disk.password), Halted}
  /\ UNCHANGED <<disk, durable, loaded, pc, job, candidate, result, disturbances>>

(* The kernel writes directory entries back on its own.                    *)
Writeback ==
  /\ durable # disk /\ durable' = disk
  /\ UNCHANGED <<disk, loaded, lnd, pc, job, candidate, result, disturbances>>

(* The files when the helper is stopped where it stands.                   *)
Stopped == {disk} \cup {f \in {Residue} : pc \in DropWrites}

HelperCrash ==
  /\ pc # "idle" /\ pc' = "idle" /\ job' = NewJob
  /\ disk' \in Stopped
  /\ Disturb
  /\ UNCHANGED <<durable, loaded, lnd, candidate, result>>

(* A power loss: each name not synced yet may or may not have survived;    *)
(* then the boot loads and starts the unit that is on the disk.            *)
PowerLoss ==
  /\ \E now \in Stopped :
       disk' \in {f \in Files : \A n \in FileNames : f[n] \in {now[n], durable[n]}}
  /\ durable' = disk'
  /\ loaded' = [unit |-> disk'.unit, drop |-> disk'.drop]
  /\ lnd' = Launch(loaded', disk'.password)
  /\ pc' = "idle" /\ job' = NewJob /\ result' = "none"
  /\ Disturb
  /\ UNCHANGED candidate

Environment == AutoRestart \/ LNDCrash \/ ManualUnlock \/ ServiceAction
                 \/ Writeback \/ HelperCrash \/ PowerLoss

Next == RequestEnable \/ RequestDisable \/ HelperStep \/ Environment

Spec == Init /\ [][Next]_vars
-------------------------------------------------------------------------------
(* Properties.                                                             *)

TypeOK ==
  /\ disk \in Files /\ durable \in Files
  /\ loaded \in [unit : Units, drop : BOOLEAN]
  /\ lnd \in Services
  /\ job \in Jobs
  /\ candidate \in Secrets
  /\ result \in Outcomes \cup {"none"}
  /\ disturbances \in 0..MaxDisturbances

(* A password that does not open the wallet is never under an automatic    *)
(* restart: whenever the loaded unit unlocks and restarts on failure, the  *)
(* stored password is the wallet's.  This is what Restart=no, installed    *)
(* before the candidate and ExecStart are touched, is for; it must hold    *)
(* after every crash, failed call and power loss in the middle.            *)
NoRestartLoop ==
  loaded.unit = "enabled" /\ ~loaded.drop => disk.password = "good"

(* Every published setting can be left again: config says enabled without  *)
(* a stored password only next to the plain unit, the one shape that       *)
(* disable classifies as its own interruption after the commit point.      *)
NeverStranded ==
  disk.autoUnlock /\ disk.password = "none" => disk.unit = "plain"

(* The outcome the TUI was given describes the node it was given for: the  *)
(* files, the unit systemd will use next, and the arguments of a running   *)
(* LND all agree with it until the next request.                           *)
OutcomeHolds ==
  /\ result \in Failures \cup {"disabled"} =>
       /\ disk = [unit |-> "plain", password |-> "none", stage |-> FALSE,
                  drop |-> FALSE, autoUnlock |-> FALSE, residue |-> FALSE]
       /\ loaded = [unit |-> "plain", drop |-> FALSE] /\ ~lnd.unlock
  /\ result \in {"enabled", "still_enabled"} =>
       /\ disk = [unit |-> "enabled", password |-> "good", stage |-> FALSE,
                  drop |-> FALSE, autoUnlock |-> TRUE, residue |-> FALSE]
       /\ loaded = [unit |-> "enabled", drop |-> FALSE]
       /\ durable.unit = "enabled" /\ durable.password = "good" /\ ~durable.drop
  /\ result \in Failures => durable.unit = "plain" /\ durable.password = "none"

(* Nor a disable that succeeded: the comment at the removal says that success    *)
(* still requires durability of the observed absence.                      *)
DisabledIsDurable == result = "disabled" => durable.password = "none"

(* The password is never deleted under a process or a loaded unit that     *)
(* would read it: the helper removes it only when no unlocking LND runs.   *)
RemovedOnlyWhenUnused ==
  [][disk.password # "none" /\ disk'.password = "none" /\ pc # "idle" /\ pc' # "idle"
       => ~lnd.unlock /\ loaded.unit = "plain"]_vars

-------------------------------------------------------------------------------
(* Liveness: the helper's calls return, systemd restarts a failed service, *)
(* and an operator who was not given a final answer asks again, with the   *)
(* flow the TUI offers for the published setting.                          *)

Retry ==
  /\ result \notin Outcomes \ {"repair_required"}
  /\ IF disk.autoUnlock THEN RequestDisable ELSE Request("enable.start", "good")

Fairness == WF_vars(HelperStep) /\ WF_vars(AutoRestart) /\ SF_vars(Retry)
FairSpec == Spec /\ Fairness

(* However a transition is interrupted, the unit, the password, the        *)
(* drop-in and the setting it leaves behind are a shape that the next      *)
(* request recognises, and retries end in a final answer.  The exception   *)
(* is the temporary file of a drop-in whose replacement was stopped        *)
(* half-way: validateOptionalDropInDir refuses it from then on, and no     *)
(* request removes it.                                                     *)
RetryConverges == []<>(disk.residue \/ result \in Outcomes \ {"repair_required"})
===============================================================================
