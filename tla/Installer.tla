------------------------------- MODULE Installer ------------------------------
(***************************************************************************)
(* The passes of `vpn install` over a published lifecycle                  *)
(* (internal/installer: RunInstall, engine.go, ledger.go, identity.go,     *)
(* passwordpending.go): which steps a pass runs and which it trusts the    *)
(* ledger for, how each completion is recorded, and how the generated      *)
(* login password of an unattended pass reaches the operator although the  *)
(* pass that applies it may not be the pass that completes.                *)
(*                                                                         *)
(* A pass may stop at any call and the power may fail.  The ledger is      *)
(* written through fsync and rename; the password-pending marker is        *)
(* renamed into the same directory and never synced itself.  When          *)
(* OperatorInTUI, the root helper sets login passwords meanwhile.          *)
(* What a step leaves on the host is StepBodies; the exit gate of the      *)
(* chain is TorGate, and the questions before a pass are InstallWizard.    *)
(***************************************************************************)
EXTENDS TorGate, InstallWizard, Sequences

CONSTANTS
  Steps,           \* buildInstallSteps
  Identity,        \* "identity.access"
  OperatorInTUI,
  MaxStops, MaxPowerLosses

BaseSteps == [i \in 1..Len(Steps) |-> Steps[i].key]
Keys == {BaseSteps[i] : i \in 1..Len(Steps)}
StepOf == [k \in Keys |-> Steps[CHOOSE i \in 1..Len(Steps) : Steps[i].key = k]]
GateKeys == {k \in Keys : StepOf[k].kind = "gate"}
FirstBootKeys == {k \in Keys : StepOf[k].phase = "first-boot"}

ASSUME StepsAssumption ==
  /\ Len(Steps) \in Nat \ {0}
  /\ \A i, j \in 1..Len(Steps) : Steps[i].key = Steps[j].key => i = j
  /\ \A i \in 1..Len(Steps) :
       /\ Steps[i].kind \in {"mutation", "gate"} /\ Steps[i].phase \in {"bake", "first-boot"}
       /\ Steps[i].group # "" => Steps[i].kind = "mutation" /\ Steps[i].phase = "bake"
  /\ Identity \in FirstBootKeys \ GateKeys

(* What a body uses was left by an earlier step: on the host, or in the    *)
(* process by a gate or by its own pipeline.  What a bake needs comes from *)
(* a bake, but for the admin user.  The root login is closed by a step of  *)
(* the first boot, after the identity step.                                *)
Providers(i, fact) ==
  {j \in 1..i - 1 :
     \/ fact \in Steps[j].body.makes
     \/ /\ fact \in Steps[j].body.own
        /\ \/ Steps[j].kind = "gate"
           \/ Steps[j].group = Steps[i].group /\ Steps[i].group # ""}
ASSUME BodiesAssumption ==
  \A i \in 1..Len(Steps) :
    /\ \A fact \in Steps[i].body.needs : \E j \in Providers(i, fact) :
         Steps[i].phase = "bake" => Steps[j].phase = "bake" \/ fact = "admin"
    /\ "hardened" \in Steps[i].body.makes =>
         Steps[i].phase = "first-boot" /\ \E j \in 1..i - 1 : Steps[j].key = Identity

ASSUME BoundsAssumption ==
  OperatorInTUI \in BOOLEAN /\ MaxStops \in Nat /\ MaxPowerLosses \in Nat

VARIABLES
  files,     \* the ledger and the marker as the running system sees them
  kept,      \* what a power loss returns to
  made,      \* what the steps have left on the host
  access,    \* whether the admin user has a way in over SSH
  config,    \* /etc/vpn holds the configuration that the TUI needs
  password,  \* the admin user's login password
  pc, run,   \* the running pass
  helper,    \* the root helper's set-user-password; "never" before its first
  stops, losses

storage == <<files, kept>>
host == <<made, access>>
process == <<pc, run, wizard, gate>>
others == <<config, helper, stops, losses>>
vars == <<storage, host, process, password, others>>

Modes == {"interactive", "unattended", "bake"}
Ledgers == [dbcache : BOOLEAN, steps : SUBSET Keys, complete : BOOLEAN]

(* The marker's data reaches the disk after its name or before.            *)
Files == [ledger : Ledgers, marker : {"absent", "dirty", "clean", "torn"}]
KeptFiles == [ledger : Ledgers, marker : {"absent", "clean", "torn"}]

(* Set by the operator, generated and shown, generated by this pass or by  *)
(* an earlier one and shown to nobody.                                     *)
Passwords == {"none", "typed", "shown", "current", "earlier"}

(* The facts that a body needs, and what it leaves to the host and to the  *)
(* process.                                                                *)
Needs(k) == StepOf[k].body.needs
Makes(k) == StepOf[k].body.makes
Own(k) == StepOf[k].body.own
Facts == UNION {Needs(k) \cup Makes(k) \cup Own(k) : k \in Keys}

(* InstallDecisions: the ways in that the identity step will leave.        *)
Runs == [mode : Modes, plan : SUBSET Keys, at : 1..Len(Steps), own : SUBSET Facts,
         wayIn : BOOLEAN, generated : BOOLEAN, applied : BOOLEAN]
NoRun == [mode |-> "interactive", plan |-> {}, at |-> 1, own |-> {},
          wayIn |-> FALSE, generated |-> FALSE, applied |-> FALSE]

Initial == [dbcache |-> FALSE, steps |-> {}, complete |-> FALSE]
Init ==
  /\ files = [ledger |-> Initial, marker |-> "absent"] /\ kept = files
  /\ made = {} /\ access = "none"
  /\ config = FALSE /\ password = "none"
  /\ pc = "idle" /\ run = NoRun /\ wizard = ClosedWizard /\ gate = Closed
  /\ helper = "never" /\ stops = 0 /\ losses = 0

-------------------------------------------------------------------------------
(* The ledger's steps.                                                     *)
Prefix(n) == {BaseSteps[i] : i \in 1..n}

(* What validInstallProgressSubset accepts: a full installation that came  *)
(* so far and a bake that came so far.                                     *)
ValidInstallProgress ==
  {Prefix(full) \cup (Prefix(bake) \ FirstBootKeys) : full, bake \in 0..Len(Steps)}

(* validateLedger                                                          *)
ValidLedger(l) ==
  /\ l.steps # {} => l.dbcache
  /\ l.steps \in ValidInstallProgress
  /\ l.complete => l.steps = Keys

(* allBaseStepsDone                                                        *)
AllBaseStepsDone == files.ledger.steps = Keys

(* The last members of the groups, and whether a key's group has its own.  *)
GroupOf(k) == StepOf[k].group
Terminals ==
  {k \in Keys :
     \E i \in 1..Len(Steps) :
       /\ BaseSteps[i] = k
       /\ \A j \in i + 1..Len(Steps) : Steps[j].group # Steps[i].group}
TerminalDone(k, done) == \E last \in Terminals \cap done : GroupOf(last) = GroupOf(k)

(* planRun of the steps of a mode.                                         *)
Selected(mode) == IF mode = "bake" THEN Keys \ FirstBootKeys ELSE Keys

(* Mutant: a pipeline resumes midway.                                      *)
PlanRunByStep(mode, done) == {k \in Selected(mode) : k \in GateKeys \/ k \notin done}

PlanRun(mode, done) ==
  {k \in Selected(mode) :
     \/ k \in GateKeys
     \/ GroupOf(k) # "" /\ ~TerminalDone(k, done)
     \/ GroupOf(k) = "" /\ k \notin done}

-------------------------------------------------------------------------------
Pending == files.marker # "absent"

(* The first step that a plan runs at or after an index; the steps in      *)
(* between are skipped, which changes nothing.                             *)
RunsNext(plan, i) ==
  {j \in i..Len(Steps) :
     BaseSteps[j] \in plan /\ \A skipped \in i..j - 1 : BaseSteps[skipped] \notin plan}

(* newWizardModel's question of what is planned.                           *)
WillRun(key) == key \in PlanRun("interactive", files.ledger.steps)

StartPass(mode, wayIn) ==
  /\ LET plan == PlanRun(mode, files.ledger.steps)
     IN \E at \in IF AllBaseStepsDone THEN {1} ELSE RunsNext(plan, 1) :
          run' = [NoRun EXCEPT
                    !.mode = mode, !.plan = plan, !.wayIn = wayIn, !.at = at,
                    !.generated = mode # "interactive" /\ (AllBaseStepsDone => Pending)]
  /\ UNCHANGED <<storage, host, gate, password, others>>

(* fillUnattendedDecisions refuses what leaves no way in.                  *)
FillUnattendedDecisions(wayIn) ==
  \E found \in EnumerateKeySources, passwordAuth, allowConsoleOnly \in BOOLEAN :
    /\ ~StrandsBox(found, passwordAuth, allowConsoleOnly)
    /\ wayIn = (found # {} \/ passwordAuth \/ allowConsoleOnly)

FirstCall == IF files.ledger.dbcache THEN "step" ELSE "dbcache"

(* RunInstall up to the first step, unattended: Lifecycle says what it     *)
(* recognises, and a marker without its content is refused.                *)
BeginUnattended ==
  /\ pc = "idle" /\ files.marker # "torn" /\ ~files.ledger.complete
  /\ \E wayIn \in BOOLEAN :
       /\ AllBaseStepsDone \/ FillUnattendedDecisions(wayIn)
       /\ StartPass("unattended", wayIn)
  /\ pc' = IF AllBaseStepsDone THEN "prepare" ELSE FirstCall
  /\ UNCHANGED wizard

BeginBake ==
  /\ pc = "idle" /\ files.marker # "torn" /\ ~files.ledger.complete /\ ~AllBaseStepsDone
  /\ \E wayIn \in BOOLEAN : FillUnattendedDecisions(wayIn) /\ StartPass("bake", wayIn)
  /\ pc' = FirstCall
  /\ UNCHANGED wizard

(* The wizard asks for what is still planned; an owed password is refused. *)
BeginInteractive ==
  /\ pc = "idle" /\ ~Pending /\ ~files.ledger.complete
  /\ IF AllBaseStepsDone \/ ~(WillRun(Identity) \/ ~files.ledger.dbcache)
     THEN /\ pc' = IF AllBaseStepsDone THEN "prepare" ELSE "step"
          /\ UNCHANGED wizard
     ELSE /\ pc' = "wizard"
          /\ \E found \in EnumerateKeySources, passwordAuth \in BOOLEAN :
               wizard' = NewWizard(WillRun(Identity), ~files.ledger.dbcache,
                                   found, passwordAuth)
  /\ StartPass("interactive", FALSE)

(* A completed installation, a marker without its content, or a failed     *)
(* preflight check: nothing is changed.                                    *)
Refuse ==
  pc = "idle" /\ UNCHANGED vars

-------------------------------------------------------------------------------
(* The wizard's pages, ctrl+c on any of them, and the start of the steps.  *)
Decide ==
  /\ pc = "wizard" /\ Deciding
  /\ UNCHANGED <<storage, host, pc, run, gate, password, others>>

QuitWizard ==
  /\ pc = "wizard" /\ pc' = "idle" /\ wizard' = ClosedWizard /\ run' = NoRun
  /\ UNCHANGED <<storage, host, gate, password, others>>

StartInstall ==
  /\ pc = "wizard" /\ Decided
  /\ run' = [run EXCEPT !.wayIn = wizard.keys # {} \/ wizard.passwordAuth]
  /\ IF wizard.needHardware THEN pc' = "dbcache" /\ UNCHANGED wizard
     ELSE pc' = "step" /\ wizard' = ClosedWizard
  /\ UNCHANGED <<storage, host, gate, password, others>>

(* save up to its rename, and its fsync of the directory.                  *)
Rename(ledger) == files' = [files EXCEPT !.ledger = ledger] /\ UNCHANGED kept
DirectorySync ==
  /\ \E m \in CASE files.marker = "dirty" -> {"torn", "clean"}
                [] OTHER -> {files.marker} :
       kept' = [ledger |-> files.ledger, marker |-> m]
  /\ UNCHANGED files

PersistDbCache ==
  /\ \/ pc = "dbcache" /\ pc' = "dbcache.sync" /\ UNCHANGED wizard
        /\ Rename([files.ledger EXCEPT !.dbcache = TRUE])
     \/ pc = "dbcache.sync" /\ pc' = "step" /\ wizard' = ClosedWizard /\ DirectorySync
  /\ UNCHANGED <<host, run, gate, password, others>>

(* "Could not record this install decision": the hardware page stays.      *)
PersistDbCacheFails ==
  /\ pc \in {"dbcache", "dbcache.sync"} /\ run.mode = "interactive"
  /\ stops < MaxStops /\ stops' = stops + 1
  /\ pc' = "wizard"
  /\ UNCHANGED <<storage, host, run, wizard, gate, password, config, helper, losses>>

-------------------------------------------------------------------------------
(* runIndex, and the loops of RunInstallUnattended and updateSteps.        *)
Key == BaseSteps[run.at]

(* On to the next planned step; a bake ends with its last step.            *)
Advance ==
  \/ \E at \in RunsNext(run.plan, run.at + 1) :
       pc' = "step" /\ run' = [run EXCEPT !.at = at]
  \/ /\ RunsNext(run.plan, run.at + 1) = {}
     /\ IF run.mode = "bake" THEN pc' = "idle" /\ run' = NoRun
        ELSE pc' = "prepare" /\ UNCHANGED run

(* A planned step finds what it uses on the host or in its own process.    *)
FindsItsNeeds == Needs(Key) \subseteq made \cup run.own

(* Mutant: a step's error is passed over.                                  *)
FnSkippingErrors ==
  /\ pc = "step"
  /\ \/ Key \notin GateKeys /\ Advance /\ UNCHANGED <<made, gate>>
     \/ /\ FindsItsNeeds /\ made' = made \cup Makes(Key)
        /\ IF Key = Identity THEN pc' = "identity.password" /\ UNCHANGED <<run, gate>>
           ELSE IF "routing" \in Own(Key) THEN pc' = "gate" /\ GateOpens /\ UNCHANGED run
           ELSE /\ pc' = "record" /\ run' = [run EXCEPT !.own = @ \cup Own(Key)]
                /\ UNCHANGED gate
  /\ UNCHANGED <<storage, access, wizard, password, others>>

(* The step's function.  The identity step and the Tor gate have calls of  *)
(* their own to make before they are done.                                 *)
Fn ==
  /\ pc = "step" /\ FindsItsNeeds
  /\ made' = made \cup Makes(Key)
  /\ IF Key = Identity THEN pc' = "identity.password" /\ UNCHANGED <<run, gate>>
     ELSE IF "routing" \in Own(Key) THEN pc' = "gate" /\ GateOpens /\ UNCHANGED run
     ELSE /\ pc' = "record" /\ run' = [run EXCEPT !.own = @ \cup Own(Key)]
          /\ UNCHANGED gate
  /\ UNCHANGED <<storage, access, wizard, password, others>>

(* A body that does not find what it uses fails, and the pass with it.     *)
Forgotten == IF password = "current" THEN "earlier" ELSE password
EndPass ==
  /\ pc' = "idle" /\ run' = NoRun /\ wizard' = ClosedWizard /\ gate' = Closed
  /\ password' = Forgotten

FnFails ==
  /\ pc = "step" /\ ~FindsItsNeeds /\ EndPass
  /\ UNCHANGED <<storage, host, others>>

(* verifyTorRouting                                                        *)
VerifyTorRouting ==
  /\ pc = "gate"
  /\ \/ GateWaits /\ UNCHANGED <<pc, run>>
     \/ GatePasses /\ pc' = "record" /\ run' = [run EXCEPT !.own = @ \cup Own(Key)]
  /\ UNCHANGED <<storage, host, wizard, password, others>>

GateFailed == pc = "gate" /\ GateFails /\ EndPass /\ UNCHANGED <<storage, host, others>>

(* markDone and save.                                                      *)
RecordStep ==
  /\ \/ pc = "record" /\ pc' = "record.sync" /\ UNCHANGED run
        /\ Rename([files.ledger EXCEPT !.steps = @ \cup {Key}])
     \/ pc = "record.sync" /\ Advance /\ DirectorySync
  /\ UNCHANGED <<host, wizard, gate, password, others>>

(* Mutant: the marker is left to a later step.                             *)
ApplyIdentityAccessUnmarked ==
  /\ pc = "identity.password" /\ pc' = "record"
  /\ password' = IF run.generated THEN "current" ELSE "typed"
  /\ access' = IF run.wayIn THEN "open" ELSE IF access = "open" THEN "open" ELSE "barred"
  /\ run' = [run EXCEPT !.applied = TRUE]
  /\ UNCHANGED <<files, kept, made, wizard, gate, others>>

(* applyIdentityAccess: the keys of the pass that has any, the password,   *)
(* then the marker of a generated one.                                     *)
ApplyIdentityAccess ==
  /\ \/ /\ pc = "identity.password"
        /\ password' = IF run.generated THEN "current" ELSE "typed"
        /\ access' = IF run.wayIn \/ access = "open" THEN "open" ELSE "barred"
        /\ pc' = IF run.generated THEN "identity.mark" ELSE "record"
        /\ run' = [run EXCEPT !.applied = TRUE]
        /\ UNCHANGED files
     \/ /\ pc = "identity.mark" /\ pc' = "record"
        /\ files' = [files EXCEPT !.marker = "dirty"]
        /\ UNCHANGED <<access, password, run>>
  /\ UNCHANGED <<kept, made, wizard, gate, others>>

-------------------------------------------------------------------------------
(* prepareInstallCompletion; a pass that applied no password of its own    *)
(* asks whether one is owed.                                               *)
Prepare ==
  /\ pc = "prepare" /\ AllBaseStepsDone /\ config' = TRUE
  /\ pc' = IF run.mode = "interactive" THEN "publish" ELSE "reapply"
  /\ UNCHANGED <<storage, host, run, wizard, gate, password, helper, stops, losses>>

(* Mutant: whatever was generated is printed.                              *)
ReapplyOrPrint ==
  /\ \/ /\ pc = "reapply"
        /\ pc' = IF run.generated /\ ~run.applied /\ Pending THEN "reapply.set"
                 ELSE IF run.generated THEN "print" ELSE "publish"
        /\ UNCHANGED <<password, run>>
     \/ /\ pc = "reapply.set" /\ pc' = "print"
        /\ password' = "current" /\ run' = [run EXCEPT !.applied = TRUE]
  /\ UNCHANGED <<storage, host, wizard, gate, others>>

(* needsPasswordReapply and the re-application.                            *)
Reapply ==
  /\ \/ /\ pc = "reapply"
        /\ pc' = IF run.generated /\ ~run.applied /\ Pending THEN "reapply.set"
                 ELSE IF run.generated /\ run.applied THEN "print" ELSE "publish"
        /\ UNCHANGED <<password, run>>
     \/ /\ pc = "reapply.set" /\ pc' = "print"
        /\ password' = "current" /\ run' = [run EXCEPT !.applied = TRUE]
  /\ UNCHANGED <<storage, host, wizard, gate, others>>

(* printGeneratedPassword: what is printed is this pass's password.        *)
PrintGeneratedPassword ==
  /\ pc = "print" /\ pc' = "clear"
  /\ password' = IF password = "current" THEN "shown" ELSE password
  /\ UNCHANGED <<storage, host, run, wizard, gate, others>>

(* clearPasswordPendingMarkerStrict                                        *)
ClearPasswordPendingMarkerStrict ==
  /\ pc = "clear" /\ pc' = "publish"
  /\ files' = [files EXCEPT !.marker = "absent"]
  /\ UNCHANGED <<kept, host, run, wizard, gate, password, others>>

(* Mutant: the terminal ledger goes before the delivery.                   *)
PublishTerminalLedgerFirst ==
  /\ \/ pc \in {"print", "publish"} /\ AllBaseStepsDone /\ pc' = "publish.sync"
        /\ Rename([files.ledger EXCEPT !.complete = TRUE]) /\ UNCHANGED run
     \/ pc = "publish.sync" /\ pc' = "idle" /\ run' = NoRun /\ DirectorySync
  /\ UNCHANGED <<host, wizard, gate, password, others>>

(* publishTerminalLedger                                                   *)
PublishTerminalLedger ==
  /\ \/ pc = "publish" /\ ~Pending /\ AllBaseStepsDone /\ pc' = "publish.sync"
        /\ Rename([files.ledger EXCEPT !.complete = TRUE]) /\ UNCHANGED run
     \/ pc = "publish.sync" /\ pc' = "idle" /\ run' = NoRun /\ DirectorySync
  /\ UNCHANGED <<host, wizard, gate, password, others>>

PassStep ==
  \/ PersistDbCache \/ Fn \/ FnFails \/ VerifyTorRouting \/ GateFailed
  \/ RecordStep \/ ApplyIdentityAccess
  \/ Prepare \/ Reapply \/ PrintGeneratedPassword
  \/ ClearPasswordPendingMarkerStrict \/ PublishTerminalLedger

-------------------------------------------------------------------------------
(* verbSetUserPassword: the operator's choice, then the best-effort        *)
(* removal of the marker.                                                  *)
SetUserPassword ==
  /\ OperatorInTUI /\ config /\ helper # "clear" /\ helper' = "clear"
  /\ password' = "typed"
  /\ UNCHANGED <<storage, host, process, config, stops, losses>>

ClearPasswordPendingMarker ==
  /\ helper = "clear" /\ helper' = "idle"
  /\ \/ files' = [files EXCEPT !.marker = "absent"]
     \/ UNCHANGED files
  /\ UNCHANGED <<kept, host, process, password, config, stops, losses>>

-------------------------------------------------------------------------------
(* A step or a save fails, or the process dies; what a step was making may *)
(* be there or not.                                                        *)
Partly ==
  IF pc = "step" /\ FindsItsNeeds THEN SUBSET Makes(Key) ELSE {{}}

Stop ==
  /\ pc # "idle" /\ stops < MaxStops /\ stops' = stops + 1
  /\ \E some \in Partly : made' = made \cup some
  /\ EndPass
  /\ UNCHANGED <<storage, access, config, helper, losses>>

(* The kernel writes the directory or the marker's data back.              *)
Writeback ==
  /\ \/ DirectorySync
     \/ /\ files.marker = "dirty"
        /\ files' = [files EXCEPT !.marker = "clean"]
        /\ kept' = [kept EXCEPT !.marker = IF @ = "torn" THEN "clean" ELSE @]
  /\ UNCHANGED <<host, process, password, others>>

(* What the steps made before the ledger's last fsync stays.               *)
PowerLoss ==
  /\ losses < MaxPowerLosses /\ losses' = losses + 1
  /\ files' = kept /\ EndPass
  /\ helper' = IF helper = "clear" THEN "idle" ELSE helper
  /\ UNCHANGED <<kept, host, config, stops>>

Next ==
  \/ BeginUnattended \/ BeginBake \/ BeginInteractive
  \/ Refuse \/ Decide \/ QuitWizard \/ StartInstall \/ PassStep
  \/ PersistDbCacheFails
  \/ SetUserPassword \/ ClearPasswordPendingMarker
  \/ Stop \/ Writeback \/ PowerLoss

Spec == Init /\ [][Next]_vars
-------------------------------------------------------------------------------
Labels == {"idle", "wizard", "dbcache", "dbcache.sync", "step", "gate", "record",
           "record.sync", "identity.password", "identity.mark", "prepare", "reapply",
           "reapply.set", "print", "clear", "publish", "publish.sync"}
TypeOK ==
  /\ files \in Files /\ kept \in KeptFiles
  /\ made \subseteq Facts /\ access \in {"none", "barred", "open"}
  /\ config \in BOOLEAN /\ password \in Passwords
  /\ pc \in Labels /\ run \in Runs /\ wizard \in Wizards /\ gate \in GateStates
  /\ helper \in {"never", "idle", "clear"}
  /\ stops \in 0..MaxStops /\ losses \in 0..MaxPowerLosses

(* Every ledger that is or may become visible is one that the next run     *)
(* accepts as its own (validateLedger), whatever passes of whatever modes  *)
(* were stopped where.                                                     *)
LedgerIsValid == ValidLedger(files.ledger) /\ ValidLedger(kept.ledger)

(* Whatever passes came before and wherever they ended, a step that is     *)
(* planned finds what it uses: the Tor routing that this process verified  *)
(* (planRun: "no download step can execute in a pass whose Tor routing     *)
(* was not verified in that same pass"), the working directory of its      *)
(* pipeline ("a resumed process can never re-enter a pipeline midway"),    *)
(* the users, packages and files that a recorded step left.                *)
StepsFindTheirNeeds == pc = "step" => FindsItsNeeds

(* So it is for all but one step of an image build, which runs before the  *)
(* admin user exists.                                                      *)
DeployedStepsFindTheirNeeds ==
  pc = "step" => \/ FindsItsNeeds
                 \/ run.mode = "bake" /\ Needs(Key) \ (made \cup run.own) = {"admin"}

(* The root login is closed only behind a way in for the admin user: keys, *)
(* a password login that was seen enabled, or none because it was asked    *)
(* for by name (updateAccess: "the user would have no way in over SSH";    *)
(* --allow-console-only "must be asked for by name").                      *)
HardenedBehindAWayIn == "hardened" \in made => access = "open"

(* A completed ledger and a pending password delivery never meet, not even *)
(* after a power loss (classifyLifecycleState refuses the pair).           *)
CompletedIsDelivered ==
  /\ files.ledger.complete => ~Pending
  /\ kept.ledger.complete => kept.marker = "absent"

(* A password that nobody has seen is never forgotten: the identity step   *)
(* runs again or the marker says so (markPasswordPending: "this marker is  *)
(* what guarantees the credential can still reach the operator if the run  *)
(* dies before the print").  The exception is a password that was set      *)
(* through the helper while a pass was ending.                             *)
UnseenIsPending ==
  helper = "never" /\ password = "earlier" /\ Identity \in files.ledger.steps => Pending

(* Nor does the installer then print a password that does not work         *)
(* (printGeneratedPassword).                                               *)
PrintedWorks == pc = "print" /\ helper = "never" => password = "current"

-------------------------------------------------------------------------------
(* A pass that does not stop goes on, and an operator does not stay in the *)
(* wizard forever.  Other modes may be tried, but not forever, and then an *)
(* unattended pass is started again.                                       *)
Fairness ==
  WF_vars(PassStep) /\ WF_vars(QuitWizard) /\ SF_vars(BeginUnattended)
FairSpec == Spec /\ Fairness

(* Stopped passes of any mode only delay the installation, which ends with *)
(* a password that somebody knows (RunInstall), unless the gate gives up   *)
(* on Tor again and again; a marker that a power loss left without its     *)
(* content is refused and is the exception.                                *)
CompletesKnown ==
  \/ []<><<GateFailed>>_vars
  \/ <>[](\/ files.marker = "torn"
          \/ files.ledger.complete /\ (helper = "never" => password \in {"typed", "shown"}))
===============================================================================
