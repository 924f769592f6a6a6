--------------------------- MODULE InstallerProofs ---------------------------
(***************************************************************************)
(* Proofs about Installer for every list of base steps that meets its      *)
(* assumptions, any number of stops and power losses, any keys and any     *)
(* bounds of the Tor gate: the types, and the six safety invariants, from  *)
(* one inductive invariant.                                                *)
(***************************************************************************)
EXTENDS Installer, TLAPS

-------------------------------------------------------------------------------
(* The list of steps.                                                      *)
Count == Len(Steps)
Indexes == 1..Count

LEMMA IndexFacts ==
  /\ Count \in Nat \ {0}
  /\ \A i \in Indexes : i \in Nat \ {0} /\ i <= Count /\ i \in 0..Count /\ i - 1 \in 0..Count
  /\ \A n \in 0..Count : n \in Nat /\ n <= Count
<1>1. Count \in Nat \ {0} BY StepsAssumption DEF Count
<1> QED BY <1>1 DEF Indexes

(* A key is the key of one step.                                           *)
LEMMA KeysOfSteps ==
  /\ Count \in Nat \ {0}
  /\ \A i \in Indexes :
       /\ BaseSteps[i] = Steps[i].key /\ BaseSteps[i] \in Keys
       /\ StepOf[BaseSteps[i]] = Steps[i]
  /\ \A i, j \in Indexes : BaseSteps[i] = BaseSteps[j] => i = j
  /\ \A k \in Keys : \E i \in Indexes : BaseSteps[i] = k
<1>1. Count \in Nat \ {0} BY StepsAssumption DEF Count
<1>2. \A i \in Indexes : BaseSteps[i] = Steps[i].key BY DEF BaseSteps, Indexes, Count
<1>3. Keys = {BaseSteps[i] : i \in Indexes} BY DEF Keys, Indexes, Count
<1>4. \A i, j \in Indexes : BaseSteps[i] = BaseSteps[j] => i = j
  BY <1>2, StepsAssumption DEF Indexes, Count
<1>5. ASSUME NEW i \in Indexes PROVE StepOf[BaseSteps[i]] = Steps[i]
  <2>1. StepOf[BaseSteps[i]] =
          Steps[CHOOSE j \in Indexes : Steps[j].key = BaseSteps[i]]
    BY <1>3 DEF StepOf, Indexes, Count
  <2>2. (CHOOSE j \in Indexes : Steps[j].key = BaseSteps[i]) = i
    BY <1>2, <1>4
  <2> QED BY <2>1, <2>2
<1> QED BY <1>1, <1>2, <1>3, <1>4, <1>5

(* What a key says of its step.                                            *)
LEMMA StepFacts ==
  ASSUME NEW i \in Indexes
  PROVE  /\ BaseSteps[i] \in GateKeys <=> Steps[i].kind = "gate"
         /\ BaseSteps[i] \in FirstBootKeys <=> Steps[i].phase = "first-boot"
         /\ GroupOf(BaseSteps[i]) = Steps[i].group
         /\ Needs(BaseSteps[i]) = Steps[i].body.needs
         /\ Makes(BaseSteps[i]) = Steps[i].body.makes
         /\ Own(BaseSteps[i]) = Steps[i].body.own
BY KeysOfSteps DEF GateKeys, FirstBootKeys, GroupOf, Needs, Makes, Own

(* A pipeline consists of steps of the bake that may be trusted.           *)
LEMMA GroupsBake ==
  ASSUME NEW k \in Keys, GroupOf(k) # ""
  PROVE  k \notin GateKeys /\ k \notin FirstBootKeys
<1>1. PICK i \in Indexes : BaseSteps[i] = k BY KeysOfSteps
<1>2. Steps[i].kind = "mutation" /\ Steps[i].phase = "bake"
  BY <1>1, StepFacts, StepsAssumption DEF Indexes, Count
<1> QED BY <1>1, <1>2, StepFacts

LEMMA IdentityFacts ==
  /\ Identity \in Keys /\ Identity \in FirstBootKeys
  /\ Identity \notin GateKeys /\ GroupOf(Identity) = ""
BY StepsAssumption, GroupsBake DEF FirstBootKeys

(* The prefixes of the list.                                               *)
LEMMA Prefixes ==
  /\ Prefix(0) = {} /\ Prefix(Count) = Keys
  /\ \A i \in Indexes : \A n \in 0..Count : BaseSteps[i] \in Prefix(n) <=> i <= n
  /\ \A i \in Indexes : Prefix(i) = Prefix(i - 1) \cup {BaseSteps[i]}
  /\ \A m, n \in 0..Count : m <= n => Prefix(m) \subseteq Prefix(n)
  /\ \A n \in 0..Count : Prefix(n) \subseteq Keys
<1>1. Count \in Nat \ {0} BY StepsAssumption DEF Count
<1>2. Prefix(0) = {} BY DEF Prefix
<1>3. Prefix(Count) = Keys BY DEF Prefix, Keys, Count
<1>4. ASSUME NEW i \in Indexes, NEW n \in 0..Count
      PROVE  BaseSteps[i] \in Prefix(n) <=> i <= n
  <2>1. ASSUME BaseSteps[i] \in Prefix(n) PROVE i <= n
    <3>1. PICK j \in 1..n : BaseSteps[i] = BaseSteps[j] BY <2>1 DEF Prefix
    <3>2. j \in Indexes /\ j <= n BY <1>1 DEF Indexes
    <3> QED BY <3>1, <3>2, KeysOfSteps
  <2>2. ASSUME i <= n PROVE BaseSteps[i] \in Prefix(n)
    <3>1. i \in 1..n BY <2>2, <1>1 DEF Indexes
    <3> QED BY <3>1 DEF Prefix
  <2> QED BY <2>1, <2>2
<1>5. ASSUME NEW i \in Indexes PROVE Prefix(i) = Prefix(i - 1) \cup {BaseSteps[i]}
  <2>1. 1..i = (1..i - 1) \cup {i} BY <1>1 DEF Indexes
  <2> QED BY <2>1 DEF Prefix
<1>6. ASSUME NEW m \in 0..Count, NEW n \in 0..Count, m <= n
      PROVE  Prefix(m) \subseteq Prefix(n)
  <2>1. 1..m \subseteq 1..n BY <1>1, <1>6
  <2> QED BY <2>1 DEF Prefix
<1>7. ASSUME NEW n \in 0..Count PROVE Prefix(n) \subseteq Keys
  <2>1. n <= Count /\ Count \in 0..Count BY <1>1
  <2> QED BY <2>1, <1>3, <1>6
<1> QED BY <1>2, <1>3, <1>4, <1>5, <1>6, <1>7

-------------------------------------------------------------------------------
(* The progress that the next run accepts.                                 *)

LEMMA NothingIsValid == {} \in ValidInstallProgress
<1>1. 0 \in 0..Count BY KeysOfSteps
<1>2. {} = Prefix(0) \cup (Prefix(0) \ FirstBootKeys) BY Prefixes
<1> QED BY <1>1, <1>2 DEF ValidInstallProgress, Count

LEMMA ValidIsKeys ==
  ASSUME NEW S \in ValidInstallProgress
  PROVE  S \subseteq Keys
<1>1. PICK full, bake \in 0..Count :
        S = Prefix(full) \cup (Prefix(bake) \ FirstBootKeys)
  BY DEF ValidInstallProgress, Count
<1> QED BY <1>1, Prefixes

(* A step may be recorded when all steps of its mode before it are.        *)
LEMMA ValidGrows ==
  ASSUME NEW S \in ValidInstallProgress, NEW at \in Indexes, NEW mode \in Modes,
         BaseSteps[at] \in Selected(mode),
         Prefix(at - 1) \cap Selected(mode) \subseteq S
  PROVE  S \cup {BaseSteps[at]} \in ValidInstallProgress
<1> DEFINE key == BaseSteps[at]
<1>0. /\ Count \in Nat /\ at \in 0..Count /\ at - 1 \in 0..Count
      /\ at \in Nat /\ at # 0
  BY KeysOfSteps DEF Indexes
<1>1. PICK full, bake \in 0..Count :
        S = Prefix(full) \cup (Prefix(bake) \ FirstBootKeys)
  BY DEF ValidInstallProgress, Count
<1>2. key \in Keys /\ Prefix(at) = Prefix(at - 1) \cup {key} /\ Prefix(at - 1) \subseteq Keys
  BY <1>0, KeysOfSteps, Prefixes
<1>3. full \in Nat /\ bake \in Nat BY <1>0
<1>4. CASE at <= full
  <2>1. key \in S BY <1>0, <1>1, <1>4, Prefixes
  <2>2. S \cup {key} = S BY <2>1
  <2> QED BY <2>2
<1>5. CASE full < at
  <2>1. full <= at - 1 BY <1>0, <1>3, <1>5
  <2>2. Prefix(full) \subseteq Prefix(at - 1) BY <1>0, <2>1, Prefixes
  <2>3. CASE mode # "bake"
    <3>1. Prefix(at - 1) \subseteq S BY <1>2, <2>3 DEF Selected
    <3>2. S \cup {key} = Prefix(at) \cup (Prefix(bake) \ FirstBootKeys)
      BY <1>1, <1>2, <2>2, <3>1
    <3> QED BY <1>0, <3>2 DEF ValidInstallProgress, Count
  <2>4. CASE mode = "bake"
    <3>1. Selected(mode) = Keys \ FirstBootKeys BY <2>4 DEF Selected
    <3>2. key \notin FirstBootKeys /\ Prefix(at - 1) \ FirstBootKeys \subseteq S
      BY <1>2, <3>1
    <3>3. CASE at <= bake
      <4>1. key \in Prefix(bake) BY <1>0, <3>3, Prefixes
      <4>2. S \cup {key} = S BY <1>1, <3>2, <4>1
      <4> QED BY <4>2
    <3>4. CASE bake < at
      <4>1. bake <= at - 1 BY <1>0, <1>3, <3>4
      <4>2. Prefix(bake) \subseteq Prefix(at - 1) BY <1>0, <4>1, Prefixes
      <4>3. S \cup {key} = Prefix(full) \cup (Prefix(at) \ FirstBootKeys)
        BY <1>1, <1>2, <3>2, <4>2
      <4> QED BY <1>0, <4>3 DEF ValidInstallProgress, Count
    <3> QED BY <1>0, <1>3, <3>3, <3>4
  <2> QED BY <2>3, <2>4
<1> QED BY <1>0, <1>3, <1>4, <1>5

(* A group whose last member is recorded is recorded.                      *)
LEMMA GroupIsDone ==
  ASSUME NEW S \in ValidInstallProgress, NEW k \in Keys,
         k \notin FirstBootKeys, TerminalDone(k, S)
  PROVE  k \in S
<1>0. Count \in Nat BY IndexFacts
<1>1. PICK end \in Terminals : end \in S /\ GroupOf(end) = GroupOf(k) BY DEF TerminalDone
<1>2. PICK i \in Indexes :
        /\ BaseSteps[i] = end
        /\ \A j \in i + 1..Count : Steps[j].group # Steps[i].group
  BY DEF Terminals, Indexes, Count
<1>3. PICK j \in Indexes : BaseSteps[j] = k BY KeysOfSteps
<1>4. Steps[j].group = Steps[i].group BY <1>1, <1>2, <1>3, StepFacts
<1>5. i \in Nat /\ j \in Nat /\ j <= Count BY IndexFacts
<1>6. j <= i
  <2>1. j \notin i + 1..Count BY <1>2, <1>4
  <2> QED BY <1>0, <1>5, <2>1
<1>7. PICK full, bake \in 0..Count :
        S = Prefix(full) \cup (Prefix(bake) \ FirstBootKeys)
  BY DEF ValidInstallProgress, Count
<1>8. full \in Nat /\ bake \in Nat BY IndexFacts
<1>9. CASE end \in Prefix(full)
  <2>1. i <= full BY <1>2, <1>9, Prefixes
  <2>2. j <= full BY <1>5, <1>8, <1>6, <2>1
  <2>3. k \in Prefix(full) BY <2>2, <1>3, Prefixes
  <2> QED BY <2>3, <1>7
<1>10. CASE end \in Prefix(bake)
  <2>1. i <= bake BY <1>2, <1>10, Prefixes
  <2>2. j <= bake BY <1>5, <1>8, <1>6, <2>1
  <2>3. k \in Prefix(bake) BY <2>2, <1>3, Prefixes
  <2> QED BY <2>3, <1>7
<1> QED BY <1>1, <1>7, <1>9, <1>10

(* planRun over a ledger that is valid: what it leaves out is recorded, it *)
(* takes all gates and whole groups.                                       *)
LEMMA PlanFacts ==
  ASSUME NEW S \in ValidInstallProgress, NEW mode \in Modes
  PROVE  /\ PlanRun(mode, S) \subseteq Selected(mode) /\ Selected(mode) \subseteq Keys
         /\ Selected(mode) \ PlanRun(mode, S) \subseteq S
         /\ GateKeys \cap Selected(mode) \subseteq PlanRun(mode, S)
         /\ \A k \in PlanRun(mode, S), l \in Keys :
              GroupOf(l) = GroupOf(k) /\ GroupOf(k) # "" => l \in PlanRun(mode, S)
         /\ Identity \in PlanRun(mode, S) => Identity \notin S
<1>1. Selected(mode) \subseteq Keys BY DEF Selected
<1>2. PlanRun(mode, S) \subseteq Selected(mode) BY DEF PlanRun
<1>3. ASSUME NEW k \in Selected(mode) \ PlanRun(mode, S) PROVE k \in S
  <2>1. k \in Keys BY <1>1
  <2>2. CASE GroupOf(k) = "" BY <2>2 DEF PlanRun
  <2>3. CASE GroupOf(k) # "" BY <2>1, <2>3, GroupsBake, GroupIsDone DEF PlanRun
  <2> QED BY <2>2, <2>3
<1>4. GateKeys \cap Selected(mode) \subseteq PlanRun(mode, S) BY DEF PlanRun
<1>5. ASSUME NEW k \in PlanRun(mode, S), NEW l \in Keys,
             GroupOf(l) = GroupOf(k), GroupOf(k) # ""
      PROVE  l \in PlanRun(mode, S)
  <2>1. k \in Keys /\ k \notin GateKeys BY <1>1, <1>2, <1>5, GroupsBake
  <2>2. ~TerminalDone(k, S) BY <2>1, <1>5 DEF PlanRun
  <2>3. ~TerminalDone(l, S) BY <2>2, <1>5 DEF TerminalDone
  <2>4. l \in Selected(mode) BY <1>5, GroupsBake DEF Selected
  <2> QED BY <2>3, <2>4, <1>5 DEF PlanRun
<1>6. Identity \in PlanRun(mode, S) => Identity \notin S BY IdentityFacts DEF PlanRun
<1> QED BY <1>1, <1>2, <1>3, <1>4, <1>5, <1>6

(* The next planned step of a list: nothing in between is planned.         *)
LEMMA NextPlanned ==
  ASSUME NEW plan, NEW i \in 1..Count + 1, NEW at \in RunsNext(plan, i)
  PROVE  /\ at \in Indexes /\ BaseSteps[at] \in plan /\ i <= at
         /\ Prefix(at - 1) \cap plan \subseteq Prefix(i - 1)
<1>0. Count \in Nat /\ i \in Nat /\ i # 0 BY KeysOfSteps
<1>1. /\ at \in i..Count /\ BaseSteps[at] \in plan
      /\ \A skipped \in i..at - 1 : BaseSteps[skipped] \notin plan
  BY DEF RunsNext, Count
<1>2. at \in Indexes /\ i <= at /\ at \in Nat BY <1>0, <1>1 DEF Indexes
<1>3. ASSUME NEW k \in Prefix(at - 1) \cap plan PROVE k \in Prefix(i - 1)
  <2>1. PICK j \in 1..at - 1 : k = BaseSteps[j] BY DEF Prefix
  <2>2. j \notin i..at - 1 BY <1>1, <1>3, <2>1
  <2>3. j \in 1..i - 1 BY <1>0, <1>2, <2>1, <2>2
  <2> QED BY <2>1, <2>3 DEF Prefix
<1> QED BY <1>1, <1>2, <1>3

-------------------------------------------------------------------------------
(* Types.                                                                  *)

LEMMA FirstIndex == 1 \in 1..Len(Steps)
<1>1. 1 \in 1..Count BY IndexFacts
<1> QED BY <1>1 DEF Count

LEMMA NoRunType == NoRun \in Runs
BY FirstIndex DEF NoRun, Runs, Modes

LEMMA RunTypes ==
  ASSUME NEW r \in Runs
  PROVE  /\ r.mode \in Modes /\ r.plan \in SUBSET Keys /\ r.at \in 1..Len(Steps)
         /\ r.at \in Indexes /\ r.own \in SUBSET Facts
         /\ r.wayIn \in BOOLEAN /\ r.generated \in BOOLEAN /\ r.applied \in BOOLEAN
         /\ \A at \in 1..Len(Steps) : [r EXCEPT !.at = at] \in Runs
         /\ \A own \in SUBSET Facts : [r EXCEPT !.own = @ \cup own] \in Runs
         /\ \A wayIn \in BOOLEAN : [r EXCEPT !.wayIn = wayIn] \in Runs
         /\ [r EXCEPT !.applied = TRUE] \in Runs
BY DEF Runs, Indexes, Count

LEMMA LedgerTypes ==
  /\ Initial \in Ledgers
  /\ \A l \in Ledgers :
       /\ l.dbcache \in BOOLEAN /\ l.steps \in SUBSET Keys /\ l.complete \in BOOLEAN
       /\ [l EXCEPT !.dbcache = TRUE] \in Ledgers
       /\ [l EXCEPT !.complete = TRUE] \in Ledgers
       /\ \A k \in Keys : [l EXCEPT !.steps = @ \cup {k}] \in Ledgers
BY DEF Initial, Ledgers

LEMMA FilesTypes ==
  /\ \A f \in Files : f.ledger \in Ledgers /\ f.marker \in {"absent", "dirty", "clean", "torn"}
  /\ \A f \in KeptFiles :
       f \in Files /\ f.ledger \in Ledgers /\ f.marker \in {"absent", "clean", "torn"}
  /\ \A f \in Files : \A l \in Ledgers : [f EXCEPT !.ledger = l] \in Files
  /\ \A f \in Files : \A m \in {"absent", "dirty", "clean"} : [f EXCEPT !.marker = m] \in Files
  /\ \A f \in KeptFiles : [f EXCEPT !.marker = IF @ = "torn" THEN "clean" ELSE @] \in KeptFiles
BY DEF Files, KeptFiles

(* What a step may write at: the key that a run stands at and its facts.   *)
LEMMA KeyTypes ==
  ASSUME run \in Runs
  PROVE  /\ Key \in Keys
         /\ Makes(Key) \subseteq Facts /\ Own(Key) \subseteq Facts
         /\ [run EXCEPT !.own = @ \cup Own(Key)] \in Runs
<1>1. run.at \in Indexes BY RunTypes
<1>2. Key \in Keys BY <1>1, KeysOfSteps DEF Key
<1>3. Makes(Key) \subseteq Facts /\ Own(Key) \subseteq Facts BY <1>2 DEF Facts
<1>4. [run EXCEPT !.own = @ \cup Own(Key)] \in Runs
  <2>1. Own(Key) \in SUBSET Facts BY <1>3
  <2> QED BY <2>1, RunTypes
<1> QED BY <1>2, <1>3, <1>4

LEMMA SyncTypes ==
  ASSUME files \in Files, kept \in KeptFiles, DirectorySync
  PROVE  files' \in Files /\ kept' \in KeptFiles
<1>1. files.ledger \in Ledgers /\ files.marker \in {"absent", "dirty", "clean", "torn"}
  BY FilesTypes
<1>2. PICK m \in IF files.marker = "dirty" THEN {"torn", "clean"} ELSE {files.marker} :
        kept' = [ledger |-> files.ledger, marker |-> m]
  BY DEF DirectorySync
<1>3. m \in {"absent", "clean", "torn"} BY <1>1, <1>2
<1> QED BY <1>1, <1>2, <1>3 DEF DirectorySync, KeptFiles

LEMMA RunNextType ==
  ASSUME NEW plan, NEW i \in 1..Count + 1, NEW at \in RunsNext(plan, i)
  PROVE  at \in 1..Len(Steps)
BY NextPlanned DEF Indexes, Count

LEMMA AdvanceTypes ==
  ASSUME run \in Runs, Advance
  PROVE  run' \in Runs /\ pc' \in {"step", "idle", "prepare"}
<1>1. run.at + 1 \in 1..Count + 1
  <2>1. run.at \in Indexes BY RunTypes
  <2> QED BY <2>1, IndexFacts
<1>2. CASE \E at \in RunsNext(run.plan, run.at + 1) :
             pc' = "step" /\ run' = [run EXCEPT !.at = at]
  <2>1. PICK at \in RunsNext(run.plan, run.at + 1) :
          pc' = "step" /\ run' = [run EXCEPT !.at = at]
    BY <1>2
  <2>2. at \in 1..Len(Steps) BY <1>1, RunNextType
  <2>3. [run EXCEPT !.at = at] \in Runs BY <2>2, RunTypes
  <2> QED BY <2>1, <2>3
<1>3. CASE IF run.mode = "bake" THEN pc' = "idle" /\ run' = NoRun
           ELSE pc' = "prepare" /\ UNCHANGED run
  BY <1>3, NoRunType
<1> QED BY <1>2, <1>3 DEF Advance

LEMMA StartTypes ==
  ASSUME NEW mode \in Modes, NEW wayIn \in BOOLEAN, files \in Files, StartPass(mode, wayIn)
  PROVE  run' \in Runs
<1> DEFINE plan == PlanRun(mode, files.ledger.steps)
<1>1. plan \subseteq Keys BY DEF PlanRun, Selected
<1>2. PICK at \in IF AllBaseStepsDone THEN {1} ELSE RunsNext(plan, 1) :
        run' = [NoRun EXCEPT
                  !.mode = mode, !.plan = plan, !.wayIn = wayIn, !.at = at,
                  !.generated = mode # "interactive" /\ (AllBaseStepsDone => Pending)]
  BY DEF StartPass
<1>3. at \in 1..Len(Steps)
  <2>1. 1 \in 1..Count + 1 BY IndexFacts
  <2> QED BY <1>2, <2>1, FirstIndex, RunNextType
<1> HIDE DEF plan
<1> QED BY <1>1, <1>2, <1>3 DEF NoRun, Runs, Modes

LEMMA GateTypes ==
  ASSUME gate \in GateStates
  PROVE  /\ Closed \in GateStates
         /\ GateOpens \/ GateWaits \/ GatePasses \/ GateFails => gate' \in GateStates
<1>1. /\ Full \in Nat \ {0} /\ StallWindow \in Nat \ {0} /\ Ceiling \in Nat \ {0}
      /\ ProbeAttempts \in Nat \ {0}
  BY GateAssumption
<1>2. Closed \in GateStates /\ [Closed EXCEPT !.at = "bootstrap"] \in GateStates
      /\ [Closed EXCEPT !.at = "probe"] \in GateStates
  BY <1>1 DEF Closed, GateStates, NoAnswer
<1>3. /\ gate.at \in {"closed", "bootstrap", "probe"} /\ gate.progress \in NoAnswer..Full - 1
      /\ gate.stalled \in 0..StallWindow /\ gate.elapsed \in 0..Ceiling
      /\ gate.probes \in 0..ProbeAttempts - 1
  BY DEF GateStates
<1>4. ASSUME NEW answer \in Answers, WaitForBootstrap(answer) PROVE gate' \in GateStates
  <2>1. StalledAfter(answer) \in 0..StallWindow /\ StalledAfter(answer) < StallWindow
    BY <1>1, <1>3, <1>4 DEF StalledAfter, WaitForBootstrap, KeepWaiting
  <2>2. StalledAfter(answer) + 1 \in 0..StallWindow BY <1>1, <2>1
  <2>3. (IF answer = NoAnswer THEN gate.progress ELSE answer) \in NoAnswer..Full - 1
    BY <1>1, <1>3, <1>4 DEF WaitForBootstrap, Answers, NoAnswer
  <2>4. (IF gate.elapsed < Ceiling THEN gate.elapsed + 1 ELSE gate.elapsed) \in 0..Ceiling
    BY <1>1, <1>3
  <2> QED BY <1>4, <2>2, <2>3, <2>4 DEF WaitForBootstrap, GateStates
<1>5. ASSUME Probe("unreachable") PROVE gate' \in GateStates
  <2>1. gate.probes + 1 \in 0..ProbeAttempts - 1 BY <1>1, <1>3, <1>5 DEF Probe
  <2> QED BY <1>5, <2>1 DEF Probe, GateStates
<1> QED BY <1>2, <1>4, <1>5 DEF GateOpens, GateWaits, Bootstrapped, GatePasses, GateFails

LEMMA WizardTypes ==
  ASSUME wizard \in Wizards
  PROVE  /\ ClosedWizard \in Wizards
         /\ \A needIdentity, needHardware, passwordAuth \in BOOLEAN, found \in SUBSET SSHKeys :
              NewWizard(needIdentity, needHardware, found, passwordAuth) \in Wizards
         /\ Deciding => wizard' \in Wizards
<1>1. ClosedWizard \in Wizards BY DEF ClosedWizard, Wizards, Pages
<1>2. ASSUME NEW needIdentity \in BOOLEAN, NEW needHardware \in BOOLEAN,
             NEW passwordAuth \in BOOLEAN, NEW found \in SUBSET SSHKeys
      PROVE  NewWizard(needIdentity, needHardware, found, passwordAuth) \in Wizards
  BY DEF NewWizard, Wizards, Pages
<1>3. ASSUME NEW k \in SSHKeys, ToggleKey(k) \/ AddKey(k) PROVE wizard' \in Wizards
  <2>1. wizard.offered \in SUBSET SSHKeys /\ wizard.selected \in SUBSET SSHKeys
    BY DEF Wizards
  <2>2. (IF k \in wizard.selected THEN wizard.selected \ {k} ELSE wizard.selected \cup {k})
          \in SUBSET SSHKeys
    BY <2>1
  <2>3. CASE ToggleKey(k) BY <2>2, <2>3 DEF ToggleKey, Wizards
  <2>4. CASE AddKey(k)
    <3>1. wizard.offered \cup {k} \in SUBSET SSHKeys /\ wizard.selected \cup {k} \in SUBSET SSHKeys
      BY <2>1
    <3> QED BY <2>4, <3>1 DEF AddKey, Wizards, Pages
  <2> QED BY <1>3, <2>3, <2>4
<1>4. ASSUME PasteAKey \/ Continue \/ PasteBack \/ PasswordBack \/ PasswordContinue \/ HardwareBack
      PROVE  wizard' \in Wizards
  BY <1>4 DEF PasteAKey, Continue, PasteBack, PasswordBack, PasswordContinue, HardwareBack,
     Wizards, Pages
<1> QED BY <1>1, <1>2, <1>3, <1>4 DEF Deciding

(* A pass that ends, wherever.                                             *)
LEMMA EndTypes ==
  ASSUME TypeOK, EndPass
  PROVE  /\ pc' \in Labels /\ run' \in Runs /\ wizard' \in Wizards /\ gate' \in GateStates
         /\ password' \in Passwords
BY NoRunType, WizardTypes, GateTypes
   DEF TypeOK, EndPass, Forgotten, Passwords, Labels

LEMMA TypeStep ==
  ASSUME TypeOK, [Next]_vars
  PROVE  TypeOK'
<1> USE DEF TypeOK
<1>0. /\ files \in Files /\ kept \in KeptFiles /\ made \subseteq Facts
      /\ access \in {"none", "barred", "open"} /\ config \in BOOLEAN
      /\ password \in Passwords /\ pc \in Labels /\ run \in Runs
      /\ wizard \in Wizards /\ gate \in GateStates /\ helper \in {"never", "idle", "clear"}
      /\ stops \in 0..MaxStops /\ losses \in 0..MaxPowerLosses
      /\ MaxStops \in Nat /\ MaxPowerLosses \in Nat
  BY BoundsAssumption
<1> USE DEF storage, host, process, others, vars
<1>1. CASE BeginUnattended
  <2>1. PICK wayIn \in BOOLEAN : StartPass("unattended", wayIn) BY <1>1 DEF BeginUnattended
  <2>2. run' \in Runs BY <2>1, StartTypes DEF Modes
  <2>3. pc' \in Labels BY <1>1 DEF BeginUnattended, FirstCall, Labels
  <2> QED BY <1>0, <1>1, <2>1, <2>2, <2>3 DEF BeginUnattended, StartPass
<1>2. CASE BeginBake
  <2>1. PICK wayIn \in BOOLEAN : StartPass("bake", wayIn) BY <1>2 DEF BeginBake
  <2>2. run' \in Runs BY <2>1, StartTypes DEF Modes
  <2>3. pc' \in Labels BY <1>2 DEF BeginBake, FirstCall, Labels
  <2> QED BY <1>0, <1>2, <2>1, <2>2, <2>3 DEF BeginBake, StartPass
<1>3. CASE BeginInteractive
  <2>1. run' \in Runs BY <1>3, StartTypes DEF BeginInteractive, Modes
  <2>2. pc' \in Labels BY <1>3 DEF BeginInteractive, Labels
  <2>3. wizard' \in Wizards
    <3>1. files.ledger.dbcache \in BOOLEAN BY LedgerTypes, FilesTypes
    <3>2. WillRun(Identity) \in BOOLEAN BY DEF WillRun
    <3> QED BY <1>3, <3>1, <3>2, WizardTypes DEF BeginInteractive, EnumerateKeySources
  <2> QED BY <1>0, <1>3, <2>1, <2>2, <2>3 DEF BeginInteractive, StartPass
<1>4. CASE Decide BY <1>0, <1>4, WizardTypes DEF Decide
<1>5. CASE QuitWizard BY <1>0, <1>5, WizardTypes, NoRunType DEF QuitWizard, Labels
<1>6. CASE StartInstall
  <2>1. (wizard.keys # {} \/ wizard.passwordAuth) \in BOOLEAN BY DEF Wizards
  <2>2. run' \in Runs BY <1>6, <2>1, RunTypes DEF StartInstall
  <2> QED BY <1>0, <1>6, <2>2, WizardTypes DEF StartInstall, Labels
<1>7. CASE PersistDbCache
  <2>1. CASE pc = "dbcache"
    <3>1. files' \in Files BY <1>7, <2>1, FilesTypes, LedgerTypes DEF PersistDbCache, Rename
    <3> QED BY <1>0, <1>7, <2>1, <3>1 DEF PersistDbCache, Rename, Labels
  <2>2. CASE pc # "dbcache"
    <3>1. files' \in Files /\ kept' \in KeptFiles BY <1>7, <2>2, SyncTypes DEF PersistDbCache
    <3> QED BY <1>0, <1>7, <2>2, <3>1, WizardTypes DEF PersistDbCache, Labels
  <2> QED BY <2>1, <2>2
<1>8. CASE PersistDbCacheFails
  <2>1. stops' \in 0..MaxStops BY <1>0, <1>8 DEF PersistDbCacheFails
  <2> QED BY <1>0, <1>8, <2>1 DEF PersistDbCacheFails, Labels
<1>9. CASE Fn
  <2>1. made' \subseteq Facts BY <1>0, <1>9, KeyTypes DEF Fn
  <2>2. run' \in Runs BY <1>0, <1>9, KeyTypes DEF Fn
  <2>3. gate' \in GateStates BY <1>9, GateTypes DEF Fn
  <2>4. pc' \in Labels BY <1>9 DEF Fn, Labels
  <2> QED BY <1>0, <1>9, <2>1, <2>2, <2>3, <2>4 DEF Fn
<1>10. CASE FnFails
  <2>1. EndPass /\ UNCHANGED <<storage, host, others>> BY <1>10 DEF FnFails
  <2> QED BY <1>0, <2>1, EndTypes
<1>11. CASE GateFailed
  <2>1. EndPass /\ UNCHANGED <<storage, host, others>> BY <1>11 DEF GateFailed
  <2> QED BY <1>0, <2>1, EndTypes
<1>12. CASE VerifyTorRouting
  <2>1. gate' \in GateStates BY <1>12, GateTypes DEF VerifyTorRouting
  <2>2. run' \in Runs BY <1>0, <1>12, KeyTypes DEF VerifyTorRouting
  <2>3. pc' \in Labels BY <1>12 DEF VerifyTorRouting, Labels
  <2> QED BY <1>0, <1>12, <2>1, <2>2, <2>3 DEF VerifyTorRouting
<1>13. CASE RecordStep
  <2>1. CASE pc = "record"
    <3>1. files' \in Files
      BY <1>13, <2>1, FilesTypes, LedgerTypes, KeyTypes DEF RecordStep, Rename
    <3> QED BY <1>0, <1>13, <2>1, <3>1 DEF RecordStep, Rename, Labels
  <2>2. CASE pc # "record"
    <3>1. files' \in Files /\ kept' \in KeptFiles BY <1>13, <2>2, SyncTypes DEF RecordStep
    <3>2. run' \in Runs /\ pc' \in Labels BY <1>13, <2>2, AdvanceTypes DEF RecordStep, Labels
    <3> QED BY <1>0, <1>13, <2>2, <3>1, <3>2 DEF RecordStep
  <2> QED BY <2>1, <2>2
<1>14. CASE ApplyIdentityAccess
  <2>1. run' \in Runs BY <1>14, RunTypes DEF ApplyIdentityAccess
  <2>2. files' \in Files BY <1>14, FilesTypes DEF ApplyIdentityAccess
  <2>3. pc' \in Labels /\ password' \in Passwords /\ access' \in {"none", "barred", "open"}
    BY <1>0, <1>14 DEF ApplyIdentityAccess, Labels, Passwords
  <2> QED BY <1>0, <1>14, <2>1, <2>2, <2>3 DEF ApplyIdentityAccess
<1>15. CASE Prepare BY <1>0, <1>15 DEF Prepare, Labels
<1>16. CASE Reapply
  <2>1. run' \in Runs BY <1>16, RunTypes DEF Reapply
  <2>2. pc' \in Labels /\ password' \in Passwords BY <1>0, <1>16 DEF Reapply, Labels, Passwords
  <2> QED BY <1>0, <1>16, <2>1, <2>2 DEF Reapply
<1>17. CASE PrintGeneratedPassword
  BY <1>0, <1>17 DEF PrintGeneratedPassword, Labels, Passwords
<1>18. CASE ClearPasswordPendingMarkerStrict
  <2>1. files' \in Files BY <1>18, FilesTypes DEF ClearPasswordPendingMarkerStrict
  <2> QED BY <1>0, <1>18, <2>1 DEF ClearPasswordPendingMarkerStrict, Labels
<1>19. CASE PublishTerminalLedger
  <2>1. CASE pc = "publish"
    <3>1. files' \in Files
      BY <1>19, <2>1, FilesTypes, LedgerTypes DEF PublishTerminalLedger, Rename
    <3> QED BY <1>0, <1>19, <2>1, <3>1 DEF PublishTerminalLedger, Rename, Labels
  <2>2. CASE pc # "publish"
    <3>1. files' \in Files /\ kept' \in KeptFiles
      BY <1>19, <2>2, SyncTypes DEF PublishTerminalLedger
    <3> QED BY <1>0, <1>19, <2>2, <3>1, NoRunType DEF PublishTerminalLedger, Labels
  <2> QED BY <2>1, <2>2
<1>20. CASE SetUserPassword BY <1>0, <1>20 DEF SetUserPassword, Passwords
<1>21. CASE ClearPasswordPendingMarker
  <2>1. files' \in Files BY <1>21, FilesTypes DEF ClearPasswordPendingMarker
  <2> QED BY <1>0, <1>21, <2>1 DEF ClearPasswordPendingMarker
<1>22. CASE Stop
  <2>1. made' \subseteq Facts
    <3>1. PICK some \in Partly : made' = made \cup some BY <1>22 DEF Stop
    <3>2. some \subseteq Facts BY <3>1, KeyTypes DEF Partly
    <3> QED BY <1>0, <3>1, <3>2
  <2>2. stops' \in 0..MaxStops BY <1>0, <1>22 DEF Stop
  <2>3. EndPass /\ UNCHANGED <<storage, access, config, helper, losses>> BY <1>22 DEF Stop
  <2> QED BY <1>0, <2>1, <2>2, <2>3, EndTypes
<1>23. CASE Writeback
  <2>1. files' \in Files /\ kept' \in KeptFiles
    <3>1. CASE DirectorySync BY <3>1, SyncTypes
    <3>2. CASE ~DirectorySync BY <1>23, <3>2, FilesTypes DEF Writeback
    <3> QED BY <3>1, <3>2
  <2> QED BY <1>0, <1>23, <2>1 DEF Writeback
<1>24. CASE PowerLoss
  <2>1. files' \in Files /\ kept' \in KeptFiles BY <1>24, FilesTypes DEF PowerLoss
  <2>2. losses' \in 0..MaxPowerLosses /\ helper' \in {"never", "idle", "clear"}
    BY <1>0, <1>24 DEF PowerLoss
  <2>3. EndPass /\ UNCHANGED <<host, config, stops>> BY <1>24 DEF PowerLoss
  <2> QED BY <1>0, <2>1, <2>2, <2>3, EndTypes
<1>25. CASE Refuse BY <1>0, <1>25 DEF Refuse
<1>26. CASE UNCHANGED vars BY <1>0, <1>26
<1> QED
  BY <1>1, <1>2, <1>3, <1>4, <1>5, <1>6, <1>7, <1>8, <1>9, <1>10, <1>11, <1>12, <1>13,
     <1>14, <1>15, <1>16, <1>17, <1>18, <1>19, <1>20, <1>21, <1>22, <1>23, <1>24, <1>25, <1>26
  DEF Next, PassStep

(* Types: Installer, whose ledger, marker, run, wizard and gate have their *)
(* states, and whose counters do not leave their bounds.                   *)
THEOREM TypeCorrect == Spec => []TypeOK
<1>1. Init => TypeOK
  <2>1. NoRun \in Runs /\ ClosedWizard \in Wizards /\ Closed \in GateStates
    BY NoRunType, GateAssumption
       DEF ClosedWizard, Wizards, Pages, Closed, GateStates, NoAnswer
  <2>2. [ledger |-> Initial, marker |-> "absent"] \in KeptFiles
    BY LedgerTypes DEF KeptFiles
  <2>3. 0 \in 0..MaxStops /\ 0 \in 0..MaxPowerLosses BY BoundsAssumption
  <2>4. SUFFICES ASSUME Init PROVE TypeOK OBVIOUS
  <2>5. files \in Files /\ kept \in KeptFiles BY <2>2, <2>4, FilesTypes DEF Init
  <2> QED BY <2>1, <2>3, <2>4, <2>5 DEF Init, TypeOK, Passwords, Labels
<1>2. TypeOK /\ [Next]_vars => TypeOK' BY TypeStep
<1> QED BY <1>1, <1>2, PTL DEF Spec

-------------------------------------------------------------------------------
(* The inductive invariant.                                                *)

(* The places of a pass that stands at a step, and those that have put     *)
(* their question about the hardware behind them.                          *)
Asking == {"wizard", "dbcache", "dbcache.sync"}
Running == {"step", "gate", "record", "record.sync", "identity.password", "identity.mark"}
Placed == Asking \cup Running

(* The ledger that is kept is behind the one that is seen; the terminal    *)
(* status appears only at the end of a pass.                               *)
LedgerInv ==
  /\ LedgerIsValid
  /\ kept.ledger.steps \subseteq files.ledger.steps
  /\ pc \notin {"idle", "publish.sync"} => ~files.ledger.complete
  /\ pc \in Running \cup {"dbcache.sync"} => files.ledger.dbcache

(* What a pass does not run is recorded, and so is what it has behind it.  *)
(* Gates are always run, a group wholly or not at all.                     *)
PlanInv ==
  pc \in Placed =>
    /\ Key \in run.plan /\ run.plan \subseteq Selected(run.mode)
    /\ Selected(run.mode) \ run.plan \subseteq files.ledger.steps
    /\ Prefix(run.at - 1) \cap Selected(run.mode) \subseteq files.ledger.steps
    /\ pc = "record.sync" => Key \in files.ledger.steps
    /\ GateKeys \cap Selected(run.mode) \subseteq run.plan
    /\ \A k \in run.plan, l \in Keys :
         GroupOf(l) = GroupOf(k) /\ GroupOf(k) # "" => l \in run.plan

(* A recorded step has left what it makes on the host, a step that this    *)
(* process has run what is its own.                                        *)
BodiesInv ==
  /\ \A k \in files.ledger.steps : Makes(k) \subseteq made
  /\ pc \in Running \ {"step"} => Makes(Key) \subseteq made
  /\ pc \in Placed =>
       \A k \in run.plan \cap Prefix(run.at - 1) : k # Identity => Own(k) \subseteq run.own
  /\ pc \in {"record", "record.sync"} /\ Key # Identity => Own(Key) \subseteq run.own

(* The way in: the decisions of a pass that will run the identity step     *)
(* leave one, and the step opens it before it is recorded.                 *)
IdentityInv ==
  /\ pc = "gate" => Key # Identity
  /\ pc \in {"identity.password", "identity.mark"} => Key = Identity
  /\ Identity \in files.ledger.steps => access = "open"
  /\ pc = "identity.mark" => access = "open"
  /\ pc = "record" /\ Key = Identity => access = "open"
  /\ pc \in Placed \ {"wizard"} /\ Identity \in run.plan => run.wayIn
  /\ HardenedBehindAWayIn

WizardInv ==
  /\ pc = "wizard" => run.mode = "interactive"
  /\ pc \in Asking /\ run.mode = "interactive" =>
       /\ Identity \in run.plan => wizard.needIdentity
       /\ wizard.needIdentity /\ wizard.page \in {"password", "hardware"} =>
            wizard.keys # {} \/ wizard.passwordAuth
       /\ ~wizard.needHardware => files.ledger.dbcache

(* The marker of a generated password that nobody has seen: there from     *)
(* before the identity step is recorded, and kept with that record.        *)
Unseen == helper = "never" /\ password \in {"current", "earlier"}
MarkerInv ==
  /\ Unseen /\ Identity \in files.ledger.steps => Pending
  /\ Identity \in kept.ledger.steps /\ Pending => kept.marker # "absent"
  /\ pc \in Placed /\ Identity \in run.plan \ Prefix(run.at - 1) =>
       Identity \notin files.ledger.steps \/ (pc = "record.sync" /\ Key = Identity)
  /\ pc = "record" /\ Key = Identity /\ Unseen => Pending
  /\ CompletedIsDelivered
  /\ pc = "publish.sync" => ~Pending

(* The password of the running pass, until it is printed.                  *)
DeliveryInv ==
  helper = "never" =>
    /\ run.applied /\ run.generated /\ pc \notin {"clear", "publish", "publish.sync"} =>
         password = "current"
    /\ pc = "reapply.set" => Pending
    /\ pc = "reapply.set" => run.generated
    /\ PrintedWorks
    /\ pc = "clear" => password = "shown"

IInv ==
  /\ LedgerInv /\ PlanInv /\ BodiesInv /\ IdentityInv /\ WizardInv
  /\ MarkerInv /\ DeliveryInv

-------------------------------------------------------------------------------
(* What the actions have in common.                                        *)

LEMMA SyncFacts ==
  ASSUME TypeOK, DirectorySync
  PROVE  /\ files' = files /\ kept'.ledger = files.ledger
         /\ kept'.marker = "absent" <=> files.marker = "absent"
<1>1. files.marker \in {"absent", "dirty", "clean", "torn"} BY FilesTypes DEF TypeOK
<1>2. PICK m \in IF files.marker = "dirty" THEN {"torn", "clean"} ELSE {files.marker} :
        kept' = [ledger |-> files.ledger, marker |-> m]
  BY DEF DirectorySync
<1> QED BY <1>1, <1>2 DEF DirectorySync

(* The ledger that is seen stays as it is, and the kept one is it or stays. *)
LedgerRests ==
  /\ files'.ledger = files.ledger
  /\ kept'.ledger \in {kept.ledger, files.ledger}

LEMMA LedgerRestsKeeps ==
  ASSUME LedgerInv, LedgerRests,
         pc' \notin {"idle", "publish.sync"} => ~files.ledger.complete,
         pc' \in Running \cup {"dbcache.sync"} => files.ledger.dbcache
  PROVE  LedgerInv'
<1>1. LedgerIsValid'
  BY DEF LedgerInv, LedgerRests, LedgerIsValid
<1> QED BY <1>1 DEF LedgerInv, LedgerRests

(* The marker of a ledger that rests, when it is not taken away.           *)
MarkerRests ==
  /\ files'.marker = "absent" <=> files.marker = "absent"
  /\ \/ kept'.ledger = kept.ledger /\ (kept'.marker = "absent" <=> kept.marker = "absent")
     \/ kept'.ledger = files.ledger /\ (kept'.marker = "absent" <=> files.marker = "absent")

LEMMA StoredKeeps ==
  ASSUME TypeOK, UNCHANGED storage \/ DirectorySync
  PROVE  LedgerRests /\ MarkerRests
BY SyncFacts DEF storage, LedgerRests, MarkerRests

(* A step that leaves the process and the host alone.                      *)
LEMMA ProcessRestsKeeps ==
  ASSUME IInv, UNCHANGED <<host, process>>, LedgerRests
  PROVE  LedgerInv' /\ PlanInv' /\ BodiesInv' /\ IdentityInv' /\ WizardInv'
<1> USE DEF host, process
<1>1. LedgerInv' BY LedgerRestsKeeps DEF IInv, LedgerInv
<1>2. Key' = Key BY DEF Key
<1>3. PlanInv' BY <1>2 DEF IInv, LedgerRests, PlanInv
<1>4. BodiesInv' BY <1>2 DEF IInv, LedgerRests, BodiesInv
<1>5. IdentityInv' BY <1>2 DEF IInv, LedgerRests, IdentityInv, HardenedBehindAWayIn
<1>6. WizardInv' BY DEF IInv, LedgerRests, WizardInv
<1> QED BY <1>1, <1>3, <1>4, <1>5, <1>6

(* A step to a place outside the steps.                                    *)
LEMMA OutsideKeeps ==
  ASSUME IInv, pc' \notin Placed, files'.ledger.steps \subseteq files.ledger.steps,
         made \subseteq made', UNCHANGED access, "hardened" \in made' => access = "open"
  PROVE  PlanInv' /\ BodiesInv' /\ IdentityInv' /\ WizardInv'
<1> USE DEF Placed, Asking, Running
<1>1. PlanInv' BY DEF PlanInv
<1>2. BodiesInv' BY DEF IInv, BodiesInv
<1>3. IdentityInv' BY DEF IInv, IdentityInv, HardenedBehindAWayIn
<1>4. WizardInv' BY DEF WizardInv
<1> QED BY <1>1, <1>2, <1>3, <1>4

-------------------------------------------------------------------------------
(* Beside the pass: the helper and the kernel.                             *)

LEMMA BesideKeeps ==
  ASSUME TypeOK, IInv,
         SetUserPassword \/ ClearPasswordPendingMarker \/ Writeback \/ UNCHANGED vars
  PROVE  IInv'
<1> USE DEF storage, host, process, others, vars
<1>0. helper \in {"never", "idle", "clear"} BY DEF TypeOK
<1>1. UNCHANGED <<host, process>> /\ LedgerRests
  BY SyncFacts, FilesTypes
     DEF SetUserPassword, ClearPasswordPendingMarker, Writeback, LedgerRests, TypeOK, Files, KeptFiles
<1>2. LedgerInv' /\ PlanInv' /\ BodiesInv' /\ IdentityInv' /\ WizardInv'
  BY <1>1, ProcessRestsKeeps
<1>3. Key' = Key BY <1>1 DEF Key
<1>4. CASE SetUserPassword
  <2>1. helper' # "never" /\ UNCHANGED storage BY <1>4 DEF SetUserPassword
  <2>2. MarkerInv'
    BY <1>1, <1>3, <2>1 DEF IInv, MarkerInv, Unseen, Pending, CompletedIsDelivered
  <2>3. DeliveryInv' BY <2>1 DEF DeliveryInv
  <2> QED BY <1>2, <2>2, <2>3 DEF IInv
<1>5. CASE ClearPasswordPendingMarker
  <2>1. helper' # "never" /\ UNCHANGED kept /\ (files'.marker = "absent" \/ UNCHANGED files)
    BY <1>5, FilesTypes DEF ClearPasswordPendingMarker, TypeOK, Files
  <2>2. MarkerInv'
    BY <1>1, <1>3, <2>1
       DEF IInv, MarkerInv, Unseen, Pending, CompletedIsDelivered, LedgerRests
  <2>3. DeliveryInv' BY <2>1 DEF DeliveryInv
  <2> QED BY <1>2, <2>2, <2>3 DEF IInv
<1>6. CASE Writeback \/ UNCHANGED vars
  <2>1. MarkerRests
    <3>1. CASE DirectorySync BY <3>1, SyncFacts DEF MarkerRests
    <3>2. CASE ~DirectorySync
      BY <1>6, <3>2, FilesTypes DEF MarkerRests, Writeback, TypeOK, Files, KeptFiles
    <3> QED BY <3>1, <3>2
  <2>2. UNCHANGED <<password, helper>> BY <1>6 DEF Writeback
  <2>3. MarkerInv'
    BY <1>1, <1>3, <2>1, <2>2
       DEF IInv, MarkerInv, Unseen, Pending, CompletedIsDelivered, LedgerRests, MarkerRests
  <2>4. DeliveryInv'
    BY <1>1, <2>1, <2>2 DEF IInv, DeliveryInv, PrintedWorks, Pending, MarkerRests
  <2> QED BY <1>2, <2>3, <2>4 DEF IInv
<1> QED BY <1>4, <1>5, <1>6

-------------------------------------------------------------------------------
(* The end of a pass.                                                      *)

(* A step that closes the root login has the identity step behind it.      *)
LEMMA HardenedAfterIdentity ==
  ASSUME TypeOK, IInv, pc \in Placed, "hardened" \in Makes(Key)
  PROVE  access = "open"
<1>1. run.at \in Indexes BY RunTypes DEF TypeOK
<1>2. Key = Steps[run.at].key /\ Key \in Keys BY <1>1, KeysOfSteps DEF Key
<1>3. PICK j \in 1..run.at - 1 : Steps[j].key = Identity
  BY <1>1, StepFacts, BodiesAssumption DEF Key, Indexes, Count
<1>4. Key \in FirstBootKeys
  BY <1>1, StepFacts, BodiesAssumption DEF Key, Indexes, Count
<1>5. j \in Indexes BY <1>1, IndexFacts DEF Indexes
<1>6. Identity \in Prefix(run.at - 1)
  <2>1. BaseSteps[j] = Identity BY <1>3, <1>5, KeysOfSteps
  <2> QED BY <2>1 DEF Prefix
<1>7. Key \in Selected(run.mode) BY DEF IInv, PlanInv
<1>8. Identity \in Selected(run.mode) BY <1>4, <1>7, IdentityFacts DEF Selected
<1> QED BY <1>6, <1>8 DEF IInv, PlanInv, IdentityInv

(* Nothing of the process is left; the files are those that were seen, or  *)
(* after a power loss those that were kept.                                *)
LEMMA EndedKeeps ==
  ASSUME TypeOK, IInv, pc' = "idle", run' = NoRun, password' \in {password, Forgotten},
         made \subseteq made', UNCHANGED access, "hardened" \in made' => access = "open",
         UNCHANGED kept, files' \in {files, kept}, helper' = "never" => helper = "never"
  PROVE  IInv'
<1>1. files'.ledger.steps \subseteq files.ledger.steps BY DEF IInv, LedgerInv
<1>2. PlanInv' /\ BodiesInv' /\ IdentityInv' /\ WizardInv'
  BY <1>1, OutsideKeeps DEF Placed, Asking, Running
<1>3. LedgerInv'
  <2>1. LedgerIsValid' BY DEF IInv, LedgerInv, LedgerIsValid
  <2> QED BY <2>1 DEF IInv, LedgerInv, Running
<1>4. MarkerInv'
  <2>1. Unseen' => Unseen BY DEF Unseen, Forgotten
  <2>2. Unseen' /\ Identity \in files'.ledger.steps => Pending'
    BY <2>1, <1>1 DEF IInv, LedgerInv, MarkerInv, Pending
  <2>3. Identity \in kept'.ledger.steps /\ Pending' => kept'.marker # "absent"
    BY DEF IInv, MarkerInv, Pending
  <2>4. CompletedIsDelivered' BY DEF IInv, MarkerInv, CompletedIsDelivered, Pending
  <2> QED BY <2>2, <2>3, <2>4 DEF MarkerInv, Placed, Asking, Running
<1>5. DeliveryInv' BY DEF DeliveryInv, PrintedWorks, NoRun
<1> QED BY <1>2, <1>3, <1>4, <1>5 DEF IInv

LEMMA StoppedKeeps ==
  ASSUME TypeOK, IInv, QuitWizard \/ FnFails \/ GateFailed \/ Stop \/ PowerLoss
  PROVE  IInv'
<1> USE DEF storage, host, others
<1>0. "hardened" \in made => access = "open"
  BY DEF IInv, IdentityInv, HardenedBehindAWayIn
<1>1. CASE QuitWizard BY <1>0, <1>1, EndedKeeps DEF QuitWizard
<1>2. CASE FnFails BY <1>0, <1>2, EndedKeeps DEF FnFails, EndPass
<1>3. CASE GateFailed BY <1>0, <1>3, EndedKeeps DEF GateFailed, EndPass
<1>4. CASE Stop
  <2>1. PICK some \in Partly : made' = made \cup some BY <1>4 DEF Stop
  <2>2. "hardened" \in some => pc \in Placed /\ "hardened" \in Makes(Key)
    BY <2>1 DEF Partly, Placed, Running
  <2>3. "hardened" \in made' => access = "open" BY <1>0, <2>1, <2>2, HardenedAfterIdentity
  <2> QED BY <1>4, <2>1, <2>3, EndedKeeps DEF Stop, EndPass
<1>5. CASE PowerLoss
  <2>1. helper' = "never" => helper = "never" BY <1>5 DEF PowerLoss
  <2> QED BY <1>0, <1>5, <2>1, EndedKeeps DEF PowerLoss, EndPass
<1> QED BY <1>1, <1>2, <1>3, <1>4, <1>5

(* After the last step: the configuration, the password, the ledger.       *)
LEMMA EndingKeeps ==
  ASSUME TypeOK, IInv,
         \/ Prepare \/ Reapply \/ PrintGeneratedPassword \/ ClearPasswordPendingMarkerStrict
         \/ PublishTerminalLedger
  PROVE  IInv'
<1> USE DEF storage, host, others
<1>1. pc \in {"prepare", "reapply", "reapply.set", "print", "clear", "publish", "publish.sync"}
      /\ pc' \in {"reapply", "reapply.set", "print", "clear", "publish", "publish.sync", "idle"}
  BY DEF Prepare, Reapply, PrintGeneratedPassword, ClearPasswordPendingMarkerStrict,
         PublishTerminalLedger
<1>2. UNCHANGED <<host, helper>>
  BY DEF Prepare, Reapply, PrintGeneratedPassword, ClearPasswordPendingMarkerStrict,
         PublishTerminalLedger
<1>3. files'.ledger.steps = files.ledger.steps
  <2>1. files \in Files /\ files.ledger \in Ledgers BY FilesTypes DEF TypeOK
  <2> QED BY <2>1, SyncFacts
      DEF Prepare, Reapply, PrintGeneratedPassword, ClearPasswordPendingMarkerStrict,
          PublishTerminalLedger, Rename, Files, Ledgers
<1>4. PlanInv' /\ BodiesInv' /\ IdentityInv' /\ WizardInv'
  <2>1. pc' \notin Placed BY <1>1 DEF Placed, Asking, Running
  <2>2. "hardened" \in made' => access = "open"
    BY <1>2 DEF IInv, IdentityInv, HardenedBehindAWayIn
  <2> QED BY <1>2, <1>3, <2>1, <2>2, OutsideKeeps
<1>5. ASSUME pc' \notin {"idle", "publish.sync"}, LedgerRests
      PROVE  LedgerInv'
  <2>1. ~files.ledger.complete
    <3>1. CASE pc # "publish.sync" BY <1>1, <3>1 DEF IInv, LedgerInv
    <3>2. CASE pc = "publish.sync"
      BY <1>5, <3>2 DEF Prepare, Reapply, PrintGeneratedPassword,
                        ClearPasswordPendingMarkerStrict, PublishTerminalLedger
    <3> QED BY <3>1, <3>2
  <2> QED BY <1>1, <1>5, <2>1, LedgerRestsKeeps DEF IInv, Running
<1>6. CASE Prepare
  <2>1. LedgerInv' BY <1>1, <1>5, <1>6 DEF Prepare, LedgerRests
  <2>2. MarkerInv'
    BY <1>1, <1>6 DEF Prepare, IInv, MarkerInv, Unseen, Pending, CompletedIsDelivered,
                      Placed, Asking, Running
  <2>3. DeliveryInv' BY <1>6 DEF Prepare, IInv, DeliveryInv, PrintedWorks, Pending
  <2> QED BY <1>4, <2>1, <2>2, <2>3 DEF IInv
<1>7. CASE Reapply
  <2>0. UNCHANGED storage BY <1>7 DEF Reapply
  <2>1. LedgerInv' BY <1>1, <1>5, <1>7, <2>0 DEF Reapply, LedgerRests
  <2>2. MarkerInv'
    <3>1. Unseen' => Unseen \/ Pending
      BY <1>7, <1>2 DEF Reapply, Unseen, IInv, DeliveryInv
    <3> QED BY <1>1, <1>7, <2>0, <3>1
        DEF Reapply, IInv, MarkerInv, Pending, CompletedIsDelivered, Placed, Asking, Running
  <2>3. DeliveryInv'
    <3>1. CASE pc = "reapply"
      BY <1>7, <3>1, <1>2, <2>0 DEF Reapply, IInv, DeliveryInv, PrintedWorks, Pending
    <3>2. CASE pc = "reapply.set"
      <4>1. pc' = "print" /\ password' = "current" BY <1>7, <3>2 DEF Reapply
      <4> QED BY <4>1 DEF DeliveryInv, PrintedWorks
    <3> QED BY <1>7, <3>1, <3>2 DEF Reapply
  <2> QED BY <1>4, <2>1, <2>2, <2>3 DEF IInv
<1>8. CASE PrintGeneratedPassword
  <2>1. LedgerInv' BY <1>1, <1>5, <1>8 DEF PrintGeneratedPassword, LedgerRests
  <2>2. MarkerInv'
    BY <1>1, <1>8 DEF PrintGeneratedPassword, IInv, MarkerInv, Unseen, Pending,
                      CompletedIsDelivered, Placed, Asking, Running
  <2>3. DeliveryInv'
    BY <1>8 DEF PrintGeneratedPassword, IInv, DeliveryInv, PrintedWorks, Pending
  <2> QED BY <1>4, <2>1, <2>2, <2>3 DEF IInv
<1>9. CASE ClearPasswordPendingMarkerStrict
  <2>0. /\ pc = "clear" /\ pc' = "publish"
        /\ files'.ledger = files.ledger /\ files'.marker = "absent"
        /\ UNCHANGED <<kept, password, helper>>
    BY <1>9 DEF ClearPasswordPendingMarkerStrict, TypeOK, Files
  <2>1. LedgerInv' BY <1>1, <1>5, <2>0 DEF LedgerRests
  <2>2. ~Unseen' BY <2>0 DEF IInv, DeliveryInv, Unseen
  <2>3. MarkerInv'
    BY <2>0, <2>2 DEF IInv, MarkerInv, Pending, CompletedIsDelivered, Placed, Asking, Running
  <2>4. DeliveryInv' BY <2>0 DEF DeliveryInv, PrintedWorks
  <2> QED BY <1>4, <2>1, <2>3, <2>4 DEF IInv
<1>10. CASE PublishTerminalLedger /\ pc = "publish"
  <2>0. /\ pc' = "publish.sync" /\ ~Pending /\ AllBaseStepsDone
        /\ files'.ledger = [files.ledger EXCEPT !.complete = TRUE]
        /\ files'.marker = files.marker /\ UNCHANGED <<kept, password, helper>>
    BY <1>10 DEF PublishTerminalLedger, Rename, TypeOK, Files
  <2>1. LedgerInv'
    <3>1. files.ledger \in Ledgers BY FilesTypes DEF TypeOK
    <3>2. ValidLedger(files'.ledger)
      BY <2>0, <3>1
         DEF IInv, LedgerInv, LedgerIsValid, ValidLedger, Ledgers, AllBaseStepsDone
    <3>3. LedgerIsValid' BY <2>0, <3>2 DEF IInv, LedgerInv, LedgerIsValid
    <3> QED BY <1>3, <2>0, <3>3 DEF IInv, LedgerInv, Running
  <2>2. MarkerInv'
    BY <1>3, <2>0 DEF IInv, MarkerInv, Unseen, Pending, CompletedIsDelivered,
                      Placed, Asking, Running
  <2>3. DeliveryInv' BY <2>0 DEF DeliveryInv, PrintedWorks
  <2> QED BY <1>4, <2>1, <2>2, <2>3 DEF IInv
<1>11. CASE PublishTerminalLedger /\ pc # "publish"
  <2>0. /\ pc = "publish.sync" /\ pc' = "idle" /\ run' = NoRun /\ DirectorySync
        /\ UNCHANGED <<password, helper>>
    BY <1>11 DEF PublishTerminalLedger
  <2>1. LedgerRests /\ files' = files /\ kept'.ledger = files.ledger
        /\ (kept'.marker = "absent" <=> files.marker = "absent")
    BY <2>0, SyncFacts DEF LedgerRests
  <2>2. LedgerInv' BY <2>0, <2>1, LedgerRestsKeeps DEF IInv, Running
  <2>3. MarkerInv'
    BY <2>0, <2>1 DEF IInv, MarkerInv, Unseen, Pending, CompletedIsDelivered,
                      Placed, Asking, Running
  <2>4. DeliveryInv' BY <2>0 DEF DeliveryInv, PrintedWorks, NoRun
  <2> QED BY <1>4, <2>2, <2>3, <2>4 DEF IInv
<1> QED BY <1>6, <1>7, <1>8, <1>9, <1>10, <1>11

-------------------------------------------------------------------------------
(* The start of a pass.                                                    *)

LEMMA StartFacts ==
  ASSUME TypeOK, IInv, NEW mode \in Modes, NEW wayIn \in BOOLEAN, StartPass(mode, wayIn)
  PROVE  /\ UNCHANGED <<storage, host, gate, password, others>>
         /\ run'.mode = mode /\ run'.wayIn = wayIn /\ run'.own = {} /\ run'.applied = FALSE
         /\ run'.plan = PlanRun(mode, files.ledger.steps)
         /\ ~AllBaseStepsDone =>
              /\ run'.at \in Indexes /\ BaseSteps[run'.at] \in run'.plan
              /\ Prefix(run'.at - 1) \cap run'.plan = {}
<1> DEFINE plan == PlanRun(mode, files.ledger.steps)
<1>1. PICK at \in IF AllBaseStepsDone THEN {1} ELSE RunsNext(plan, 1) :
        run' = [NoRun EXCEPT
                  !.mode = mode, !.plan = plan, !.wayIn = wayIn, !.at = at,
                  !.generated = mode # "interactive" /\ (AllBaseStepsDone => Pending)]
  BY DEF StartPass
<1>2. ~AllBaseStepsDone =>
        /\ at \in Indexes /\ BaseSteps[at] \in plan
        /\ Prefix(at - 1) \cap plan = {}
  <2>1. 1 \in 1..Count + 1 BY IndexFacts
  <2>2. 1 - 1 = 0 OBVIOUS
  <2> HIDE DEF plan
  <2> QED BY <1>1, <2>1, <2>2, NextPlanned, Prefixes
<1>3. /\ run'.mode = mode /\ run'.wayIn = wayIn /\ run'.own = {} /\ run'.applied = FALSE
      /\ run'.plan = plan /\ run'.at = at
  BY <1>1 DEF NoRun
<1> HIDE DEF plan
<1>4. UNCHANGED <<storage, host, gate, password, others>> BY DEF StartPass
<1>5. run'.plan = PlanRun(mode, files.ledger.steps) BY <1>3 DEF plan
<1> QED BY <1>2, <1>3, <1>4, <1>5

(* A pass that starts at its first planned step, with decisions that leave *)
(* a way in or in the wizard.                                              *)
LEMMA StartKeeps ==
  ASSUME TypeOK, IInv, NEW mode \in Modes, NEW wayIn \in BOOLEAN, StartPass(mode, wayIn),
         ~files.ledger.complete, ~AllBaseStepsDone, pc' \in {"wizard", "dbcache", "step"},
         pc' = "step" => files.ledger.dbcache,
         pc' # "wizard" /\ Identity \in run'.plan => wayIn,
         WizardInv'
  PROVE  IInv'
<1> USE DEF storage, host, others, Placed, Asking, Running
<1>1. /\ UNCHANGED <<storage, host, gate, password, others>>
      /\ run'.mode = mode /\ run'.wayIn = wayIn /\ run'.own = {} /\ run'.applied = FALSE
      /\ run'.plan = PlanRun(mode, files.ledger.steps)
      /\ run'.at \in Indexes /\ Key' \in run'.plan
      /\ Prefix(run'.at - 1) \cap run'.plan = {}
  BY StartFacts DEF Key
<1>2. files.ledger.steps \in ValidInstallProgress
  BY DEF IInv, LedgerInv, LedgerIsValid, ValidLedger
<1>3. LedgerInv' BY <1>1, LedgerRestsKeeps DEF IInv, LedgerRests
<1> DEFINE plan == PlanRun(mode, files.ledger.steps)
<1>3a. /\ plan \subseteq Selected(mode)
       /\ Selected(mode) \ plan \subseteq files.ledger.steps
       /\ GateKeys \cap Selected(mode) \subseteq plan
       /\ \A k \in plan, l \in Keys :
            GroupOf(l) = GroupOf(k) /\ GroupOf(k) # "" => l \in plan
       /\ Identity \in plan => Identity \notin files.ledger.steps
  BY <1>2, PlanFacts
<1>4. PlanInv'
  <2>1. /\ run'.plan \subseteq Selected(mode)
        /\ Selected(mode) \ run'.plan \subseteq files.ledger.steps
        /\ GateKeys \cap Selected(mode) \subseteq run'.plan
        /\ \A k \in run'.plan, l \in Keys :
             GroupOf(l) = GroupOf(k) /\ GroupOf(k) # "" => l \in run'.plan
    BY <1>1, <1>3a
  <2>2. Prefix(run'.at - 1) \cap Selected(mode) \subseteq files.ledger.steps BY <1>1, <2>1
  <2> QED BY <1>1, <2>1, <2>2 DEF PlanInv
<1>5. BodiesInv' BY <1>1 DEF IInv, BodiesInv
<1>6. IdentityInv' BY <1>1 DEF IInv, IdentityInv, HardenedBehindAWayIn
<1>7. MarkerInv'
  <2>1. Identity \in run'.plan => Identity \notin files.ledger.steps BY <1>1, <1>3a
  <2> QED BY <1>1, <2>1 DEF IInv, MarkerInv, Unseen, Pending, CompletedIsDelivered
<1>8. DeliveryInv' BY <1>1 DEF DeliveryInv, PrintedWorks
<1> QED BY <1>3, <1>4, <1>5, <1>6, <1>7, <1>8 DEF IInv

(* A pass that finds every step recorded.                                  *)
LEMMA StartAtTheEndKeeps ==
  ASSUME TypeOK, IInv, NEW mode \in Modes, NEW wayIn \in BOOLEAN, StartPass(mode, wayIn),
         ~files.ledger.complete, pc' = "prepare"
  PROVE  IInv'
<1> USE DEF storage, host, others
<1>1. UNCHANGED <<storage, host, gate, password, others>> /\ run'.applied = FALSE
  BY StartFacts
<1>2. PlanInv' /\ BodiesInv' /\ IdentityInv' /\ WizardInv'
  BY <1>1, OutsideKeeps DEF Placed, Asking, Running, IInv, IdentityInv, HardenedBehindAWayIn
<1>3. LedgerInv' BY <1>1, LedgerRestsKeeps DEF IInv, LedgerRests, Running
<1>4. MarkerInv'
  BY <1>1 DEF IInv, MarkerInv, Unseen, Pending, CompletedIsDelivered, Placed, Asking, Running
<1>5. DeliveryInv' BY <1>1 DEF DeliveryInv, PrintedWorks
<1> QED BY <1>2, <1>3, <1>4, <1>5 DEF IInv

LEMMA BeginningKeeps ==
  ASSUME TypeOK, IInv, BeginUnattended \/ BeginBake \/ BeginInteractive
  PROVE  IInv'
<1>1. CASE BeginUnattended
  <2>1. PICK wayIn \in BOOLEAN :
          /\ AllBaseStepsDone \/ FillUnattendedDecisions(wayIn)
          /\ StartPass("unattended", wayIn)
    BY <1>1 DEF BeginUnattended
  <2>2. CASE AllBaseStepsDone
    BY <1>1, <2>1, <2>2, StartAtTheEndKeeps DEF BeginUnattended, Modes
  <2>3. CASE ~AllBaseStepsDone
    <3>1. wayIn = TRUE BY <2>1, <2>3 DEF FillUnattendedDecisions, StrandsBox
    <3>2. WizardInv'
      <4>1. run'.mode = "unattended" BY <2>1, StartFacts DEF Modes
      <4> QED BY <1>1, <4>1, <2>3 DEF BeginUnattended, FirstCall, WizardInv
    <3> QED BY <1>1, <2>1, <2>3, <3>1, <3>2, StartKeeps DEF BeginUnattended, FirstCall, Modes
  <2> QED BY <2>2, <2>3
<1>2. CASE BeginBake
  <2>1. PICK wayIn \in BOOLEAN : FillUnattendedDecisions(wayIn) /\ StartPass("bake", wayIn)
    BY <1>2 DEF BeginBake
  <2>2. wayIn = TRUE BY <2>1 DEF FillUnattendedDecisions, StrandsBox
  <2>3. WizardInv'
    <3>1. run'.mode = "bake" BY <2>1, StartFacts DEF Modes
    <3> QED BY <1>2, <3>1 DEF BeginBake, FirstCall, WizardInv
  <2> QED BY <1>2, <2>1, <2>2, <2>3, StartKeeps DEF BeginBake, FirstCall, Modes
<1>3. CASE BeginInteractive
  <2>1. StartPass("interactive", FALSE) /\ ~files.ledger.complete BY <1>3 DEF BeginInteractive
  <2>2. CASE AllBaseStepsDone
    BY <1>3, <2>1, <2>2, StartAtTheEndKeeps DEF BeginInteractive, Modes
  <2>3. CASE ~AllBaseStepsDone
    <3>1. /\ run'.mode = "interactive" /\ files' = files
          /\ Identity \in run'.plan => WillRun(Identity)
      BY <2>1, StartFacts DEF Modes, WillRun, storage
    <3>2. CASE ~(WillRun(Identity) \/ ~files.ledger.dbcache)
      <4>1. pc' = "step" BY <1>3, <2>3, <3>2 DEF BeginInteractive
      <4>2. WizardInv' BY <4>1 DEF WizardInv, Asking
      <4> QED BY <2>1, <2>3, <3>1, <3>2, <4>1, <4>2, StartKeeps DEF Modes
    <3>3. CASE WillRun(Identity) \/ ~files.ledger.dbcache
      <4>1. pc' = "wizard" BY <1>3, <2>3, <3>3 DEF BeginInteractive
      <4>2. PICK found \in EnumerateKeySources, passwordAuth \in BOOLEAN :
              wizard' = NewWizard(WillRun(Identity), ~files.ledger.dbcache, found, passwordAuth)
        BY <1>3, <2>3, <3>3 DEF BeginInteractive
      <4>3. /\ wizard'.needIdentity = WillRun(Identity)
            /\ wizard'.needHardware = ~files.ledger.dbcache
            /\ wizard'.needIdentity => wizard'.page = "access"
        BY <4>2 DEF NewWizard
      <4>4. WizardInv' BY <3>1, <4>1, <4>3 DEF WizardInv
      <4> QED BY <2>1, <2>3, <4>1, <4>4, StartKeeps DEF Modes
    <3> QED BY <3>2, <3>3
  <2> QED BY <2>2, <2>3
<1> QED BY <1>1, <1>2, <1>3

-------------------------------------------------------------------------------
(* The wizard, and the decision about the hardware.                        *)

(* A step from a question to a question or to the first step.              *)
LEMMA PlacedKeeps ==
  ASSUME TypeOK, IInv, pc \in Asking, pc' \in Asking \cup {"step"},
         UNCHANGED <<host, password, helper>>, LedgerInv', MarkerRests,
         files'.ledger.steps = files.ledger.steps,
         files'.ledger.complete = files.ledger.complete,
         run' = run \/ run' = [run EXCEPT !.wayIn = run'.wayIn],
         pc' # "wizard" /\ Identity \in run.plan => run'.wayIn,
         WizardInv'
  PROVE  IInv'
<1> USE DEF Placed, Asking, Running, host
<1>1. run'.plan = run.plan /\ run'.at = run.at /\ run'.own = run.own
      /\ run'.mode = run.mode /\ run'.applied = run.applied /\ run'.generated = run.generated
  BY DEF TypeOK, Runs
<1>2. Key' = Key BY <1>1 DEF Key
<1>3. PlanInv' BY <1>1, <1>2 DEF IInv, PlanInv
<1>4. BodiesInv' BY <1>1, <1>2 DEF IInv, BodiesInv
<1>5. IdentityInv' BY <1>1, <1>2 DEF IInv, IdentityInv, HardenedBehindAWayIn
<1>6. MarkerInv'
  BY <1>1, <1>2 DEF IInv, MarkerInv, MarkerRests, Unseen, Pending, CompletedIsDelivered
<1>7. DeliveryInv' BY <1>1 DEF IInv, DeliveryInv, PrintedWorks
<1> QED BY <1>3, <1>4, <1>5, <1>6, <1>7 DEF IInv

LEMMA AskingKeeps ==
  ASSUME TypeOK, IInv, Decide \/ StartInstall \/ PersistDbCache \/ PersistDbCacheFails
  PROVE  IInv'
<1> USE DEF storage, host, others, Asking
<1>1. CASE Decide
  <2>1. pc = "wizard" /\ pc' = "wizard" /\ UNCHANGED <<storage, host, run, password, helper>>
    BY <1>1 DEF Decide
  <2>2. LedgerInv' BY <2>1, LedgerRestsKeeps DEF IInv, LedgerInv, LedgerRests
  <2>3. WizardInv'
    <3>1. /\ wizard'.needIdentity = wizard.needIdentity
          /\ wizard'.needHardware = wizard.needHardware
          /\ wizard'.passwordAuth = wizard.passwordAuth
          /\ wizard'.needIdentity /\ wizard'.page \in {"password", "hardware"} =>
               wizard'.keys # {} \/ wizard'.passwordAuth
      <4>1. wizard \in Wizards BY DEF TypeOK
      <4>2. wizard.needIdentity /\ wizard.page \in {"password", "hardware"} =>
              wizard.keys # {} \/ wizard.passwordAuth
        BY <2>1 DEF IInv, WizardInv
      <4>3. CASE \E k \in SSHKeys : ToggleKey(k) \/ AddKey(k)
        BY <4>1, <4>3 DEF ToggleKey, AddKey, Wizards
      <4>4. CASE PasteAKey \/ Continue \/ PasteBack \/ PasswordBack \/ PasswordContinue \/ HardwareBack
        BY <4>1, <4>2, <4>4
           DEF PasteAKey, Continue, PasteBack, PasswordBack, PasswordContinue, HardwareBack, Wizards
      <4> QED BY <1>1, <4>3, <4>4 DEF Decide, Deciding
    <3> QED BY <2>1, <3>1 DEF IInv, WizardInv
  <2> QED BY <2>1, <2>2, <2>3, PlacedKeeps DEF MarkerRests
<1>2. CASE StartInstall
  <2>1. /\ pc = "wizard" /\ pc' \in {"dbcache", "step"}
        /\ UNCHANGED <<storage, host, password, helper>>
        /\ run' = [run EXCEPT !.wayIn = wizard.keys # {} \/ wizard.passwordAuth]
        /\ pc' = "step" => ~wizard.needHardware
        /\ pc' = "dbcache" => wizard' = wizard
    BY <1>2 DEF StartInstall
  <2>2. run'.wayIn = (wizard.keys # {} \/ wizard.passwordAuth) /\ run'.plan = run.plan
        /\ run'.mode = run.mode
    BY <2>1 DEF TypeOK, Runs
  <2>3. LedgerInv' BY <2>1, LedgerRestsKeeps DEF IInv, LedgerInv, LedgerRests, WizardInv, Running
  <2>4. Identity \in run.plan => run'.wayIn
    <3>1. wizard.page \in {"password", "hardware"} BY <1>2 DEF StartInstall, Decided
    <3> QED BY <2>1, <2>2, <3>1 DEF IInv, WizardInv
  <2>5. WizardInv' BY <2>1, <2>2 DEF IInv, WizardInv
  <2>6. MarkerRests BY <2>1 DEF MarkerRests
  <2>7. run' = [run EXCEPT !.wayIn = run'.wayIn] BY <2>1, <2>2
  <2> QED BY <2>1, <2>3, <2>4, <2>5, <2>6, <2>7, PlacedKeeps
<1>3. CASE PersistDbCache /\ pc = "dbcache"
  <2>1. /\ pc' = "dbcache.sync" /\ UNCHANGED <<wizard, host, run, password, helper, kept>>
        /\ files'.ledger = [files.ledger EXCEPT !.dbcache = TRUE] /\ files'.marker = files.marker
    BY <1>3 DEF PersistDbCache, Rename, TypeOK, Files
  <2>2. files'.ledger.dbcache /\ files'.ledger.steps = files.ledger.steps
        /\ files'.ledger.complete = files.ledger.complete
    BY <2>1, FilesTypes DEF TypeOK, Ledgers
  <2>3. LedgerInv'
    <3>1. LedgerIsValid'
      BY <2>1, <2>2 DEF IInv, LedgerInv, LedgerIsValid, ValidLedger
    <3> QED BY <1>3, <2>1, <2>2, <3>1 DEF IInv, LedgerInv
  <2>4. WizardInv' BY <1>3, <2>1, <2>2 DEF IInv, WizardInv
  <2>5. MarkerRests BY <2>1 DEF MarkerRests
  <2>6. Identity \in run.plan => run'.wayIn BY <1>3, <2>1 DEF IInv, IdentityInv, Placed
  <2> QED BY <1>3, <2>1, <2>2, <2>3, <2>4, <2>5, <2>6, PlacedKeeps
<1>4. CASE PersistDbCache /\ pc # "dbcache"
  <2>1. /\ pc = "dbcache.sync" /\ pc' = "step" /\ DirectorySync
        /\ UNCHANGED <<host, run, password, helper>>
    BY <1>4 DEF PersistDbCache
  <2>2. LedgerRests /\ MarkerRests /\ files' = files BY <2>1, StoredKeeps DEF DirectorySync
  <2>3. LedgerInv' BY <2>1, <2>2, LedgerRestsKeeps DEF IInv, LedgerInv
  <2>4. WizardInv' BY <2>1 DEF WizardInv
  <2>5. Identity \in run.plan => run'.wayIn BY <2>1 DEF IInv, IdentityInv, Placed
  <2> QED BY <2>1, <2>2, <2>3, <2>4, <2>5, PlacedKeeps
<1>5. CASE PersistDbCacheFails
  <2>1. /\ pc \in {"dbcache", "dbcache.sync"} /\ run.mode = "interactive" /\ pc' = "wizard"
        /\ UNCHANGED <<storage, host, run, wizard, password, helper>>
    BY <1>5 DEF PersistDbCacheFails
  <2>2. LedgerInv' BY <2>1, LedgerRestsKeeps DEF IInv, LedgerInv, LedgerRests, Running
  <2>3. WizardInv' BY <2>1 DEF IInv, WizardInv
  <2>4. MarkerRests BY <2>1 DEF MarkerRests
  <2> QED BY <2>1, <2>2, <2>3, <2>4, PlacedKeeps
<1> QED BY <1>1, <1>2, <1>3, <1>4, <1>5

-------------------------------------------------------------------------------
(* The steps.                                                              *)

(* A pass goes on at the same place, with what its bodies have left.       *)
LEMMA RunningKeeps ==
  ASSUME TypeOK, IInv, pc \in Running, pc' \in Running \ {"step", "record.sync"},
         UNCHANGED <<helper, kept>>, files'.ledger = files.ledger,
         made \cup Makes(Key) \subseteq made',
         run'.plan = run.plan, run'.at = run.at, run'.mode = run.mode, run'.wayIn = run.wayIn,
         run.own \subseteq run'.own,
         pc' = "record" /\ Key # Identity => Own(Key) \subseteq run'.own
  PROVE  LedgerInv' /\ PlanInv' /\ BodiesInv' /\ WizardInv'
<1> USE DEF Placed, Asking, Running
<1>1. Key' = Key BY DEF Key
<1>2. LedgerInv' BY LedgerRestsKeeps DEF IInv, LedgerInv, LedgerRests
<1>3. PlanInv' BY <1>1 DEF IInv, PlanInv
<1>4. BodiesInv' BY <1>1 DEF IInv, BodiesInv
<1>5. WizardInv' BY DEF WizardInv
<1> QED BY <1>2, <1>3, <1>4, <1>5

LEMMA FnKeeps ==
  ASSUME TypeOK, IInv, Fn
  PROVE  IInv'
<1> USE DEF Placed, Asking, Running, storage, host, others
<1>1. /\ pc = "step" /\ made' = made \cup Makes(Key)
      /\ UNCHANGED <<files, kept, access, wizard, password, helper>>
      /\ \/ pc' = "identity.password" /\ Key = Identity /\ run' = run
         \/ pc' = "gate" /\ Key # Identity /\ run' = run
         \/ pc' = "record" /\ Key # Identity /\ run' = [run EXCEPT !.own = @ \cup Own(Key)]
  BY DEF Fn
<1>2. /\ run'.plan = run.plan /\ run'.at = run.at /\ run'.mode = run.mode
      /\ run'.wayIn = run.wayIn /\ run'.applied = run.applied /\ run'.generated = run.generated
      /\ run.own \subseteq run'.own /\ (pc' = "record" => Own(Key) \subseteq run'.own)
  BY <1>1 DEF TypeOK, Runs
<1>3. Key' = Key BY <1>2 DEF Key
<1>4. LedgerInv' /\ PlanInv' /\ BodiesInv' /\ WizardInv' BY <1>1, <1>2, RunningKeeps
<1>5. IdentityInv'
  <2>1. "hardened" \in made' => access = "open"
    BY <1>1, HardenedAfterIdentity DEF IInv, IdentityInv, HardenedBehindAWayIn
  <2> QED BY <1>1, <1>2, <1>3, <2>1 DEF IInv, IdentityInv, HardenedBehindAWayIn
<1>6. MarkerInv'
  BY <1>1, <1>2, <1>3 DEF IInv, MarkerInv, Unseen, Pending, CompletedIsDelivered
<1>7. DeliveryInv' BY <1>1, <1>2 DEF IInv, DeliveryInv, PrintedWorks
<1> QED BY <1>4, <1>5, <1>6, <1>7 DEF IInv

LEMMA VerifyTorRoutingKeeps ==
  ASSUME TypeOK, IInv, VerifyTorRouting
  PROVE  IInv'
<1> USE DEF Placed, Asking, Running, storage, host, others
<1>1. /\ pc = "gate" /\ UNCHANGED <<files, kept, made, access, wizard, password, helper>>
      /\ \/ pc' = "gate" /\ run' = run
         \/ pc' = "record" /\ run' = [run EXCEPT !.own = @ \cup Own(Key)]
  BY DEF VerifyTorRouting
<1>2. /\ run'.plan = run.plan /\ run'.at = run.at /\ run'.mode = run.mode
      /\ run'.wayIn = run.wayIn /\ run'.applied = run.applied /\ run'.generated = run.generated
      /\ run.own \subseteq run'.own /\ (pc' = "record" => Own(Key) \subseteq run'.own)
  BY <1>1 DEF TypeOK, Runs
<1>3. Key' = Key BY <1>2 DEF Key
<1>4. LedgerInv' /\ PlanInv' /\ BodiesInv' /\ WizardInv'
  <2>1. Makes(Key) \subseteq made BY <1>1 DEF IInv, BodiesInv
  <2> QED BY <1>1, <1>2, <2>1, RunningKeeps
<1>5. Key # Identity BY <1>1 DEF IInv, IdentityInv
<1>6. IdentityInv' BY <1>1, <1>2, <1>3, <1>5 DEF IInv, IdentityInv, HardenedBehindAWayIn
<1>7. MarkerInv'
  BY <1>1, <1>2, <1>3, <1>5 DEF IInv, MarkerInv, Unseen, Pending, CompletedIsDelivered
<1>8. DeliveryInv' BY <1>1, <1>2 DEF IInv, DeliveryInv, PrintedWorks
<1> QED BY <1>4, <1>6, <1>7, <1>8 DEF IInv

(* The identity step has not been recorded while it runs.                  *)
LEMMA KeyIsAhead ==
  ASSUME TypeOK
  PROVE  Key \notin Prefix(run.at - 1)
<1>1. run.at \in Indexes BY RunTypes DEF TypeOK
<1>2. run.at \in Nat /\ run.at - 1 \in 0..Count BY <1>1, IndexFacts
<1>3. ~(run.at <= run.at - 1) BY <1>2
<1> QED BY <1>1, <1>2, <1>3, Prefixes DEF Key

LEMMA ApplyIdentityAccessKeeps ==
  ASSUME TypeOK, IInv, ApplyIdentityAccess
  PROVE  IInv'
<1> USE DEF Placed, Asking, Running, storage, host, others
<1>1. /\ pc \in {"identity.password", "identity.mark"} /\ Key = Identity
      /\ pc' \in {"identity.mark", "record"} /\ UNCHANGED <<kept, made, wizard, helper>>
      /\ files'.ledger = files.ledger
  BY DEF ApplyIdentityAccess, IInv, IdentityInv, TypeOK, Files
<1>2. /\ run'.plan = run.plan /\ run'.at = run.at /\ run'.mode = run.mode
      /\ run'.wayIn = run.wayIn /\ run'.generated = run.generated /\ run'.own = run.own
  BY DEF ApplyIdentityAccess, TypeOK, Runs
<1>3. Key' = Key BY <1>2 DEF Key
<1>4. LedgerInv' /\ PlanInv' /\ BodiesInv' /\ WizardInv'
  <2>1. Makes(Key) \subseteq made BY <1>1 DEF IInv, BodiesInv
  <2> QED BY <1>1, <1>2, <2>1, RunningKeeps
<1>5. /\ Identity \in run.plan \ Prefix(run.at - 1) /\ Identity \notin files.ledger.steps
      /\ Identity \notin kept.ledger.steps
  BY <1>1, KeyIsAhead DEF IInv, PlanInv, MarkerInv, LedgerInv
<1>6. ~files.ledger.complete BY <1>1 DEF IInv, LedgerInv
<1>7. CASE pc = "identity.password"
  <2>1. /\ password' = IF run.generated THEN "current" ELSE "typed"
        /\ access' = "open" /\ files' = files
        /\ pc' = IF run.generated THEN "identity.mark" ELSE "record"
    BY <1>5, <1>7 DEF ApplyIdentityAccess, IInv, IdentityInv
  <2>2. IdentityInv' BY <1>1, <1>2, <1>3, <1>7, <2>1 DEF IInv, IdentityInv, HardenedBehindAWayIn
  <2>3. MarkerInv'
    BY <1>1, <1>2, <1>3, <1>5, <2>1
       DEF IInv, MarkerInv, Unseen, Pending, CompletedIsDelivered
  <2>4. DeliveryInv' BY <1>1, <1>2, <2>1 DEF DeliveryInv, PrintedWorks
  <2> QED BY <1>4, <2>2, <2>3, <2>4 DEF IInv
<1>8. CASE pc = "identity.mark"
  <2>1. /\ files'.marker = "dirty" /\ pc' = "record"
        /\ UNCHANGED <<access, password, run>>
    BY <1>8 DEF ApplyIdentityAccess, TypeOK, Files
  <2>2. IdentityInv' BY <1>1, <1>2, <1>3, <1>8, <2>1 DEF IInv, IdentityInv, HardenedBehindAWayIn
  <2>3. MarkerInv'
    BY <1>1, <1>2, <1>3, <1>5, <1>6, <2>1
       DEF IInv, MarkerInv, Unseen, Pending, CompletedIsDelivered
  <2>4. DeliveryInv' BY <1>1, <1>2, <1>8, <2>1 DEF IInv, DeliveryInv, PrintedWorks
  <2> QED BY <1>4, <2>2, <2>3, <2>4 DEF IInv
<1> QED BY <1>1, <1>7, <1>8

(* On to the next planned step: what lies in between is not planned.       *)
LEMMA AdvanceFacts ==
  ASSUME TypeOK, Advance
  PROVE  \/ /\ pc' = "step" /\ run' = [run EXCEPT !.at = run'.at]
            /\ run'.plan = run.plan /\ run'.mode = run.mode /\ run'.own = run.own
            /\ run'.wayIn = run.wayIn /\ run'.applied = run.applied
            /\ run'.generated = run.generated
            /\ Key' \in run.plan
            /\ Prefix(run'.at - 1) \cap run.plan \subseteq Prefix(run.at - 1) \cup {Key}
            /\ Prefix(run.at - 1) \cup {Key} \subseteq Prefix(run'.at - 1)
         \/ pc' \in {"idle", "prepare"} /\ run' \in {run, NoRun}
<1>1. run \in Runs /\ run.at \in Indexes BY RunTypes DEF TypeOK
<1>2. run.at + 1 \in 1..Count + 1 /\ (run.at + 1) - 1 = run.at /\ run.at \in 0..Count
  BY <1>1, IndexFacts
<1>3. Prefix(run.at) = Prefix(run.at - 1) \cup {Key} BY <1>1, Prefixes DEF Key
<1>4. CASE \E at \in RunsNext(run.plan, run.at + 1) :
             pc' = "step" /\ run' = [run EXCEPT !.at = at]
  <2>1. PICK at \in RunsNext(run.plan, run.at + 1) :
          pc' = "step" /\ run' = [run EXCEPT !.at = at]
    BY <1>4
  <2>2. /\ run'.at = at /\ run'.plan = run.plan /\ run'.mode = run.mode /\ run'.own = run.own
        /\ run'.wayIn = run.wayIn /\ run'.applied = run.applied
        /\ run'.generated = run.generated
    BY <1>1, <2>1 DEF Runs
  <2>3. /\ at \in Indexes /\ BaseSteps[at] \in run.plan /\ run.at + 1 <= at
        /\ Prefix(at - 1) \cap run.plan \subseteq Prefix((run.at + 1) - 1)
    BY <1>2, NextPlanned
  <2>4. Prefix(at - 1) \cap run.plan \subseteq Prefix(run.at) BY <1>2, <2>3
  <2>5. Prefix(run.at) \subseteq Prefix(at - 1)
    <3>1. /\ at \in Nat /\ at - 1 \in 0..Count /\ run.at \in Nat /\ run.at \in 0..Count
      BY <1>1, <2>3, IndexFacts
    <3>2. run.at <= at - 1 BY <3>1, <2>3
    <3> QED BY <3>1, <3>2, Prefixes
  <2>6. Key' \in run.plan BY <2>2, <2>3 DEF Key
  <2>7. run' = [run EXCEPT !.at = run'.at] BY <2>1, <2>2
  <2>8. /\ Prefix(run'.at - 1) \cap run.plan \subseteq Prefix(run.at - 1) \cup {Key}
        /\ Prefix(run.at - 1) \cup {Key} \subseteq Prefix(run'.at - 1)
    BY <1>3, <2>2, <2>4, <2>5
  <2> QED BY <2>1, <2>2, <2>6, <2>7, <2>8
<1>5. CASE IF run.mode = "bake" THEN pc' = "idle" /\ run' = NoRun
           ELSE pc' = "prepare" /\ UNCHANGED run
  BY <1>5
<1> QED BY <1>4, <1>5 DEF Advance

LEMMA RecordStepKeeps ==
  ASSUME TypeOK, IInv, RecordStep
  PROVE  IInv'
<1> USE DEF Placed, Asking, Running, storage, host, others
<1>0. run.at \in Indexes /\ run.mode \in Modes /\ run.plan \subseteq Keys
  BY RunTypes DEF TypeOK
<1>1. CASE pc = "record"
  <2>1. /\ pc' = "record.sync" /\ UNCHANGED <<kept, made, access, run, wizard, password, helper>>
        /\ files'.ledger = [files.ledger EXCEPT !.steps = @ \cup {Key}]
        /\ files'.marker = files.marker
    BY <1>1 DEF RecordStep, Rename, TypeOK, Files
  <2>2. /\ files'.ledger.steps = files.ledger.steps \cup {Key}
        /\ files'.ledger.dbcache = files.ledger.dbcache
        /\ files'.ledger.complete = files.ledger.complete
    BY <2>1, FilesTypes DEF TypeOK, Ledgers
  <2>3. Key' = Key BY <2>1 DEF Key
  <2>4. LedgerInv'
    <3>1. files.ledger.dbcache /\ ~files.ledger.complete BY <1>1 DEF IInv, LedgerInv
    <3>2. files.ledger.steps \cup {Key} \in ValidInstallProgress
      <4>1. files.ledger.steps \in ValidInstallProgress
        BY DEF IInv, LedgerInv, LedgerIsValid, ValidLedger
      <4>2. Key \in Selected(run.mode)
            /\ Prefix(run.at - 1) \cap Selected(run.mode) \subseteq files.ledger.steps
        BY <1>1 DEF IInv, PlanInv
      <4> QED BY <1>0, <4>1, <4>2, ValidGrows DEF Key
    <3>3. LedgerIsValid'
      BY <2>1, <2>2, <3>1, <3>2 DEF IInv, LedgerInv, LedgerIsValid, ValidLedger
    <3> QED BY <2>1, <2>2, <3>1, <3>3 DEF IInv, LedgerInv
  <2>5. PlanInv' BY <1>1, <2>1, <2>2, <2>3 DEF IInv, PlanInv
  <2>6. BodiesInv' BY <1>1, <2>1, <2>2, <2>3 DEF IInv, BodiesInv
  <2>7. IdentityInv'
    BY <1>1, <2>1, <2>2, <2>3 DEF IInv, IdentityInv, HardenedBehindAWayIn
  <2>8. WizardInv' BY <2>1 DEF WizardInv
  <2>9. MarkerInv'
    BY <1>1, <2>1, <2>2, <2>3
       DEF IInv, MarkerInv, LedgerInv, Unseen, Pending, CompletedIsDelivered
  <2>10. DeliveryInv' BY <1>1, <2>1 DEF IInv, DeliveryInv, PrintedWorks
  <2> QED BY <2>4, <2>5, <2>6, <2>7, <2>8, <2>9, <2>10 DEF IInv
<1>2. CASE pc # "record"
  <2>1. /\ pc = "record.sync" /\ Advance /\ DirectorySync
        /\ UNCHANGED <<made, access, wizard, password, helper>>
    BY <1>2 DEF RecordStep
  <2>2. LedgerRests /\ MarkerRests /\ files' = files BY <2>1, StoredKeeps DEF DirectorySync
  <2>3. pc' \in {"step", "idle", "prepare"} BY <2>1, AdvanceFacts
  <2>4. LedgerInv' BY <2>1, <2>2, <2>3, LedgerRestsKeeps DEF IInv, LedgerInv
  <2>5. CASE pc' = "step"
    <3>1. /\ run'.plan = run.plan /\ run'.mode = run.mode /\ run'.own = run.own
          /\ run'.wayIn = run.wayIn /\ run'.applied = run.applied
          /\ run'.generated = run.generated /\ Key' \in run.plan
          /\ Prefix(run'.at - 1) \cap run.plan \subseteq Prefix(run.at - 1) \cup {Key}
          /\ Prefix(run.at - 1) \cup {Key} \subseteq Prefix(run'.at - 1)
      BY <2>1, <2>5, AdvanceFacts
    <3>2. PlanInv'
      <4>1. Prefix(run'.at - 1) \cap Selected(run.mode) \subseteq files.ledger.steps
        BY <2>1, <3>1 DEF IInv, PlanInv
      <4> QED BY <2>1, <2>2, <2>5, <3>1, <4>1 DEF IInv, PlanInv
    <3>3. BodiesInv' BY <2>1, <2>2, <2>5, <3>1 DEF IInv, BodiesInv
    <3>4. IdentityInv'
      BY <2>1, <2>2, <2>5, <3>1 DEF IInv, IdentityInv, HardenedBehindAWayIn
    <3>5. WizardInv' BY <2>5 DEF WizardInv
    <3>6. MarkerInv'
      BY <2>1, <2>2, <2>5, <3>1
         DEF IInv, MarkerInv, LedgerRests, MarkerRests, Unseen, Pending, CompletedIsDelivered
    <3>7. DeliveryInv' BY <2>1, <2>5, <3>1 DEF IInv, DeliveryInv, PrintedWorks
    <3> QED BY <2>4, <3>2, <3>3, <3>4, <3>5, <3>6, <3>7 DEF IInv
  <2>6. CASE pc' \in {"idle", "prepare"}
    <3>1. run' \in {run, NoRun} BY <2>1, <2>6, AdvanceFacts
    <3>2. PlanInv' /\ BodiesInv' /\ IdentityInv' /\ WizardInv'
      BY <2>1, <2>2, <2>6, OutsideKeeps DEF IInv, IdentityInv, HardenedBehindAWayIn
    <3>3. MarkerInv'
      BY <2>1, <2>2, <2>6
         DEF IInv, MarkerInv, LedgerRests, MarkerRests, Unseen, Pending, CompletedIsDelivered
    <3>4. DeliveryInv' BY <2>1, <2>6, <3>1 DEF IInv, DeliveryInv, PrintedWorks, NoRun
    <3> QED BY <2>4, <3>2, <3>3, <3>4 DEF IInv
  <2> QED BY <2>3, <2>5, <2>6
<1> QED BY <1>1, <1>2

-------------------------------------------------------------------------------
(* The inductive invariant, and what it implies.                           *)

LEMMA InvStep ==
  ASSUME TypeOK, IInv, [Next]_vars
  PROVE  IInv'
<1>1. CASE BeginUnattended \/ BeginBake \/ BeginInteractive BY <1>1, BeginningKeeps
<1>2. CASE Decide \/ StartInstall \/ PersistDbCache \/ PersistDbCacheFails BY <1>2, AskingKeeps
<1>3. CASE QuitWizard \/ FnFails \/ GateFailed \/ Stop \/ PowerLoss BY <1>3, StoppedKeeps
<1>4. CASE Fn BY <1>4, FnKeeps
<1>5. CASE VerifyTorRouting BY <1>5, VerifyTorRoutingKeeps
<1>6. CASE ApplyIdentityAccess BY <1>6, ApplyIdentityAccessKeeps
<1>7. CASE RecordStep BY <1>7, RecordStepKeeps
<1>8. CASE \/ Prepare \/ Reapply \/ PrintGeneratedPassword \/ ClearPasswordPendingMarkerStrict
           \/ PublishTerminalLedger
  BY <1>8, EndingKeeps
<1>9. CASE SetUserPassword \/ ClearPasswordPendingMarker \/ Writeback \/ Refuse \/ UNCHANGED vars
  BY <1>9, BesideKeeps DEF Refuse
<1> QED
  BY <1>1, <1>2, <1>3, <1>4, <1>5, <1>6, <1>7, <1>8, <1>9 DEF Next, PassStep

LEMMA InvInit ==
  ASSUME Init
  PROVE  IInv
<1> USE DEF Init, Placed, Asking, Running
<1>1. LedgerInv
  <2>1. ValidLedger(Initial) BY NothingIsValid DEF ValidLedger, Initial
  <2> QED BY <2>1 DEF LedgerInv, LedgerIsValid, Initial
<1>2. PlanInv /\ WizardInv BY DEF PlanInv, WizardInv
<1>3. BodiesInv BY DEF BodiesInv, Initial
<1>4. IdentityInv BY DEF IdentityInv, HardenedBehindAWayIn, Initial
<1>5. MarkerInv BY DEF MarkerInv, Unseen, CompletedIsDelivered, Initial
<1>6. DeliveryInv BY DEF DeliveryInv, PrintedWorks, NoRun
<1> QED BY <1>1, <1>2, <1>3, <1>4, <1>5, <1>6 DEF IInv

(* A planned step finds its needs: a fact comes from a step before it; one *)
(* that is left on the host is there since that step was recorded, and one *)
(* of this process since a gate, or a member of the group, ran in it.      *)
LEMMA NeedIsMet ==
  ASSUME TypeOK, IInv, pc = "step",
         NEW fact \in Needs(Key), fact \notin made \cup run.own
  PROVE  run.mode = "bake" /\ fact = "admin"
<1>1. run.at \in Indexes /\ run.mode \in Modes BY RunTypes DEF TypeOK
<1>2. fact \in Steps[run.at].body.needs BY <1>1, StepFacts DEF Key
<1>3. PICK j \in Providers(run.at, fact) :
        Steps[run.at].phase = "bake" => Steps[j].phase = "bake" \/ fact = "admin"
  BY <1>1, <1>2, BodiesAssumption DEF Indexes, Count
<1> DEFINE k == BaseSteps[j]
<1>4. j \in 1..run.at - 1 BY DEF Providers
<1>5. j \in Indexes BY <1>1, <1>4, IndexFacts DEF Indexes
<1>6. k \in Prefix(run.at - 1) /\ k \in Keys BY <1>4, <1>5, KeysOfSteps DEF Prefix
<1>7. Key \in run.plan /\ Key \in Selected(run.mode) BY DEF IInv, PlanInv, Placed, Running
<1>8. SUFFICES ASSUME k \in Selected(run.mode) PROVE FALSE
  <2>1. CASE run.mode # "bake" BY <1>6, <1>8, <2>1 DEF Selected
  <2>2. CASE run.mode = "bake"
    <3>1. Key \notin FirstBootKeys BY <1>7, <2>2 DEF Selected
    <3>2. Steps[run.at].phase = "bake"
      BY <1>1, <3>1, StepFacts, StepsAssumption DEF Key, Indexes, Count
    <3>3. k \in FirstBootKeys BY <1>6, <1>8, <2>2 DEF Selected
    <3>4. Steps[j].phase = "first-boot" BY <1>5, <3>3, StepFacts
    <3> QED BY <1>3, <2>2, <3>2, <3>4
  <2> QED BY <2>1, <2>2
<1>9. CASE fact \in Steps[j].body.makes
  <2>1. k \in files.ledger.steps
    BY <1>6, <1>8 DEF IInv, PlanInv, Placed, Running
  <2>2. fact \in Makes(k) BY <1>5, <1>9, StepFacts
  <2> QED BY <2>1, <2>2 DEF IInv, BodiesInv
<1>10. CASE fact \notin Steps[j].body.makes
  <2>1. /\ fact \in Steps[j].body.own
        /\ \/ Steps[j].kind = "gate"
           \/ Steps[j].group = Steps[run.at].group /\ Steps[run.at].group # ""
    BY <1>3, <1>10 DEF Providers
  <2>2. fact \in Own(k) BY <1>5, <2>1, StepFacts
  <2>3. k \in run.plan
    <3>1. CASE Steps[j].kind = "gate"
      <4>1. k \in GateKeys BY <1>5, <3>1, StepFacts
      <4> QED BY <1>8, <4>1 DEF IInv, PlanInv, Placed, Running
    <3>2. CASE Steps[j].group = Steps[run.at].group /\ Steps[run.at].group # ""
      <4>1. GroupOf(k) = Steps[j].group /\ GroupOf(Key) = Steps[run.at].group
        BY <1>1, <1>5, StepFacts DEF Key
      <4>2. GroupOf(k) = GroupOf(Key) /\ GroupOf(Key) # "" BY <3>2, <4>1
      <4> QED BY <1>6, <1>7, <4>2 DEF IInv, PlanInv, Placed, Running
    <3> QED BY <2>1, <3>1, <3>2
  <2>4. k # Identity
    <3>1. k \in GateKeys \/ GroupOf(k) # "" BY <1>5, <2>1, StepFacts
    <3> QED BY <3>1, IdentityFacts
  <2>5. Own(k) \subseteq run.own
    BY <1>6, <2>3, <2>4 DEF IInv, BodiesInv, Placed, Running
  <2> QED BY <2>2, <2>5
<1> QED BY <1>9, <1>10

LEMMA NeedsAreMet ==
  ASSUME TypeOK, IInv
  PROVE  DeployedStepsFindTheirNeeds
<1>1. SUFFICES ASSUME pc = "step", ~FindsItsNeeds
               PROVE  run.mode = "bake" /\ Needs(Key) \ (made \cup run.own) = {"admin"}
  BY DEF DeployedStepsFindTheirNeeds
<1>2. ASSUME NEW fact \in Needs(Key) \ (made \cup run.own)
      PROVE  run.mode = "bake" /\ fact = "admin"
  BY <1>1, NeedIsMet
<1>3. PICK missing \in Needs(Key) : missing \notin made \cup run.own
  BY <1>1 DEF FindsItsNeeds
<1> QED BY <1>2, <1>3

(* The invariant that the safety properties follow from, over every pass.  *)
THEOREM InstallerInvariant == Spec => [](TypeOK /\ IInv)
<1>1. Init => IInv BY InvInit
<1>2. TypeOK /\ IInv /\ [Next]_vars => IInv' BY InvStep
<1>3. Spec => []TypeOK BY TypeCorrect
<1> QED BY <1>1, <1>2, <1>3, PTL DEF Spec

(* Every ledger that is or may become visible is one that the next run     *)
(* accepts (validateLedger): whatever is stopped where, the records are a  *)
(* prefix of the full run and a prefix of the bake.                        *)
THEOREM LedgerAccepted == Spec => []LedgerIsValid
<1>1. IInv => LedgerIsValid BY DEF IInv, LedgerInv
<1> QED BY <1>1, InstallerInvariant, PTL

(* A planned step finds what it uses, but for the admin user in a bake     *)
(* (planRun).                                                              *)
THEOREM NeedsFound == Spec => []DeployedStepsFindTheirNeeds
<1>1. TypeOK /\ IInv => DeployedStepsFindTheirNeeds BY NeedsAreMet
<1> QED BY <1>1, InstallerInvariant, PTL

(* The root login is closed only behind a way in for the admin user        *)
(* (strandsBox, updateAccess).                                             *)
THEOREM WayInFirst == Spec => []HardenedBehindAWayIn
<1>1. IInv => HardenedBehindAWayIn BY DEF IInv, IdentityInv
<1> QED BY <1>1, InstallerInvariant, PTL

(* A completed ledger and a pending password delivery never meet, not even *)
(* after a power loss (classifyLifecycleState).                            *)
THEOREM DeliveredBeforeComplete == Spec => []CompletedIsDelivered
<1>1. IInv => CompletedIsDelivered BY DEF IInv, MarkerInv
<1> QED BY <1>1, InstallerInvariant, PTL

(* A password that nobody has seen stays owed (markPasswordPending).       *)
THEOREM UnseenStaysOwed == Spec => []UnseenIsPending
<1>1. IInv => UnseenIsPending BY DEF IInv, MarkerInv, UnseenIsPending, Unseen
<1> QED BY <1>1, InstallerInvariant, PTL

(* What is printed is the password that works (printGeneratedPassword).    *)
THEOREM PrintedPasswordWorks == Spec => []PrintedWorks
<1>1. IInv => PrintedWorks BY DEF IInv, DeliveryInv, PrintedWorks
<1> QED BY <1>1, InstallerInvariant, PTL
===============================================================================
