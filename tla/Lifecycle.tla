------------------------------- MODULE Lifecycle ------------------------------
(***************************************************************************)
(* How `vpn install` publishes the private tree that makes it resumable    *)
(* (internal/installer/lifecycle.go, the start of RunInstall in setup.go): *)
(* a bootstrap file whose name carries the network, two directories, the   *)
(* ledger, the layout version, and the removal of the bootstrap file; and  *)
(* how the next run reads what an interrupted one left behind.             *)
(*                                                                         *)
(* Every name has a visible and a durable state.  fsync of a directory     *)
(* makes its names durable; on a file system with one ordered journal it   *)
(* commits every earlier change as well (OrderedJournal).  A run may stop  *)
(* at any call, by its error or by its death, and the power may fail.      *)
(***************************************************************************)
EXTENDS Naturals

CONSTANTS Networks,         \* mainnet, testnet4, public-signet
          Mainnet,          \* the network of a run without a flag
          OrderedJournal,
          Records,          \* ledger writes that follow its publication
          MaxInterruptions  \* runs that stop early, power losses

None == "none"
ASSUME NetworkAssumption == Mainnet \in Networks /\ None \notin Networks
ASSUME JournalAssumption == OrderedJournal \in BOOLEAN
ASSUME RecordsAssumption == Records \in Nat \ {0}
ASSUME InterruptionBound == MaxInterruptions \in Nat

VARIABLES
  seen,  \* the tree as the running system sees it
  kept,  \* the tree a power loss returns to
  pc,    \* the next call of the running install; "idle" when none runs
  ctx,   \* the network it installs for
  interruptions

vars == <<seen, kept, pc, ctx, interruptions>>

(* The names and the directory that holds each: a directory's own mode is  *)
(* made durable by an fsync of that directory.                             *)
Directories == {"/var/lib", "/var/lib/vpn", "/var/lib/vpn/private", "host"}
Holder ==
  [boot |-> "/var/lib", lib |-> "/var/lib",
   open |-> "/var/lib/vpn", private |-> "/var/lib/vpn",
   ledgerStage |-> "/var/lib/vpn/private", ledger |-> "/var/lib/vpn/private",
   network |-> "/var/lib/vpn/private",
   layoutStage |-> "/var/lib/vpn/private", layout |-> "/var/lib/vpn/private",
   evidence |-> "host"]

(* A ledger holds the initial state, or some of the records that follow;   *)
(* the last of them is its terminal status.                                *)
NoLedger == 0
Initial == 1
Complete == Records + 1
Ledgers == NoLedger..Complete

Trees ==
  [boot : Networks \cup {None},    \* the bootstrap file
   lib : BOOLEAN,                  \* /var/lib/vpn exists,
   open : BOOLEAN,                 \*   with mode 0755 rather than 0700
   private : BOOLEAN,              \* /var/lib/vpn/private exists
   ledgerStage : BOOLEAN, ledger : Ledgers,
   network : Networks \cup {None}, \* the ledger's network
   layoutStage : BOOLEAN, layout : BOOLEAN,
   evidence : BOOLEAN]             \* users, services, /etc/vpn: what steps make

Empty == [boot |-> None, lib |-> FALSE, open |-> FALSE, private |-> FALSE,
          ledgerStage |-> FALSE, ledger |-> NoLedger, network |-> None,
          layoutStage |-> FALSE, layout |-> FALSE, evidence |-> FALSE]

Labels ==
  {"idle", "boot.create", "boot.sync", "lib.make", "lib.secure", "lib.mode",
   "lib.secure.new", "lib.sync", "private.make", "private.mode", "private.secure.new",
   "private.sync", "ledger.clean", "ledger.cleaned", "ledger.stage", "ledger.rename",
   "ledger.sync", "layout.clean", "layout.cleaned", "layout.stage", "layout.rename",
   "layout.sync", "tree.open", "tree.sync", "boot.remove", "boot.removed",
   "step.apply", "step.record", "step.sync", "done"}

Init == seen = Empty /\ kept = Empty /\ pc = "idle" /\ ctx = None /\ interruptions = 0

-------------------------------------------------------------------------------
(* classifyLifecycleState.                                                 *)

(* validateBootstrapTree                                                   *)
BootstrapTree(t) ==
  t.lib /\ t.private =>
    /\ t.ledgerStage => t.ledger = NoLedger /\ ~t.layoutStage /\ ~t.layout
    /\ t.ledger # NoLedger => t.ledger = Initial /\ t.network = t.boot
    /\ t.layoutStage => t.ledger # NoLedger /\ ~t.layout
    /\ t.layout => t.ledger # NoLedger

(* A marked tree whose modes, ledger and lack of staging residue are in    *)
(* order.                                                                  *)
MarkedTree(t) == t.open /\ t.ledger # NoLedger /\ ~t.ledgerStage /\ ~t.layoutStage

Marked(t) == t.lib /\ t.private /\ t.layout

Disposition(t) ==
  IF t.boot # None
  THEN IF ~t.evidence /\ BootstrapTree(t) THEN "bootstrap" ELSE "refused"
  ELSE IF ~Marked(t)
  THEN IF ~t.lib /\ ~t.evidence THEN "pristine" ELSE "refused"
  ELSE IF ~MarkedTree(t) THEN "refused"
  ELSE IF t.ledger = Complete THEN "completed" ELSE "resumable"

(* The network the disposition speaks for.                                 *)
Context(t) == IF t.boot # None THEN t.boot ELSE IF Marked(t) THEN t.network ELSE None

-------------------------------------------------------------------------------
(* Calls on the file system.                                               *)

Synced(d) == [n \in DOMAIN Holder |->
                IF Holder[n] = d \/ OrderedJournal THEN seen[n] ELSE kept[n]]

Call(l, next, tree) ==
  /\ pc = l /\ pc' = next /\ seen' = tree
  /\ UNCHANGED <<kept, ctx, interruptions>>

(* syncLifecycleDir                                                        *)
Sync(l, d, next) ==
  /\ pc = l /\ pc' = next /\ kept' = Synced(d)
  /\ UNCHANGED <<seen, ctx, interruptions>>

-------------------------------------------------------------------------------
(* Mutant: a bootstrap that is found is left to the operator.              *)
StartWithoutResume(flag) ==
  /\ pc = "idle"
  /\ \/ /\ Disposition(seen) = "pristine" /\ pc' = "boot.create"
        /\ ctx' = IF flag = None THEN Mainnet ELSE flag
     \/ /\ Disposition(seen) = "resumable" /\ flag \in {None, Context(seen)}
        /\ ctx' = Context(seen) /\ pc' = "step.apply"
     \/ Disposition(seen) \in {"bootstrap", "completed"} /\ UNCHANGED <<pc, ctx>>
  /\ UNCHANGED <<seen, kept, interruptions>>

(* RunInstall up to the first step; flag is --testnet4, --signet or none.  *)
Start(flag) ==
  /\ pc = "idle"
  /\ LET d == Disposition(seen)
         n == Context(seen)
     IN  \/ /\ d = "pristine" /\ pc' = "boot.create"
            /\ ctx' = IF flag = None THEN Mainnet ELSE flag
         \/ /\ d = "bootstrap" /\ flag \in {None, n} /\ ctx' = n
            /\ pc' = "lib.make"
         \/ /\ d = "resumable" /\ flag \in {None, n} /\ ctx' = n
            /\ pc' = "step.apply"
         \/ /\ d = "completed" /\ UNCHANGED <<pc, ctx>>  \* already installed
  /\ UNCHANGED <<seen, kept, interruptions>>

RunInstall == \E flag \in (Networks \ {Mainnet}) \cup {None} : Start(flag)

(* initializeLifecycle: O_EXCL creation and its directory.                 *)
InitializeLifecycle ==
  \/ seen.boot = None /\ Call("boot.create", "boot.sync", [seen EXCEPT !.boot = ctx])
  \/ Sync("boot.sync", "/var/lib", "lib.make")

(* completeLifecycleBootstrap, part by part.  A directory that is created  *)
(* is also synced into its parent; one that is found gets its mode back.   *)
MakeDirectories ==
  \/ /\ Disposition(seen) = "bootstrap" /\ seen.boot = ctx
     /\ IF seen.lib THEN Call("lib.make", "lib.secure", seen)
        ELSE Call("lib.make", "lib.secure.new", [seen EXCEPT !.lib = TRUE])
  \/ Call("lib.secure", "lib.mode", [seen EXCEPT !.open = FALSE])
  \/ Sync("lib.mode", "/var/lib/vpn", "private.make")
  \/ Sync("lib.secure.new", "/var/lib/vpn", "lib.sync")
  \/ Sync("lib.sync", "/var/lib", "private.make")
  \/ IF seen.private THEN Call("private.make", "private.mode", seen)
     ELSE Call("private.make", "private.secure.new", [seen EXCEPT !.private = TRUE])
  \/ Sync("private.mode", "/var/lib/vpn/private", "ledger.clean")
  \/ Sync("private.secure.new", "/var/lib/vpn/private", "private.sync")
  \/ Sync("private.sync", "/var/lib/vpn", "ledger.clean")

(* publishBootstrapPayload of the initial ledger: residue goes first.      *)
PublishLedger ==
  \/ IF seen.ledgerStage
     THEN Call("ledger.clean", "ledger.cleaned", [seen EXCEPT !.ledgerStage = FALSE])
     ELSE Call("ledger.clean", "ledger.stage", seen)
  \/ Sync("ledger.cleaned", "/var/lib/vpn/private", "ledger.stage")
  \/ IF seen.ledger = NoLedger
     THEN Call("ledger.stage", "ledger.rename", [seen EXCEPT !.ledgerStage = TRUE])
     ELSE /\ seen.ledger = Initial /\ seen.network = ctx
          /\ Call("ledger.stage", "layout.clean", seen)
  \/ Call("ledger.rename", "ledger.sync",
          [seen EXCEPT !.ledgerStage = FALSE, !.ledger = Initial, !.network = ctx])
  \/ Sync("ledger.sync", "/var/lib/vpn/private", "layout.clean")

(* ... and of the layout version.                                          *)
PublishLayout ==
  \/ IF seen.layoutStage
     THEN Call("layout.clean", "layout.cleaned", [seen EXCEPT !.layoutStage = FALSE])
     ELSE Call("layout.clean", "layout.stage", seen)
  \/ Sync("layout.cleaned", "/var/lib/vpn/private", "layout.stage")
  \/ IF seen.layout THEN Call("layout.stage", "tree.open", seen)
     ELSE Call("layout.stage", "layout.rename", [seen EXCEPT !.layoutStage = TRUE])
  \/ Call("layout.rename", "layout.sync",
          [seen EXCEPT !.layoutStage = FALSE, !.layout = TRUE])
  \/ Sync("layout.sync", "/var/lib/vpn/private", "tree.open")

(* Mutant: the mode of /var/lib/vpn is not made durable.                   *)
OpenTreeUnsynced == Call("tree.open", "boot.remove", [seen EXCEPT !.open = TRUE])

OpenTree ==
  \/ Call("tree.open", "tree.sync", [seen EXCEPT !.open = TRUE])
  \/ Sync("tree.sync", "/var/lib/vpn", "boot.remove")

(* Mutant: nor is the removal of the bootstrap file.                       *)
RemoveBootstrapUnsynced ==
  seen.boot = ctx /\ Call("boot.remove", "step.apply", [seen EXCEPT !.boot = None])

RemoveBootstrap ==
  \/ seen.boot = ctx /\ Call("boot.remove", "boot.removed", [seen EXCEPT !.boot = None])
  \/ Sync("boot.removed", "/var/lib", "step.apply")

(* What follows: each step changes the host, then publishes the ledger by  *)
(* a rename and an fsync; the last record is the terminal status.          *)
RecordSteps ==
  \/ Call("step.apply", "step.record", [seen EXCEPT !.evidence = TRUE])
  \/ Call("step.record", "step.sync", [seen EXCEPT !.ledger = @ + 1])
  \/ Sync("step.sync", "/var/lib/vpn/private",
          IF seen.ledger = Complete THEN "done" ELSE "step.apply")
  \/ Call("done", "idle", seen)

InstallStep ==
  \/ InitializeLifecycle \/ MakeDirectories \/ PublishLedger \/ PublishLayout
  \/ OpenTree \/ RemoveBootstrap \/ RecordSteps

-------------------------------------------------------------------------------
(* Interruptions.                                                          *)

Interrupt == interruptions < MaxInterruptions /\ interruptions' = interruptions + 1

(* A call returns an error, or the process dies; the run lock goes with it. *)
Stop ==
  /\ pc # "idle" /\ pc' = "idle" /\ Interrupt
  /\ UNCHANGED <<seen, kept, ctx>>

(* The kernel writes a directory back on its own.                          *)
Writeback(d) ==
  /\ kept' = Synced(d) /\ kept' # kept
  /\ UNCHANGED <<seen, pc, ctx, interruptions>>

(* A directory that is not durable takes what it holds with it.            *)
Survives(n) ==
  /\ Holder[n] \in {"/var/lib/vpn", "/var/lib/vpn/private"} => kept.lib
  /\ Holder[n] = "/var/lib/vpn/private" => kept.private
Survivors == [n \in DOMAIN Holder |-> IF Survives(n) THEN kept[n] ELSE Empty[n]]

PowerLoss ==
  /\ seen' = Survivors /\ kept' = Survivors
  /\ pc' = "idle" /\ Interrupt
  /\ UNCHANGED ctx

Next == RunInstall \/ InstallStep \/ Stop \/ PowerLoss
          \/ \E d \in Directories : Writeback(d)

Spec == Init /\ [][Next]_vars
-------------------------------------------------------------------------------
TypeOK ==
  /\ seen \in Trees /\ kept \in Trees
  /\ pc \in Labels /\ ctx \in Networks \cup {None}
  /\ interruptions \in 0..MaxInterruptions

(* Whatever an interruption or a power loss leaves behind, the next run    *)
(* recognises it: no reachable tree is one the installer refuses to touch  *)
(* (classifyLifecycleState).                                               *)
NeverRefused == Disposition(seen) # "refused"

(* What the tree tells the next run keeps the promises of InstallAuthority *)
(* (classifyLifecycleState over the trees that completeLifecycleBootstrap  *)
(* and the step records leave): the network of a claimed lifecycle never   *)
(* changes, and neither recorded steps nor completion are ever forgotten.  *)
Assured ==
  LET ledger == Survivors.ledger
  IN  IF ledger = Complete THEN "completion"
      ELSE IF ledger > Initial THEN "steps" ELSE "nothing"
Authority == INSTANCE InstallAuthority
  WITH disposition <- Disposition(seen), network <- Context(seen), assured <- Assured
AuthorityHolds == Authority!Spec

-------------------------------------------------------------------------------
(* A run that does not stop goes on, and an operator who does not pass a   *)
(* flag runs an interrupted installation again.                            *)
Fairness == WF_vars(InstallStep) /\ WF_vars(Start(None))
FairSpec == Spec /\ Fairness

(* Interruptions that come to an end delay an installation and never leave *)
(* it half way: some run completes it (RunInstall).                        *)
Completes == <>[](Disposition(seen) = "completed")
===============================================================================
