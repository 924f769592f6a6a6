# Virtual Private Node: specifications and proofs

Virtual Private Node turns a Debian machine into a Bitcoin and Lightning node
behind Tor. This directory holds TLA+ modules translated from its Go source,
the TLC configurations that check them on small instances, and TLAPS proofs of
the properties that matter most for every value of the constants.

`PROJECT.json` lists the components, the runs, the theorems, the source lines
behind each definition, the hazards, the findings, and for each checked
property one plausible bug of the code that the property catches (the operators
marked "Mutant" in the modules).

## 1. The system

| Component | State it keeps | Operations | Talks to |
|---|---|---|---|
| Install lifecycle (`installer/lifecycle.go`) | bootstrap file `/var/lib/vpn-bootstrap-<network>`, `/var/lib/vpn`, `private/` with ledger and layout version | classify what an earlier run left; initialise; complete a bootstrap | engine, which it authorises |
| Install engine and ledger (`installer/{engine,ledger,setup,identity,passwordpending}.go`) | the ledger of steps, the password-pending marker, `/etc/vpn/config.json` | plan a pass, run and record steps, finalise, deliver a generated password | every step; the helper's set-user-password meanwhile |
| Installer wizard (`installer/wizard.go`) | pages, selected keys, the decisions of a pass | choose keys, password and hardware, record the database cache | engine |
| Step bodies (`installer/{host,tor,bitcoin,lnd,verify,sshd,shell,...}.go`) | what they install on the host | the 29 steps of `buildInstallSteps` | apt, systemd, Tor, the network |
| Tor gate (`installer/torgate.go`) | polling clocks | wait for bootstrap, probe the exit | engine |
| Wallet auto-unlock (`installer/lnd_auto_unlock.go`) | LND's unit, its verification drop-in, the stored wallet password, `autoUnlock` in the configuration | enable, disable, two recoveries | systemd, LND, the operator's manual unlock |
| SSH access (`installer/{sshkeys,sshd,sshstep}.go`, the SSH screens) | `authorized_keys`, the sshd drop-in, the running sshd | add a key, remove a key, switch password authentication | helper (for root's part), provider tooling |
| Root helper (`helperd`, `helper`) | one connection at a time, the staging board `/var/lib/vpn/state` | about twenty verbs, each with the facts it re-stages | TUI sessions, systemd socket activation |
| LND client (`lndrpc`) | one gRPC connection, staged certificate and macaroon, a process-wide repair limit | connect, reconnect, repair credentials | helper, LND |
| Channel backup publisher (`installer/lnd_backup_export_linux.go`) | stage and export directories | publish one backup | LND, Syncthing, systemd's path watch |
| Syncthing add-on (`installer/syncthing.go`) | unit, configuration, residue, devices and shares | install, pair, remove a device | helper, the daemon's REST interface |
| Money workflows (`app`) | prepared requests | prepare, confirm, submit at most once | LND client, screens |
| Terminal interface (`tui`) | sections, tabs, screens, results in flight | key handling, message routing | all of the above |
| Configuration, preferences (`config`) | two files | load, validate, save | everything |

The program is three kinds of process. `vpn install` runs as root, one at a
time under a run lock, and may be stopped and run again. The root helper is
started by systemd when somebody connects and serves one request at a time. Any
number of TUI sessions run as the admin user, who may open several SSH
connections; they share files and the helper, and nothing orders them. systemd
starts small services beside them: the publisher of LND's backups, the watch
that stages LND's certificate.

### What is hard

* **Stops and power losses.** Everything the installer and the auto-unlock
  transition do is a sequence of renames, unlinks and fsyncs with an
  irreversible point somewhere in the middle. The next run starts from whatever
  is left.
* **Failed calls and their recoveries**, which may fail as well.
* **Two sources of truth.** The unit on the disk, the unit systemd has loaded
  and the running LND; the sshd configuration and the running sshd; the ledger
  and the world it describes.
* **Sessions that interleave** between a check and the write it allows.
* **Replies that are lost**, requests that outlive the client, results that
  arrive at a screen that has moved on.

### What makes each part correct

* Lifecycle: whatever an interruption leaves, the next run recognises, for the
  same network; recorded work is never forgotten.
* Engine, steps, wizard, gate: a ledger is always one that validates; a step
  that runs finds what it uses, whatever was resumed; root's login is closed only
  behind a way in; a generated password reaches somebody; the gate never lets a
  pass through early and never keeps it for ever.
* Auto-unlock: LND never restarts in a loop on a password that does not open
  its wallet; the answer describes the node, also after a power loss; retries
  end.
* SSH: no step of the program closes the last way in; no operation waits
  forever.
* Helper: a request has one true answer or a visible lack of one; requests are
  served in turn, by the newest binary; a published setting is one the node
  serves.
* LND client: a stale credential is eventually replaced, at a bounded rate.
* Backup: the export is always a content that LND's file had at one moment, never
  an older one than before, and an answer means that it is durable; a device the
  operator was told is paired gets it, unless two requests to pair met.
* Money workflows: what is submitted was reviewed, for the request the form
  holds; a call in progress keeps its screen and its answer reaches it.
* Screens: a screen that waits hears its answer, unless another of its kind is
  open; settings are shown as they are, as far as this session could know; indexes
  into the tabs hold, whatever is opened and closed meanwhile.

## 2. Modules

| Module | Models | Extends / uses |
|---|---|---|
| `AutoUnlock` | the auto-unlock transition with systemd, LND and two layers of files | |
| `AutoUnlockProofs` | its type invariant and safety | `AutoUnlock` |
| `InstallAuthority` | abstract: what the tree promises to the next run | |
| `Lifecycle` | the publication of the private tree call by call | instance of `InstallAuthority` |
| `MCLifecycle` | the same on two kinds of file system | `Lifecycle`, and an instance of it |
| `LifecycleProofs` | recognition of every tree; the refinement | `Lifecycle` |
| `StepBodies` | the 29 base steps: what each needs and leaves | |
| `TorGate` | the wait for Tor and the exit probe | |
| `InstallWizard` | the decisions of an interactive pass | |
| `Installer` | passes over a published lifecycle: planning, steps, ledger, password delivery | `TorGate`, `InstallWizard` |
| `MCInstaller` | the installer with the steps of the code | `Installer`, `StepBodies` |
| `InstallerProofs` | the ledger, the needs of the steps, the way in and the password of every pass | `Installer` |
| `SSHAccess` | keys, drop-in, sshd, sessions, the helper's rebuild | |
| `SSHAccessProofs` | the last way in, under the conditions it needs | `SSHAccess` |
| `RequestService` | abstract: what a client may conclude from an answer | |
| `Helper` | the helper, its clients, P2P upgrade, self-update, LND's certificate and the LND client | instance of `RequestService` |
| `BackupExport` | the publishers of LND's channel.backup and the unit that starts them | |
| `SyncthingAddon` | the add-on's installation and the pairing of devices | |
| `ChannelBackup` | both, as one node | `BackupExport`, `SyncthingAddon` |
| `MCChannelBackup` | the part of it that TLC explores | `ChannelBackup` |
| `HelperProofs` | the helper implements `RequestService`; the newest binary serves; a published P2P mode is served | `Helper` |
| `ChannelBackupProofs` | the export is a backup, durable when answered, never older, current when quiet; paired devices get it | `ChannelBackup` |
| `TabBar` | sections, tabs, focus and the messages screens send to the frame | |
| `Payments` | the four workflows that move money, in that frame | `TabBar` |
| `PaymentsProofs` | tabs and their indexes hold; reviews, submissions and their calls belong together and keep their tabs | `Payments` |
| `Screens` | thirteen screens of the system and add-on sections, in that frame | `TabBar` |
| `MCScreens` | the part of it that TLC explores | `Screens` |
| `ScreensProofs` | settings are shown as this session could know them; a screen that waits stays in view until its answer comes, and hears it unless it has a rival | `Screens` |

### AutoUnlock

`disk` and `durable` are the visible and the durable version of the unit, the
password, its staging name, the drop-in and `autoUnlock`; a power loss picks
either version of each name. `loaded` is the unit systemd has read, `lnd` the
service. `pc` names the call the transition makes next; the prefix of a label
is the Go function (`enable.*` is `enableAutoUnlock`, `relock.*` is
`replaceWithLockedPlainInvocation`, `restoreDisabled.*`, `disable.*`,
`finish.*`, `restoreEnabled.*`). A line such as

    Write("enable.unit", "unit", "enabled", To("enable.arm"), VerifyFail)

is one call in the order of the code: what it does, where success goes, where
its error goes. The primitives (`Write`, `WritePassword`, `RemovePassword`,
`Reload`, `Stop`, `Start`, `Wait`) are the members of `autoUnlockOps`; each may
fail, before or after its effect where the code can tell neither. Calls whose
results nothing depends on are left out. A write of the drop-in that fails, is
interrupted or loses power may leave its temporary file in the drop-in's
directory (`residue`, `DropWrites`); the inspection that every transition begins
with (`Inspectable`) then refuses it. `job` keeps the local variables that
survive from one call to a later decision. Around the transition run systemd's
automatic restart, LND crashes, the operator's manual unlock, service actions,
kernel writeback, the helper's death and power losses.

A wallet password is `good` or `bad` against the wallet: what matters is
whether it opens it.

### Lifecycle and InstallAuthority

`seen` and `kept` are the visible and the durable tree: for each name whether
it exists, for the ledger how many records it holds, for the directory its
mode. `Holder` gives the directory whose fsync makes a name durable. With
`OrderedJournal` an fsync also commits everything older (one ordered journal,
as ext4's default); without it every directory is durable on its own, and each
fsync in the code counts. `Disposition` is `classifyLifecycleState`; the
actions are the calls of `initializeLifecycle`, `completeLifecycleBootstrap`,
its helpers and the ledger's `save`. `MCLifecycle` chooses the kind of file
system in the initial state, so that one run checks both.

`InstallAuthority` says what the next run may rely on: a network is claimed, a
tree is published, records become assured, a power loss takes back only what is
not assured, and no state is refused. `AuthorityHolds` instantiates it with the
disposition, the network, and what the durable tree assures.

### Installer, StepBodies, TorGate, InstallWizard

A pass has a mode, a plan (`planRun`) and a position. Recording a step is a
rename and an fsync (`RecordStep`), the generated password is applied, marked,
printed and cleared by separate calls, and the terminal ledger goes last. The
marker `dirty` has a name without durable data; a directory fsync by the ledger
makes the name durable, so a power loss may leave it `torn`. `password` says
what is known of the login password: typed by the operator, shown, generated by
this pass, or generated by an earlier pass and seen by nobody. With
`OperatorInTUI` the helper's set-user-password runs at any moment that the
configuration exists, because it takes no install lock.

`StepBodies` gives each step of `buildInstallSteps` its key, kind, group and
phase, and its function as three sets of facts: what the function uses, what it
leaves on the host (`made`), and what belongs to this process alone (`run.own`:
the working directory a closure captured, the routing this process verified).
`Then(f, g)` is one function after the other. The ledger says nothing of these
facts, which is the point: whether a planned step finds what it uses is a
property of plans, groups, gates, phases and stops together. A step is done, or
fails after any part of what it makes.

The Tor gate is the step that takes time. `TorGate` follows `keepWaitingForTor`
and the exit probe against a Tor that answers each poll as it likes: progress,
less than before, or nothing. Time is counted in polls, and only the order of
the windows matters (a stall window shorter than the ceiling).
`InstallWizard` has the pages of the wizard up to its first step, with Back and
Continue; the keys it ends with decide whether the identity step leaves a way
in (`access`).

### SSHAccess

`lines` counts the lines of `authorized_keys` that hold each key, since the code
counts lines in one place and drops fingerprints in another. `dropin` and
`rest` make up the configuration on the disk, `sshd` is what the running sshd
elects. Each session's `pc` stops between its reads, its question to the helper
and its rename; the helper runs `RebuildSSHHardeningConfig` call by call and
answers `sshd -T` questions only between requests. Every call may fail, the
restoring of a rejected drop-in and the restart too, and the helper may die at
any of them. `apart` remembers that such a request has left files which the
running sshd was not started from; sshd may be started from outside at any time
between requests, which ends it. `Faults` names the disturbances a configuration
allows.

### Helper and RequestService

A slot is a connection: in the socket's queue, served, or closed with a stream
that can still be read. `helper` is the process with its place in `Serve`:
accept, the header under its deadline, the body, the terminator, and what comes
after an answer (the exit of a self-update, the reboot). An operation is a
sequence of named steps; each is one action, reports itself if the code reports
it, and the first that fails ends the operation with nothing rolled back. The
deadline ends the socket, not the body: a step that goes on after it reports to
nobody. `Verdict` is what the client's `Wait` makes of a whole stream: its
terminator, the number of its steps, or its absence.

`RequestService` promises that operations take turns, that `ok` means performed
to the end and `error` means not, and nothing about a connection that ends
without an answer. `KeepsItsPromises` maps each slot to how much of its
operation was performed and to the verdict the client can read.

Around it: LND renews its certificate when it starts in another mode or the
certificate has expired; the helper's verbs, the watch unit and the client's
repair copy it to the board in two steps each, so an older copy may land last.
The LND client reads the board, dials, and may ask for a repair once per
interval, after a failure of any kind.

### BackupExport, SyncthingAddon, ChannelBackup

A backup is a pair of halves with version numbers, so that a copy taken while
LND writes can be told from a version. `file` holds every file that ever was
LND's and `path` the one that the name stands for, since the publisher keeps the
one it opened open. LND replaces the file or rewrites it in place; a rewrite
shows in the modification time or, within one tick of the clock, does not.
Each call of `publishLNDBackup` that can be interrupted is an action;
`export` and `kept` are the published file and what a power loss leaves of it.
`Notified` is the unit `PathChanged=`, whose start of a oneshot that is running
changes nothing (`missed`).

`SyncthingAddon` has the steps of `SyncthingInstallSteps` with what each leaves
behind when it fails, the daemon, and pairing as the REST calls it consists of:
a device is added, the folder's devices are read, and the merged list is
written back whole. A request is the goroutine that makes these calls; it goes on
when its screen is left or closed, so several may be under way, from one terminal
UI or from many. `raced` has the devices whose last request met another one. `ChannelBackup` puts the two together: the last steps of the
installation start the watch and wait for the first export.

### TabBar, Payments, Screens

`Model.Update` handles one key or message at a time, so each is one action.
Concurrency comes from commands: a screen that wants its tab closed or another
part focused returns a command, whose message another goroutine delivers after
any number of other keys; a call to LND or the helper runs in a goroutine until
its deadline. `emitted` and `calls` are those messages, delivered in any order.

A slot is the pointer to a screen. `tabs` gives each slot its kind, section, row
and index among the tabs of its section (`at`), because the code holds indexes:
`activeTab`, and `sectionFocus` (here `memory`), one per section. `Same`,
`Reuse` and `Append` are `openTabMsg` with its three rules for recognising a tab
that is already open; `Close` is `closeTab` with its cascade and its landing;
`CloseScreen` is `closeScreenTab`. The message that opens a tab is taken to be
handled before the next key: were it not, the tab would be put into whatever
section is visible.

In `Payments` every slot has a step (form, review, submitting, result), the
attempt that owns it, what the attempt was made for and what was prepared. What
is asked for is a set, the invoice or the selected coins. `Answer` takes one
answer out of `calls` and gives it to the screens `routeToScreen` finds. Forms
are valid and LND is connected: invalid input only leaves the form where it is.
Details of a payment (`"payment"`) open and close as details of a channel do but
for the part that has the focus; the runs use channels.

In `Screens` a screen is its step and, for auto-unlock, the mode it was made in.
`node` is what is true of the machine, `shown` what the session's context says
of it, `calls` the operations under way with the screen that asked, which the
code does not keep: messages are routed by kind and by the section that is
visible (`Routed`). `Rivals` has the tabs that such a message may find before the
screen that asked. Other sessions create the wallet and change settings at any
moment (`CreatedElsewhere`, `ChangedElsewhere`); this one learns of the wallet by
its tick, and of a setting only when it reads the configuration for an
installation of its own (`Reloaded`). `doubt` has the settings that it could not
know since then. The helper refuses to repeat an installation that another
session has done (`Possible`). The wallet ceremony suspends the program while its
shell runs. What a screen asks of the frame is done at once here; `Payments` has it in
any order. ctrl+c, full-screen views and the keys of lists are not modelled.

## 3. Runs

| Run | Shows | Bounds and why they are enough |
|---|---|---|
| `auto_unlock` | safety of the transition, and that retries end in an answer unless a temporary file is left beside the drop-in | five disturbances: a failed call, a failed recovery of it, an interruption, a power loss and one more, so that every pair of failure sites occurs; the theorems remove the bound for all of its safety |
| `auto_unlock_durability` | finding 1 | three disturbances: a failed sync, an interruption, a power loss |
| `lifecycle` | recognition, refinement of `InstallAuthority`, completion, on both kinds of file system | three networks, three records (first, middle, terminal), four interruptions; one where directories are durable one by one (with two, see *limits*); on an ordered journal the theorems remove the bounds for safety |
| `installer` | the ledger, what steps find, the way in, password delivery, completion | all 29 steps of the code; two stops and a power loss, so that a third pass meets what two earlier ones left; two keys, one of which a wizard may drop; a gate whose stall window is two polls and whose ceiling three; an operator in the TUI at any time |
| `installer_bake` | finding 2 | an image build with no stop and no power loss |
| `ssh_access` | the guards, and that operations end, with one session | three faults of every kind, two keys, a drop-in with or without a directive, an abandoned request that may overlap the next session; a rejected drop-in that cannot be restored and the death of the helper can meet a drifted configuration in one behaviour |
| `helper` | answers, turns, the published P2P setting, the binary that serves, the certificate the client holds | two connections (the one served and the one that waits), two requests out of six operations (an operation and its retry, or two that meet), one fault of any kind at any step, one renewal of an expired certificate beside those that a change of mode causes |
| `channel_backup` | the export, its unit, pairing | two publishers, two versions of each kind (the second may meet the copy of the first), one fault at any call; two devices, two requests under way at once, two failures of the installation or of a REST call. Pairing and the export meet only in the installation and in a restart, so `Explored` lets requests race while LND writes its first backup, and LND write its second one beside requests that do not race; the theorems have no such bounds |
| `screens` | what screens show and hear | two screens at a time out of each of six menus that put those together that can meet, three where two SSH keys are among them; a wallet opened from two homes; two operations under way; answers that are lost. `Explored` keeps the operator to the sections that have a screen of the menu and one more, lets other sessions change what the menu is about, has the wallet from the start in menus without its screen, and shows one device. Two wallet tabs and two SSH keys do meet here: without `Rivals` in the properties TLC finds violations in either menu. The theorems have no such bounds |
| `screens_install` | finding 3 | a P2P screen beside a self-update |
| `payments` | what is reviewed, submitted and answered | a payment and an on-chain send at once, two invoices, one coin, two attempts: an old answer can meet a new attempt, and a selection can change at every step |
| `tabs` | the frame; a channel being opened or closed keeps its tab | three tabs out of two channels, an opening, a parent and its child, in two sections, one late message at a time, two attempts |

Deadlock is checked except in `helper`, `channel_backup`, `screens` and
`screens_install`, where a behaviour may really come to rest: all requests, all
versions and all failures are used up and everything has been answered. Elsewhere
a state with nothing to do does not exist: a completed or refused installation
answers `vpn install` without a change (`Refuse`), requests can always be made.

The properties stand in the modules, each with a comment that says what it
claims and of which code. Every module also has a type invariant, which holds in
the runs' instances and is not repeated in the configurations; where there is a
proof it is part of the inductive invariant.

| Module | Invariants | About steps | Liveness |
|---|---|---|---|
| `AutoUnlock` | `NoRestartLoop`, `NeverStranded`, `OutcomeHolds` | `RemovedOnlyWhenUnused` | `RetryConverges` |
| `Lifecycle` | `NeverRefused` | `AuthorityHolds` | `Completes` |
| `Installer` | `LedgerIsValid`, `DeployedStepsFindTheirNeeds`, `HardenedBehindAWayIn`, `CompletedIsDelivered`, `UnseenIsPending`, `PrintedWorks` | | `CompletesKnown` |
| `SSHAccess` | `FilesTellTheTruth` | `NeverLocksOut` | `OperationsEnd` |
| `Helper` | `PublishedIsServed`, `NewestServes` | `KeepsItsPromises` | `RequestsEnd`, `ClientSettles` |
| `BackupExport`, `ChannelBackup` | `ExportExisted`, `AnsweredIsDurable`, `QuietIsCurrent`, `PairedIsShared` | `ExportOnlyImproves` | |
| `Screens` | `ShownIsTrue` | `AnswersReachTheirScreen` | `BusyScreensEnd`, `WalletIsNoticed` |
| `Payments` | `ReviewIsOwn`, `SubmittedHasAnswer` | `BusyKeepsItsTab`, `SentAsSelected`, `OpensTheChannel` | `MoneyEnds` |
| `TabBar` | `TabsHold` | `MemoryKeepsItsTab` | |

### Fairness

* AutoUnlock: the helper's calls return (`WF(HelperStep)`): every one has a
  timeout in the code or in systemd. systemd restarts a failed unit
  (`WF(AutoRestart)`). An operator who has no final answer asks again
  (`SF(Retry)`), strongly because other requests may be in progress when they
  would.
* Lifecycle: a run goes on (`WF(InstallStep)`) and an interrupted one is
  started again without a network flag (`WF(Start(None))`), on either kind of
  file system.
* Installer: a pass goes on (`WF(PassStep)`), an operator does not stay in the
  wizard for ever (`WF(QuitWizard)`), and unattended passes are started again
  (`SF(BeginUnattended)`, strongly because passes of other modes keep the run
  lock meanwhile). Whether Tor ever answers is not assumed: `CompletesKnown`
  says that the installation completes or the gate fails again and again.
* SSHAccess: the helper's calls return, and a session's next call is taken
  eventually although the helper is busy again and again: connections queue in
  the socket's backlog and are accepted in order.
* Helper: the helper goes on and systemd starts it when a connection waits
  (`WF(Serve)`), systemd restarts LND and runs the watch unit, the terminal UI
  dials again, waits for its repair's answer and lets its interval pass; a client
  reads its stream. A client that connects and writes nothing is not assumed to
  go on: the header's deadline is what frees the helper.
* Screens: operations end and their messages are delivered, for each kind of
  operation on its own; the tick reads the wallet state again and again, and not
  always in vain (`SF`). No key is ever owed.
* Payments: a call's answer is delivered (`WF(Answer(a))`): every call to LND
  has a deadline of its own, and `Update` takes messages as they come. Nothing
  is assumed of the operator or of the messages between screens and frame.
* ChannelBackup has safety properties only, and no fairness.

Disturbances are bounded in number, so the liveness properties say what happens
once they end. `CompletesKnown` leaves out the one state from which the
installer does not recover by itself, a marker without its content (see
*limits*).

## 4. Proofs

All proofs are checked by TLAPS to the last leaf.

* **AutoUnlockProofs.** `TypeCorrect`, `NeverRestartLoops`, `SettingsCanBeLeft`,
  `RemovesOnlyUnused`, `OutcomesHold`, for any `MaxDisturbances`. `NoRestartLoop` is not
  inductive: it speaks of the loaded unit, while a power loss mixes visible and
  durable names. The invariant `IInv` has three parts: `TypeOK`; `Safe`, which
  says that whenever an enabled unit can survive a power loss without the
  drop-in, the password is good in both versions, and that a setting that can
  survive without a password comes with the plain unit; and `Located`, which
  says at which calls the drop-in is durably there, the plain unit loaded, the
  password stored or proved. `OutcomeHolds` needs more, since an answer follows
  from all the calls before it: `Told` has, call by call, what a removal, the unit,
  the drop-in and the reload have made true in both versions, that nothing is
  answered while a transition runs, and that a setting published in either
  version never meets an unfinished copy of a password that is stored. Each
  transition has a lemma for its types, for its safety and for its answers, with
  one step per call.
* **LifecycleProofs.** Under `OrderedJournal`: `TypeCorrect`, `AlwaysRecognised`,
  `ImplementsAuthority`, for any set of networks, number of records and
  interruptions. `NeverRefused` needs to know how far behind the durable tree
  may be: both trees are `Sound` (blank, bootstrapping or published, nothing in
  a directory that does not exist), the visible one has what the calls before
  `pc` made (`Progress`), and the durable one is an earlier stage of it
  (`Behind`). The refinement is proved step by step: a call moves the abstract
  state by one action or not at all, an fsync assures, a power loss loses.
* **InstallerProofs.** `TypeCorrect` and the six safety invariants of the installer
  run, for any list of steps that meets two assumptions: `StepsAssumption` (keys
  are distinct, a group consists of mutations of the bake, the identity step is a
  mutation of the first boot) and `BodiesAssumption` (what a body uses is left by
  an earlier step, what the bake uses by a step of the bake but for the admin
  user, and root's login is closed after the identity step). The second is what a
  maintainer can read off the list, one step at a time; TLC evaluates it for the
  29 steps of the code, where each body has its facts. `NeedsFound` is the way
  from there to every resumed pass, and needs `IInv`: a ledger is the union of a
  prefix of the full run and a prefix of the bake (`LedgerInv`); what a pass does
  not run is recorded, as is what it has behind it, while gates are always run
  and a group wholly or not at all (`PlanInv`); a recorded step has left what it
  makes on the host, and one this process has run what is its own (`BodiesInv`).
  `IdentityInv` and `WizardInv` follow the way in from the wizard's pages to the
  step that opens it, `MarkerInv` and `DeliveryInv` the marker and the password
  from before the record to the terminal ledger, with the kept files behind the
  seen ones. A ledger is described by `Prefix(n)`, the keys of the first n steps,
  so that no proof speaks of sequences: recording in the order of a plan takes
  prefixes to prefixes (`ValidGrows`).
* **SSHAccessProofs.** `TypeCorrect` and `FilesAgree` without conditions,
  `KeepsAWayIn` under `OneSession`, all for any faults: reads, writes, checks,
  restores and restarts that fail, a helper that dies, a session that ends.
  `OneSession` is needed: with two, TLC finds the last way in closed.
  `KeepsAWayIn` is about the running sshd and about the one that starts next. The
  invariant is therefore about the files, which the guards read: whatever a
  request has written, kept or put back, they leave a way in (`StartsOpen`), and
  each session's pending content agrees with the answer it was given
  (`SessionSound`). What sshd runs is tied to them only while no request was left
  unfinished (`HelperSound`, `Agree`).
* **PaymentsProofs.** All seven safety properties of the two runs, without
  further conditions, for any slots, sections, rows, attempts, invoices, coins
  and messages in flight: `ReviewsAreOwn`, `CallsAreAnswered`, `BusyTabsStay`,
  `SendsWhatIsSelected`, `TabsStayWhole`, `MemoryIsOfOneTab`,
  `ChannelsOpenThemselves`.
  `ReviewIsOwn` is not inductive, because an accepted decode brings its own
  details into the review. `DecodesAreOwn` adds that a decode out for a screen's
  attempt was made for the request the screen remembers; it holds because an
  attempt that a screen or a call still refers to is not given out again. `IInv`
  joins both with the types (`Shape`) and `SubmittedHasAnswer`. Most actions
  change no call and leave every slot alone or give it a blank screen
  (`QuietStep`); the closing of tabs, the keys and the answers each have a lemma.
  The frame has an invariant of its own, `FrameInv`: in each section the tabs
  have different indexes from 1 to their number (`Indexed`), and the active index
  and the remembered ones lie within. That an index in range is that of a tab is
  then the pigeonhole principle (`EveryIndexIsTaken`), and the index of a tab is
  one more than the number of tabs to its left (`IndexCounts`). From this follows
  what closing does: each tab that stays loses as many places as tabs were
  removed to its left, so the rest are numbered anew without gap or double
  (`RemovedIndexes`). `BusyTabsStay` combines both invariants: no other tab has
  the kind and row of a busy one, and a busy one is nobody's child, so closing
  another tab spares it (`OthersSpared`).
* **ChannelBackupProofs.** `ExportIsABackup`, `AnswersAreDurable`, `NeverOlder`
  and `QuietExportIsCurrent`, for any publishers, versions, failures and either
  way LND writes, from `ComponentHolds` (the node with the add-on around it implements
  `ExportSpec`). That the export only improves is not inductive: it rests on what
  a publisher knows of its copy. `SourceInv` says that LND's file grows in both
  halves and that `path` never returns to a file it has left; `CopyInv` says at
  each call what follows. The second reading is what carries the argument: a
  first half that is found again under the same name was there when the second
  half was read, so the copy is a content the file had. From then on the copy is
  between the export and LND's file, and stays there because only the holder of
  the lock changes the export (`OneHolder`) and LND's file only grows
  (`SourceMoves`). `DiskInv` has what survives a power loss. `QuietInv` adds what
  systemd's service has read as long as no change was missed and LND is not in
  the middle of one: what LND's file is now, in its copy or, once it has answered,
  on the disk; so a power loss does not take it back either.
  `ToldDevicesGetBackups` is for any number of requests under way at once, without
  conditions. `Sure` are the devices told by a request that met no other;
  `AddonInv` says that the list of every pending PATCH has them all, however far
  behind the folder it is otherwise, that no request under way is about one of
  them, and which steps of the installation have left the onion, the folder and
  the watch.
* **HelperProofs.** `HelperKeepsItsPromises` (Helper implements `RequestService`),
  `NewestBinaryServes` and `PublishedModeIsServed`, for any connections, requests,
  faults and renewed certificates. `Turn` says where the helper is in its loop:
  how much of the operation was performed, whether it failed, and, until the
  deadline passes, that the client has been told exactly the reported steps among
  those performed (`SoFar`). So an "ok" that is written is one the client accepts,
  and "drift" never happens. `ConnInv` adds that nothing was performed for a
  connection in the queue and that exactly one is served; with it every step is a
  step of the service (a connection, a step performed, an answer, requests
  forgotten) or invisible. `Upgraded` has the facts the P2P upgrade has made true
  at each of its steps, and that LND and a failed restart leave them so.
* **ScreensProofs.** `Invariant`, `SettingsAreShown` and `AnswersFindTheirScreen`,
  without conditions, for any slots, sections, rows, menus, operations under way
  and faults. Neither property is inductive: an answer finds its screen only
  because the screen that asked drops every key meanwhile, so that it is still the
  active tab of the section in view. `Waiting` says that: of the calls that hold
  the keyboard there is at most one, and its owner is active and busy. Each action
  then either needs a key, so that no such call is out (`NoneHolds`), or moves a
  call. From there an answer to a screen without a rival is routed to it and to
  nothing else (`AskerIsRouted`), and ends its waiting or starts its next stage
  (`HeardByItself`). `Truth` strengthens `ShownIsTrue`: a setting shown wrongly is
  in doubt or a call is out whose answer is about to bring it (`Due`), such an
  answer is routed to the screen that takes it in (`DueIsRouted`), and while
  auto-unlock is not in doubt its answers say what the machine has (`Told`).
  What other sessions change falls into doubt at once (`ElsewhereKeeps`). Four parts support these. `Tabs` has the
  indexes, whose lemmas hold of TabBar and are those of PaymentsProofs over again;
  `Homes` the section of each kind, which keeps two installations from hearing
  each other; `Ceremony` that the wallet's tab turns into the auto-unlock tab once,
  so that its section never has two; and `Installed` that the removal of a device,
  which closes whichever tab is active, does not meet a waiting installation. That
  last part fails where P2P upgrade and Syncthing are both in reach, but only when
  both settings are made and shown, and then the installation has nothing left to
  tell (`Loose`): so `SettingsAreShown` needs no condition. The exceptions of
  `AnswersReachTheirScreen` are where the code goes wrong (finding 3, *limits*).

Every safety property of the passing runs is a theorem, two of the components
(Lifecycle, SSHAccess) under the conditions named above, which their runs meet but
for Lifecycle's second file system. Only model-checked:
liveness (fairness and ENABLED are beyond the prover), the lifecycle with
separately durable directories, and that the 29 steps of the code meet
`StepsAssumption` and `BodiesAssumption` (TLC evaluates them).

## 5. Findings

Each is a run that must find a violation; `PROJECT.json` quotes the text of the
repository that disagrees.

1. `auto_unlock_durability`: a disable that resumes after an unsynced unlink
   reports success without syncing the directory of the password.
2. `installer_bake`: the last step of an image build appends to a file in the
   admin user's home directory; the user is made by a step that an image build
   leaves to the first boot. `DeployedStepsFindTheirNeeds` states what holds
   otherwise: that is the only such step and the only fact it misses.
3. `screens_install`: step messages of an installation go to the first open tab
   of three kinds. With a P2P tab open at its question, a self-update's progress
   stays at its first step and its screen takes no key.

## 6. Limits

What the properties leave out because it does not hold, or because the model
cannot tell:

* Lifecycle with separately durable directories and two interruptions: a run
  that dies between the removal of the bootstrap file and the fsync of
  `/var/lib` is resumed without that fsync; a power loss after later steps then
  brings the bootstrap file back next to evidence of steps, and the tree is
  refused. On one ordered journal the next ledger fsync commits the removal,
  and the theorem covers it.
* AutoUnlock: the drop-in is replaced through a temporary file of its own
  directory. A helper that dies, or a host that loses power, between the creation
  of that file and its rename leaves it there
  (`installer/lnd_auto_unlock.go:1423`), and the program never removes it:
  `validateOptionalDropInDir` (`:1236`) refuses every later transition because of
  the unknown entry. `RetryConverges` therefore ends in an answer or in this
  residue; the safety properties hold with it, since it only adds refusals.
* AutoUnlock: an error of the configuration's directory fsync is forgiven when
  the new content is visible (`SaveConfirmed`). A power loss can then undo it,
  so a durable "enabled without password" is possible next to the plain unit;
  `NeverStranded` states what holds instead: such a setting can be left.
* Installer: the password-pending marker can survive a power loss without its
  content, because `SudoWriteFile` syncs nothing and the ledger's fsync commits
  only its name; the next run then refuses the tree (`Refuse`). It takes one
  power loss before the kernel's writeback.
* Installer: `UnseenIsPending` and `PrintedWorks` hold until the operator has set
  a password through the helper for the first time. Afterwards a set-user-password
  that falls between a finalising pass's look at the marker and its own
  password, followed by a stop before the print, leaves a generated password
  that nobody has seen and no marker.
* Installer: what a step made before its record is assumed to survive a power
  loss, although the ledger's fsync does not sync it. Steps end with their pass:
  a child process that outlives a pass stopped by hand is not modelled. The
  commands of a step are assumed to end.
* Tor gate: a base system without curl makes the exit probe unreachable, which
  is a warning, as the model's `GatePasses` allows.
* SSHAccess: with two sessions, one may remove the last key because password
  login is on while the other turns password login off because there is a key,
  and two that add keys at once can lose one of them. `NeverLocksOut` is claimed
  for one session.
* SSHAccess: a request whose restore or restart fails, or whose helper dies after
  the drop-in was written, leaves files that the running sshd was not started
  from. The removal of the last key asks the files (`sshd -T`); when they say that
  passwords work and sshd still runs without them, it closes the last way in until
  sshd starts again. The comment at `installer/sshkeys.go` ("never leave the system
  with zero auth methods") allows no such step; `NeverLocksOut` names it as its one
  exception. It claims nothing once a key stands on two lines (they count as two
  keys, and the removal takes both) or once tooling has changed what a drop-in
  without the directive leaves to it.
* SSHAccess: sshd is started from outside only between requests, a restart that
  fails leaves the old sshd running, and a power loss is a helper's death and a
  start: that the drop-in's rename is not synced is not modelled.
* Helper: a P2P upgrade that was done and whose answer was lost is refused when
  it is asked for again, and one that fails after LND's restart leaves LND
  hybrid under the setting `tor` until it is repeated: only the direction
  `PublishedIsServed` is claimed. The helper goes on with a body whose client
  has left or whose deadline has passed, and a retry queues behind it.
* SyncthingAddon: a failed installation leaves residue that a later one refuses
  to touch, and a failed start leaves the unit enabled.
* SyncthingAddon: of two requests under way at once (the screen of a pairing can
  be closed while it waits, and another one opened), one can write back a list
  that was read before the other's share, after which a device is reported as
  paired and is not shared. The code promises "a silent false success here is
  forbidden" without this exception; `PairedIsShared` holds for every device whose
  request met no other. A request whose call timed out is over in the model: that
  the daemon performs it later is not.
* BackupExport: `QuietIsCurrent` makes no claim when a change came while the
  service ran, or when its last run failed: nothing in the unit tries again, so
  such a backup waits for LND's next one, although `docs/syncthing.md:91` says
  that it syncs whenever LND updates it. systemd's limit on the rate of starts,
  which could keep the unit from running at all, is not modelled. A file that is
  rewritten in place is published half-written if it is read between the two
  halves; `ExportExisted` allows that content, because the file had it.
* Screens: the failure of staging the credentials after the wallet was created
  has a handler in its screen and no route to it, so the screen waits for ever;
  it is the fault `staging`, which the run leaves out.
* Screens: what a screen waits for is routed by its kind, so of two screens of one
  kind the first in the bar hears it, whichever asked.
  `walletCreatedMsg` turns the first wallet tab of all sections, not the one that
  ran the ceremony (`tui/update.go`): with wallet tabs opened from two homes the
  other stays waiting. `sshKeyRemoveMsg` carries no key
  (`tui/screen_system_ssh_keys.go:45`) and goes to the first tab of a key: with
  two open, a removal that fails in the second is told to the first, and the second
  keeps waiting, although `dispatchToTab` says it delivers "to the screen that
  started the work". In both cases the screen takes no key any more. The run has
  two homes for the wallet and two keys, so both happen in it;
  `AnswersReachTheirScreen` and `BusyScreensEnd` claim nothing of who hears the
  answer while a rival is open.
* Screens: a change of auto-unlock, of the P2P mode or of the add-on by another
  session is not heard of by this one before it reads the configuration again,
  which it does at the end of an installation of its own
  (`tui/helper_steps.go:69`); until then it shows the old setting. `ShownIsTrue`
  makes no claim of such a setting meanwhile.
* Screens: the removal of a device closes the tab active when its answer arrives.
  With P2P upgrade and Syncthing both open that may be the progress of an
  installation, once both settings are made and shown (`Closable`). What it changes
  is still shown as it is.
* TabBar: rows of a list are told apart by index, and index 0 is also what a tab
  without a row has: the first payment, coin or transaction of a list opens the
  tab of another row that is already open. `OpensTheChannel` speaks of channels,
  which are told apart by their identity.
* Payments: a Lightning payment in flight is not guarded as the other three
  are; its tab may be closed, and it takes no key while it lasts. An answer to a
  closed tab is dropped. Done on a payment closes the tab active when its
  message arrives, whichever that is.
* File ownership, modes other than the one that opens the tree, link counts and
  the formats of files are not modelled: the models assume that only the
  program writes its own files.

Smaller things met on the way, which no model speaks of: the comment at
`helperd/verbs.go:456` promises a new binary after one connection, the one at
`installer/setup.go:928` after the next SSH login; an unattended pass that
resumes with all steps done prints the instructions for a box without SSH,
because its decisions are empty (`installer/setup.go:344`); a bake records the
build machine's database cache for the machine that boots the image.

## 7. Not modelled

* The bodies of the installation's steps beyond what they need and leave:
  rendered configuration, downloads, signatures, apt.
* Verbs of the helper that read and display, and the facts of the board but for
  LND's certificate; the record of verified signing keys.
* Which requests for money are valid, LND's answers beyond that they come,
  receiving, lists, logs, QR codes, layout.
* Parsing and validation of configuration and preferences, argument parsing,
  Bitcoin Core's status, logging, themes, paths, shell scripts: stateless, or
  without a behaviour that outlasts a call.

## 8. What could follow

A composition of `Helper` with `SSHAccess`, whose helper answers one client at a
time on its own account; the board's other facts.
