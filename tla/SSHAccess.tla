------------------------------- MODULE SSHAccess ------------------------------
(***************************************************************************)
(* The two ways into the node over SSH and the guards that are to leave    *)
(* one of them open (internal/installer: sshkeys.go, sshd.go): the admin   *)
(* user's authorized_keys, which each TUI session reads and replaces on    *)
(* its own, and the sshd drop-in, which only the root helper writes, one   *)
(* request at a time.                                                      *)
(*                                                                         *)
(* sshd reads authorized_keys at every login, its configuration only when  *)
(* it starts; `sshd -T` answers from the configuration files.  Faults      *)
(* names the disturbances that a configuration of the model allows.        *)
(***************************************************************************)
EXTENDS Naturals

CONSTANTS Sessions,   \* TUI sessions that may be open at once
          Keys,
          None,
          Faults, MaxFaults,
          Degraded,   \* ssh.harden may not have observed password authentication
          MaxCopies   \* bound on the lines that hold the same key

AllFaults == {"read", "write", "check", "restore", "restart", "helper", "session",
              "drift", "duplicate"}
ASSUME SessionsAssumption == Sessions # {} /\ Keys # {} /\ None \notin Sessions \cup Keys
ASSUME FaultsAssumption == Faults \subseteq AllFaults /\ MaxFaults \in Nat
ASSUME ModeAssumption == Degraded \in BOOLEAN
ASSUME CopiesBound == MaxCopies \in Nat \ {0}

VARIABLES
  lines,    \* how many lines of authorized_keys hold each key
  dropin,   \* PasswordAuthentication in the hardening drop-in
  rest,     \* what the rest of sshd's configuration elects
  sshd,     \* password authentication as the running sshd has it
  session,  \* each session's operation
  helper,   \* the helper's request
  apart,    \* since sshd last started, a change of its files was not finished
  faults,
  harmed    \* a disturbance came that the guards are not made for

vars == <<lines, dropin, rest, sshd, session, helper, apart, faults, harmed>>

Answers == {"yes", "no"}
Files == [Keys -> 0..MaxCopies]
Empty == [k \in Keys |-> 0]
Listed(l) == {k \in Keys : l[k] > 0}
AtMostOneLine(l) == \A j, k \in Listed(l) : j = k /\ l[j] = 1
Without(l, k) == [l EXCEPT ![k] = 0]
Session == [pc : {"idle", "add.list", "add.read", "remove.read", "remove.ask",
                  "write", "call"},
            key : Keys \cup {None}, content : Files]
Helper  == [pc : {"idle", "guard", "write", "check", "restore", "restart"},
            for : Sessions \cup {None}, target : Answers, prev : Answers \cup {"omitted"}]
NoSession == [pc |-> "idle", key |-> None, content |-> Empty]
NoHelper  == [pc |-> "idle", for |-> None, target |-> "yes", prev |-> "yes"]

(* sshd takes the first answer: the drop-in sorts first.                   *)
Elects(d, r) == IF d = "omitted" THEN r ELSE d

(* What ssh.harden leaves: the observed answer, or no directive at all.    *)
Init ==
  /\ lines \in Files /\ \A k \in Keys : lines[k] <= 1
  /\ rest \in Answers /\ dropin \in {rest} \cup (IF Degraded THEN {"omitted"} ELSE {})
  /\ sshd = Elects(dropin, rest)
  /\ lines = Empty => sshd = "yes"
  /\ session = [s \in Sessions |-> NoSession] /\ helper = NoHelper
  /\ apart = FALSE /\ faults = 0 /\ harmed = FALSE

Fault(f) == f \in Faults /\ faults < MaxFaults /\ faults' = faults + 1

-------------------------------------------------------------------------------
(* The operations of a session.                                            *)

At(s, l) == session[s].pc = l
Goto(s, l) == session' = [session EXCEPT ![s].pc = l]
Leave(s) == session' = [session EXCEPT ![s] = NoSession]
WriteBack(s, content) ==
  session' = [session EXCEPT ![s].pc = "write", ![s].content = content]

(* The operator confirms an operation on the screens for keys and password *)
(* authentication.                                                         *)
Begin(s) ==
  /\ At(s, "idle")
  /\ \E k \in Keys, l \in {"add.list", "remove.read"} :
       session' = [session EXCEPT ![s].pc = l, ![s].key = k]
  /\ UNCHANGED <<lines, dropin, rest, sshd, helper, apart, faults, harmed>>

(* AppendAuthorizedKey: one read looks for the key, a second one is what   *)
(* the new line is appended to; an error of the second read is taken for   *)
(* an empty file.                                                          *)
AppendAuthorizedKey(s) ==
  /\ LET k == session[s].key
     IN  \/ /\ At(s, "add.list") /\ k \notin Listed(lines)
            /\ Goto(s, "add.read") /\ UNCHANGED faults
         \/ /\ At(s, "add.list") /\ k \in Listed(lines)
            /\ Leave(s) /\ UNCHANGED faults
         \/ /\ At(s, "add.read") /\ UNCHANGED faults
            /\ IF lines[k] < MaxCopies
               THEN WriteBack(s, [lines EXCEPT ![k] = @ + 1]) ELSE Leave(s)
         \/ /\ At(s, "add.read")
            /\ WriteBack(s, [Empty EXCEPT ![k] = 1]) /\ Fault("read")
         \/ /\ At(s, "add.list") /\ Leave(s) /\ Fault("read")
  /\ UNCHANGED <<lines, dropin, rest, sshd, helper, apart, harmed>>

(* Mutant: the last key may always go.                                     *)
RemoveAuthorizedKeyUnasked(s) ==
  /\ At(s, "remove.read")
  /\ IF session[s].key \in Listed(lines)
     THEN WriteBack(s, Without(lines, session[s].key)) ELSE Leave(s)
  /\ UNCHANGED <<lines, dropin, rest, sshd, helper, apart, faults, harmed>>

(* RemoveAuthorizedKey: the content without the key is decided by one      *)
(* read; the last line asks EffectiveSSHPasswordAuth, in turn with the     *)
(* helper's other requests, and takes an error for a refusal.              *)
RemoveAuthorizedKey(s) ==
  /\ LET k == session[s].key
     IN  \/ /\ At(s, "remove.read") /\ k \notin Listed(lines)
            /\ Leave(s) /\ UNCHANGED faults
         \/ /\ At(s, "remove.read") /\ k \in Listed(lines)
            /\ ~AtMostOneLine(lines)
            /\ WriteBack(s, Without(lines, k)) /\ UNCHANGED faults
         \/ /\ At(s, "remove.read") /\ k \in Listed(lines)
            /\ AtMostOneLine(lines)
            /\ session' = [session EXCEPT ![s].pc = "remove.ask",
                                          ![s].content = Without(lines, k)]
            /\ UNCHANGED faults
         \/ /\ At(s, "remove.ask") /\ helper.pc = "idle"
            /\ IF rest # "broken" /\ Elects(dropin, rest) = "yes"
               THEN Goto(s, "write") ELSE Leave(s)
            /\ UNCHANGED faults
         \/ /\ At(s, "remove.read") \/ At(s, "remove.ask")
            /\ Leave(s) /\ Fault("read")
  /\ UNCHANGED <<lines, dropin, rest, sshd, helper, apart, harmed>>

(* writeAuthorizedKeys: one rename, or an error that leaves the file.      *)
WriteAuthorizedKeys(s) ==
  /\ At(s, "write") /\ Leave(s)
  /\ \/ lines' = session[s].content /\ UNCHANGED faults
     \/ UNCHANGED lines /\ Fault("write")
  /\ UNCHANGED <<dropin, rest, sshd, helper, apart, harmed>>

(* SetSSHPasswordAuth: the request waits for the helper's turn.            *)
SetSSHPasswordAuth(s) ==
  /\ At(s, "idle") /\ helper.pc = "idle"
  /\ \E target \in Answers :
       helper' = [NoHelper EXCEPT !.pc = "guard", !.for = s, !.target = target]
  /\ Goto(s, "call")
  /\ UNCHANGED <<lines, dropin, rest, sshd, apart, faults, harmed>>

(* The session ends, with the operation it was in; the helper goes on.     *)
Quit(s) ==
  /\ ~At(s, "idle") /\ Leave(s) /\ Fault("session")
  /\ UNCHANGED <<lines, dropin, rest, sshd, helper, apart, harmed>>

-------------------------------------------------------------------------------
(* RebuildSSHHardeningConfig.                                              *)

(* The reply; a session that has gone does not hear it.                    *)
Reply ==
  /\ helper' = NoHelper
  /\ session' = [s \in Sessions |->
       IF s = helper.for /\ session[s].pc = "call" THEN NoSession ELSE session[s]]
Proceed(l) == helper' = [helper EXCEPT !.pc = l] /\ UNCHANGED session

(* Mutant: the helper waits for a key instead of refusing.                 *)
RefuseLockoutWaiting ==
  /\ helper.pc = "guard"
  /\ IF helper.target = "no" /\ lines = Empty THEN Proceed("guard") ELSE Proceed("write")
  /\ UNCHANGED <<lines, dropin, rest, sshd, apart, faults, harmed>>

RefuseLockout ==
  /\ helper.pc = "guard"
  /\ \/ /\ IF helper.target = "no" /\ lines = Empty THEN Reply ELSE Proceed("write")
        /\ UNCHANGED faults
     \/ Reply /\ Fault("read")
  /\ UNCHANGED <<lines, dropin, rest, sshd, apart, harmed>>

WriteDropIn ==
  /\ helper.pc = "write"
  /\ \/ /\ dropin' = helper.target
        /\ helper' = [helper EXCEPT !.pc = "check", !.prev = dropin]
        /\ UNCHANGED <<session, faults>>
     \/ Reply /\ Fault("write") /\ UNCHANGED dropin
  /\ UNCHANGED <<lines, rest, sshd, apart, harmed>>

(* Mutant: a rejected drop-in stays.                                       *)
CheckConfigKeeping ==
  /\ helper.pc = "check"
  /\ \/ rest # "broken" /\ Proceed("restart") /\ UNCHANGED faults
     \/ rest = "broken" /\ Reply /\ UNCHANGED faults
     \/ Reply /\ Fault("check")
  /\ UNCHANGED <<lines, dropin, rest, sshd, apart, harmed>>

(* sshd -t over the merged configuration.                                  *)
CheckConfig ==
  /\ helper.pc = "check"
  /\ \/ rest # "broken" /\ Proceed("restart") /\ UNCHANGED faults
     \/ rest = "broken" /\ Proceed("restore") /\ UNCHANGED faults
     \/ Proceed("restore") /\ Fault("check")
  /\ UNCHANGED <<lines, dropin, rest, sshd, apart, harmed>>

(* restorePreviousDropIn, or its error: the rejected drop-in stays.  The   *)
(* reply is an error either way.                                           *)
RestorePreviousDropIn ==
  /\ helper.pc = "restore" /\ Reply
  /\ \/ dropin' = helper.prev /\ UNCHANGED <<apart, faults>>
     \/ UNCHANGED dropin /\ apart' = TRUE /\ Fault("restore")
  /\ UNCHANGED <<lines, rest, sshd, harmed>>

(* restartSSHD, or its error: sshd keeps what it runs.                     *)
RestartSSHD ==
  /\ helper.pc = "restart" /\ Reply
  /\ \/ /\ rest # "broken" /\ sshd' = Elects(dropin, rest)
        /\ apart' = FALSE /\ UNCHANGED faults
     \/ UNCHANGED sshd /\ apart' = TRUE /\ Fault("restart")
  /\ UNCHANGED <<lines, dropin, rest, harmed>>

RebuildSSHHardeningConfig ==
  RefuseLockout \/ WriteDropIn \/ CheckConfig \/ RestorePreviousDropIn \/ RestartSSHD

(* The helper dies in the middle of a request: its client's call ends with *)
(* an error, and a drop-in that was written stays as it is.                *)
HelperDeath ==
  /\ helper.pc # "idle" /\ Reply /\ Fault("helper")
  /\ apart' = (apart \/ helper.pc \in {"check", "restore", "restart"})
  /\ UNCHANGED <<lines, dropin, rest, sshd, harmed>>

-------------------------------------------------------------------------------
(* What happens outside the program while the helper is idle: sshd is      *)
(* started again (a reboot, an upgrade); provider tooling changes the rest *)
(* of the configuration and restarts a working sshd; somebody pastes a     *)
(* line into authorized_keys a second time.                                *)
SSHDStarts ==
  /\ helper.pc = "idle" /\ rest # "broken"
  /\ sshd' = Elects(dropin, rest) /\ apart' = FALSE
  /\ UNCHANGED <<lines, dropin, rest, session, helper, faults, harmed>>

Drift ==
  /\ helper.pc = "idle" /\ Fault("drift")
  /\ rest' \in (Answers \cup {"broken"}) \ {rest}
  /\ sshd' = IF rest' = "broken" THEN sshd ELSE Elects(dropin, rest')
  /\ apart' = (apart /\ rest' = "broken")
  /\ harmed' = (harmed \/ dropin = "omitted")
  /\ UNCHANGED <<lines, dropin, session, helper>>

Duplicate ==
  /\ Fault("duplicate")
  /\ \E k \in Listed(lines) :
       lines[k] < MaxCopies /\ lines' = [lines EXCEPT ![k] = @ + 1]
  /\ harmed' = TRUE
  /\ UNCHANGED <<dropin, rest, sshd, session, helper, apart>>

Next ==
  \/ \E s \in Sessions :
       \/ Begin(s) \/ AppendAuthorizedKey(s) \/ RemoveAuthorizedKey(s)
       \/ WriteAuthorizedKeys(s) \/ SetSSHPasswordAuth(s) \/ Quit(s)
  \/ RebuildSSHHardeningConfig \/ HelperDeath
  \/ SSHDStarts \/ Drift \/ Duplicate

Spec == Init /\ [][Next]_vars
-------------------------------------------------------------------------------
TypeOK ==
  /\ lines \in Files
  /\ dropin \in Answers \cup {"omitted"} /\ rest \in Answers \cup {"broken"}
  /\ sshd \in Answers
  /\ session \in [Sessions -> Session] /\ helper \in Helper
  /\ apart \in BOOLEAN /\ faults \in 0..MaxFaults /\ harmed \in BOOLEAN

(* The ways into the running sshd, and into the next one that starts.      *)
CanLogIn == lines # Empty \/ sshd = "yes"
StartsOpen == lines # Empty \/ Elects(dropin, rest) = "yes"

(* "The invariant is: never leave the system with zero auth methods"       *)
(* (RemoveAuthorizedKey, RebuildSSHHardeningConfig): no step of a session, *)
(* of the helper, of its death, or of an sshd that starts, closes the last *)
(* way in; nor do the files ever come to say that the next sshd has none,  *)
(* wherever a request was cut off.  One way to close it is left: while a   *)
(* request that failed or was cut off has put the files apart from the     *)
(* running sshd, the last key's removal asks the files and not sshd.       *)
(* The guards are not made for a key listed twice, nor for tooling that    *)
(* changes what a drop-in without the directive leaves to it.              *)
NeverLocksOut ==
  [][~harmed' /\ rest' = rest =>
       /\ CanLogIn => CanLogIn' \/ (apart /\ lines' # lines)
       /\ StartsOpen => StartsOpen']_vars

(* What sshd runs is what its files say whenever the helper is between     *)
(* requests and the last change was not cut off: the answer of `sshd -T`,  *)
(* on which the last key's removal relies, is then the running sshd's      *)
(* answer too.  A request that succeeds afterwards brings them together.   *)
FilesTellTheTruth ==
  helper.pc = "idle" /\ rest # "broken" /\ ~apart => sshd = Elects(dropin, rest)

-------------------------------------------------------------------------------
(* The helper's calls return, a session's calls return, and a connection   *)
(* that waits for the helper is accepted before those that come later.     *)
Operation(s) ==
  AppendAuthorizedKey(s) \/ RemoveAuthorizedKey(s) \/ WriteAuthorizedKeys(s)
Fairness ==
  /\ WF_vars(RebuildSSHHardeningConfig)
  /\ \A s \in Sessions : SF_vars(Operation(s))
FairSpec == Spec /\ Fairness

(* No session waits forever, for the helper or for another session         *)
(* (RemoveAuthorizedKey and SetSSHPasswordAuth over one serialized helper).*)
OperationsEnd == \A s \in Sessions : ~At(s, "idle") ~> At(s, "idle")
===============================================================================
