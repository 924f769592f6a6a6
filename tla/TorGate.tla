-------------------------------- MODULE TorGate -------------------------------
(***************************************************************************)
(* The gate that every pass stands at before its first download            *)
(* (internal/installer/torgate.go: waitForTorBootstrap and runTorExitProbe *)
(* of verifyTorRouting).  Tor answers a poll with its progress, with less  *)
(* than before, or not at all.  Time is counted in polls.                  *)
(***************************************************************************)
EXTENDS Integers

CONSTANTS
  Full,          \* PROGRESS=100
  StallWindow,   \* torStallWindow, in polls
  Ceiling,       \* torBootstrapCeiling, in polls
  ProbeAttempts  \* torProbeAttempts

ASSUME GateAssumption ==
  /\ {Full, StallWindow, Ceiling, ProbeAttempts} \subseteq Nat \ {0}
  /\ StallWindow < Ceiling

VARIABLE gate  \* the wait of this process

NoAnswer == -1
Closed == [at |-> "closed", progress |-> NoAnswer, stalled |-> 0, elapsed |-> 0, probes |-> 0]
GateStates == [at : {"closed", "bootstrap", "probe"}, progress : NoAnswer..Full - 1,
               stalled : 0..StallWindow, elapsed : 0..Ceiling, probes : 0..ProbeAttempts - 1]

GateOpens == gate' = [Closed EXCEPT !.at = "bootstrap"]

(* queryTorBootstrapProgress                                               *)
Answers == NoAnswer..Full

(* Any change counts as movement.                                          *)
StalledAfter(answer) ==
  IF answer \notin {NoAnswer, gate.progress} THEN 0 ELSE gate.stalled

(* Mutant: progress alone keeps the wait going.                            *)
KeepWaitingWhileMoving(stalled, elapsed) == stalled < StallWindow

(* keepWaitingForTor                                                       *)
KeepWaiting(stalled, elapsed) == stalled < StallWindow /\ elapsed < Ceiling

(* waitForTorBootstrap: a poll, and the pause before the next one.         *)
WaitForBootstrap(answer) ==
  /\ gate.at = "bootstrap" /\ answer # Full /\ KeepWaiting(StalledAfter(answer), gate.elapsed)
  /\ gate' = [gate EXCEPT !.progress = IF answer = NoAnswer THEN @ ELSE answer,
                          !.stalled = StalledAfter(answer) + 1,
                          !.elapsed = IF @ < Ceiling THEN @ + 1 ELSE @]

Bootstrapped ==
  /\ gate.at = "bootstrap" /\ gate' = [Closed EXCEPT !.at = "probe"]

(* runTorExitProbe: two unreachable probes are a warning.                  *)
Probe(verdict) ==
  /\ gate.at = "probe" /\ verdict = "unreachable" /\ gate.probes + 1 < ProbeAttempts
  /\ gate' = [gate EXCEPT !.probes = @ + 1]

GateWaits ==
  \/ \E answer \in Answers : WaitForBootstrap(answer)
  \/ Bootstrapped
  \/ Probe("unreachable")

GatePasses ==
  /\ gate.at = "probe"  \* probeTor, or unreachable for the last time
  /\ gate' = Closed

GateFails ==
  /\ \/ \E answer \in Answers \ {Full} :
          gate.at = "bootstrap" /\ ~KeepWaiting(StalledAfter(answer), gate.elapsed)
     \/ gate.at = "probe"  \* probeClearnet
  /\ gate' = Closed
===============================================================================
