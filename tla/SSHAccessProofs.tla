---------------------------- MODULE SSHAccessProofs ---------------------------
(***************************************************************************)
(* One session at a time: then the guards keep a way in, for any keys, any *)
(* faults and any number of them, wherever a request is cut off, until a   *)
(* key is listed twice or tooling changes what a drop-in without the       *)
(* directive leaves to it.  With two sessions TLC finds the last way in    *)
(* closed.  The invariant is about the files, which the guards read, and   *)
(* about sshd only as long as the two agree.                               *)
(***************************************************************************)
EXTENDS SSHAccess, TLAPS

OneSession == \E s : Sessions = {s}

(* What sshd -T answers, and what it would answer with the drop-in back.   *)
Elected == Elects(dropin, rest)
Before  == Elects(helper.prev, rest)

(* The helper's own steps: what the files, sshd and the keys are then.     *)
HelperSound ==
  /\ Elected \in Answers
  /\ helper.pc \in {"check", "restore", "restart"} =>
       /\ dropin = helper.target /\ Before \in Answers
       /\ Before = "no" => lines # Empty
  /\ helper.pc \in {"write", "check", "restore", "restart"} /\ helper.target = "no"
       => lines # Empty
  /\ ~apart =>
       /\ helper.pc \in {"idle", "guard", "write"} => sshd = Elected
       /\ helper.pc \in {"check", "restore", "restart"} => sshd = Before

(* What a session is about to write keeps a key, unless sshd -T was asked. *)
SessionSound(s) ==
  /\ ~At(s, "idle") /\ ~At(s, "call") => session[s].key \in Keys
  /\ At(s, "add.read") => lines[session[s].key] = 0
  /\ \A k \in Keys : session[s].content[k] <= 1
  /\ At(s, "write") /\ session[s].content = Empty => helper.pc = "idle" /\ Elected = "yes"

IInv ==
  /\ TypeOK
  /\ StartsOpen
  /\ \A k \in Keys : lines[k] <= 1
  /\ HelperSound
  /\ \A s \in Sessions : SessionSound(s)

(* It holds until the guards meet what they are not made for.              *)
Sound == TypeOK /\ (~harmed => IInv)

-------------------------------------------------------------------------------
(* Typing of the pieces that the actions are made of.                      *)

LEMMA FileTypes ==
  /\ Empty \in Files
  /\ \A l \in Files, k \in Keys : Without(l, k) \in Files
  /\ \A l \in Files, k \in Keys : l[k] < MaxCopies => [l EXCEPT ![k] = @ + 1] \in Files
  /\ \A k \in Keys : [Empty EXCEPT ![k] = 1] \in Files
  BY CopiesBound DEF Files, Empty, Without

LEMMA NoSessionType == NoSession \in Session /\ NoHelper \in Helper
  BY FileTypes DEF NoSession, Session, NoHelper, Helper, Answers

LEMMA SessionUpdates ==
  ASSUME TypeOK, NEW s \in Sessions
  PROVE  /\ Leave(s) => session' \in [Sessions -> Session]
         /\ \A l \in {"add.read", "write", "call"} :
              Goto(s, l) => session' \in [Sessions -> Session]
         /\ \A c \in Files : WriteBack(s, c) => session' \in [Sessions -> Session]
  BY NoSessionType DEF TypeOK, Leave, Goto, WriteBack, Session

LEMMA ReplyType == ASSUME TypeOK, Reply
                   PROVE  session' \in [Sessions -> Session] /\ helper' \in Helper
  BY NoSessionType DEF TypeOK, Reply

LEMMA FaultType == ASSUME TypeOK, NEW f, Fault(f) PROVE faults' \in 0..MaxFaults
  BY FaultsAssumption DEF TypeOK, Fault

LEMMA NextType == ASSUME TypeOK, [Next]_vars PROVE TypeOK'
<1> USE DEF TypeOK
<1>1. ASSUME NEW s \in Sessions, Begin(s) PROVE TypeOK'
  <2>1. PICK k \in Keys, l \in {"add.list", "remove.read"} :
          session' = [session EXCEPT ![s].pc = l, ![s].key = k]
    BY <1>1 DEF Begin
  <2>2. session' \in [Sessions -> Session] BY <2>1 DEF Session
  <2> QED BY <1>1, <2>2 DEF Begin
<1>2. ASSUME NEW s \in Sessions, AppendAuthorizedKey(s) PROVE TypeOK'
  <2>1. lines' = lines /\ dropin' = dropin /\ rest' = rest /\ sshd' = sshd /\ helper' = helper
          /\ apart' = apart
    BY <1>2 DEF AppendAuthorizedKey
  <2>2. faults' \in 0..MaxFaults
    BY <1>2, FaultType DEF AppendAuthorizedKey
  <2>3. session[s].key \in Keys \cup {None}
    BY DEF Session
  <2>4. CASE session[s].key \in Keys
    BY <1>2, <2>4, FileTypes, SessionUpdates, <2>1, <2>2 DEF AppendAuthorizedKey
  <2>5. CASE session[s].key = None
    <3>1. None \notin Keys BY SessionsAssumption
    <3>2. [Empty EXCEPT ![None] = 1] = Empty /\ [lines EXCEPT ![None] = @ + 1] = lines
      BY <3>1 DEF Files, Empty
    <3> QED BY <1>2, <2>5, <3>2, FileTypes, SessionUpdates, <2>1, <2>2
               DEF AppendAuthorizedKey
  <2> QED BY <2>3, <2>4, <2>5
<1>3. ASSUME NEW s \in Sessions, RemoveAuthorizedKey(s) PROVE TypeOK'
  <2>1. lines' = lines /\ dropin' = dropin /\ rest' = rest /\ sshd' = sshd /\ helper' = helper
          /\ apart' = apart /\ harmed' = harmed
    BY <1>3 DEF RemoveAuthorizedKey
  <2>2. faults' \in 0..MaxFaults
    BY <1>3, FaultType DEF RemoveAuthorizedKey
  <2>3. session' \in [Sessions -> Session]
    <3>1. CASE Leave(s) \/ Goto(s, "write") BY <3>1, SessionUpdates
    <3> DEFINE k == session[s].key
    <3>2. ASSUME k \in Keys PROVE Without(lines, k) \in Files BY <3>2, FileTypes
    <3>3. CASE k \in Keys /\ WriteBack(s, Without(lines, k))
      BY <3>2, <3>3, SessionUpdates
    <3>4. CASE k \in Keys /\ session' = [session EXCEPT ![s].pc = "remove.ask",
                                                       ![s].content = Without(lines, k)]
      <4> HIDE DEF k
      <4> QED BY <3>2, <3>4 DEF Session
    <3> QED BY <1>3, <3>1, <3>3, <3>4 DEF RemoveAuthorizedKey, Listed
  <2> QED BY <2>1, <2>2, <2>3
<1>4. ASSUME NEW s \in Sessions, WriteAuthorizedKeys(s) PROVE TypeOK'
  <2>1. lines' \in Files BY <1>4 DEF WriteAuthorizedKeys, Session
  <2> QED BY <1>4, <2>1, SessionUpdates, FaultType DEF WriteAuthorizedKeys
<1>5. ASSUME NEW s \in Sessions, SetSSHPasswordAuth(s) PROVE TypeOK'
  BY <1>5, SessionUpdates, NoSessionType DEF SetSSHPasswordAuth, Helper
<1>6. ASSUME NEW s \in Sessions, Quit(s) PROVE TypeOK'
  BY <1>6, SessionUpdates, FaultType DEF Quit
<1>7. CASE RefuseLockout
  BY <1>7, ReplyType, FaultType DEF RefuseLockout, Proceed, Helper
<1>8. CASE WriteDropIn
  BY <1>8, ReplyType, FaultType DEF WriteDropIn, Helper, Answers
<1>9. CASE CheckConfig
  BY <1>9, FaultType DEF CheckConfig, Proceed, Helper
<1>10. CASE RestorePreviousDropIn
  BY <1>10, ReplyType, FaultType DEF RestorePreviousDropIn, Helper
<1>11. CASE RestartSSHD
  BY <1>11, ReplyType, FaultType DEF RestartSSHD, Elects, Answers
<1>12. CASE Drift
  BY <1>12, FaultType DEF Drift, Elects, Answers
<1>13. CASE Duplicate
  BY <1>13, FaultType, FileTypes DEF Duplicate, Listed
<1>14. CASE HelperDeath
  BY <1>14, ReplyType, FaultType DEF HelperDeath
<1>15. CASE SSHDStarts
  BY <1>15 DEF SSHDStarts, Elects, Answers
<1>16. CASE UNCHANGED vars
  BY <1>16 DEF vars
<1> QED
  BY <1>1, <1>2, <1>3, <1>4, <1>5, <1>6, <1>7, <1>8, <1>9, <1>10, <1>11, <1>12, <1>13, <1>14,
     <1>15, <1>16
     DEF Next, RebuildSSHHardeningConfig

LEMMA InitType == ASSUME Init PROVE TypeOK
<1>1. harmed \in BOOLEAN /\ apart \in BOOLEAN /\ faults \in 0..MaxFaults
  <2>1. harmed = FALSE /\ apart = FALSE /\ faults = 0 BY DEF Init
  <2>2. faults \in 0..MaxFaults BY <2>1, FaultsAssumption
  <2> QED BY <2>1, <2>2
<1>2. session \in [Sessions -> Session] /\ helper \in Helper
  BY NoSessionType DEF Init
<1>3. lines \in Files /\ dropin \in Answers \cup {"omitted"} /\ rest \in Answers
        /\ sshd \in Answers
  BY DEF Init, Elects, Answers
<1> QED BY <1>1, <1>2, <1>3 DEF TypeOK

(* Every reachable state is well typed, under any of the faults            *)
(* (ListAuthorizedKeys, BuildSSHHardeningConfig).                          *)
THEOREM TypeCorrect == Spec => []TypeOK
  BY InitType, NextType, PTL DEF Spec

-------------------------------------------------------------------------------
(* The invariant is kept, action by action.                                *)

LEMMA InitSound == ASSUME Init PROVE IInv
<1>1. TypeOK BY InitType
<1> USE DEF Init
<1>2. sshd = Elected /\ Elected \in Answers BY DEF Elected, Elects, Answers
<1>3. StartsOpen BY <1>2 DEF StartsOpen, Elected
<1>4. HelperSound BY <1>2 DEF HelperSound, NoHelper
<1>5. ASSUME NEW s \in Sessions PROVE SessionSound(s)
  <2>1. session[s].pc = "idle" /\ session[s].content = Empty BY <1>5 DEF NoSession
  <2> QED BY <2>1 DEF SessionSound, At, Empty
<1>6. \A k \in Keys : lines[k] <= 1 OBVIOUS
<1> QED BY <1>1, <1>3, <1>4, <1>5, <1>6 DEF IInv

(* A step of a session that changes only its own record and the count of   *)
(* faults.                                                                 *)
LEMMA OwnStepSound ==
  ASSUME IInv, TypeOK', UNCHANGED <<lines, dropin, rest, sshd, helper, apart>>,
         NEW s \in Sessions, SessionSound(s)',
         \A r \in Sessions \ {s} : session'[r] = session[r]
  PROVE  IInv'
<1>1. StartsOpen' /\ (\A k \in Keys : lines'[k] <= 1) BY DEF IInv, StartsOpen
<1>2. HelperSound' BY DEF IInv, HelperSound, Elected, Before
<1>3. ASSUME NEW r \in Sessions PROVE SessionSound(r)'
  BY <1>3 DEF IInv, SessionSound, At, Elected
<1> QED BY <1>1, <1>2, <1>3 DEF IInv

LEMMA IdleSound ==
  ASSUME IInv, NEW s \in Sessions, Leave(s) PROVE SessionSound(s)'
  BY DEF IInv, TypeOK, Leave, SessionSound, At, NoSession, Empty

LEMMA BeginSound ==
  ASSUME IInv, TypeOK', NEW s \in Sessions, Begin(s) PROVE IInv'
<1>1. PICK k \in Keys, l \in {"add.list", "remove.read"} :
        session' = [session EXCEPT ![s].pc = l, ![s].key = k]
  BY DEF Begin
<1>2. SessionSound(s)' BY <1>1 DEF IInv, TypeOK, SessionSound, At, Session
<1>3. \A r \in Sessions \ {s} : session'[r] = session[r] BY <1>1 DEF IInv, TypeOK
<1> QED BY <1>2, <1>3, OwnStepSound DEF Begin

LEMMA QuitSound == ASSUME IInv, TypeOK', NEW s \in Sessions, Quit(s) PROVE IInv'
<1>1. \A r \in Sessions \ {s} : session'[r] = session[r] BY DEF IInv, TypeOK, Quit, Leave
<1> QED BY <1>1, IdleSound, OwnStepSound DEF Quit

LEMMA AppendSound ==
  ASSUME IInv, TypeOK', NEW s \in Sessions, AppendAuthorizedKey(s) PROVE IInv'
<1> DEFINE k == session[s].key
<1>1. UNCHANGED <<lines, dropin, rest, sshd, helper, apart>> BY DEF AppendAuthorizedKey
<1>2. \A r \in Sessions \ {s} : session'[r] = session[r]
  BY DEF IInv, TypeOK, AppendAuthorizedKey, Leave, Goto, WriteBack
<1>3. k \in Keys BY DEF AppendAuthorizedKey, IInv, SessionSound, At
<1>4. CASE Leave(s) BY <1>1, <1>2, <1>4, IdleSound, OwnStepSound
<1>5. CASE k \notin Listed(lines) /\ Goto(s, "add.read")
  <2>1. lines[k] = 0 BY <1>3, <1>5 DEF Listed, IInv, TypeOK, Files
  <2>2. SessionSound(s)'
    BY <1>1, <1>3, <1>5, <2>1 DEF IInv, TypeOK, SessionSound, At, Goto, Session
  <2> QED BY <1>1, <1>2, <2>2, OwnStepSound
<1>6. ASSUME NEW c \in Files, WriteBack(s, c), c[k] = 1, \A j \in Keys : c[j] <= 1
      PROVE  IInv'
  <2>1. c # Empty BY <1>3, <1>6 DEF Empty
  <2>2. session'[s].pc = "write" /\ session'[s].content = c /\ session'[s].key = k
    BY <1>6 DEF WriteBack, IInv, TypeOK, Session
  <2>3. SessionSound(s)' BY <1>3, <1>6, <2>1, <2>2 DEF SessionSound, At, Empty
  <2> QED BY <1>1, <1>2, <2>3, OwnStepSound
<1>7. CASE At(s, "add.read") /\ WriteBack(s, [lines EXCEPT ![k] = @ + 1])
             /\ lines[k] < MaxCopies
  <2> DEFINE c == [lines EXCEPT ![k] = @ + 1]
  <2>1. lines \in Files /\ lines[k] = 0 /\ \A j \in Keys : lines[j] \in Nat /\ lines[j] <= 1
    BY <1>3, <1>7, CopiesBound DEF IInv, TypeOK, SessionSound, Files
  <2>2. c \in Files BY <1>3, <1>7, <2>1, FileTypes
  <2>3. c[k] = 1 /\ \A j \in Keys : c[j] <= 1 BY <1>3, <2>1 DEF Files
  <2> QED BY <1>6, <1>7, <2>2, <2>3
<1>8. CASE WriteBack(s, [Empty EXCEPT ![k] = 1])
  <2> DEFINE c == [Empty EXCEPT ![k] = 1]
  <2>1. c \in Files /\ c[k] = 1 /\ \A j \in Keys : c[j] <= 1
    BY <1>3, FileTypes DEF Empty
  <2> QED BY <1>6, <1>8, <2>1
<1> QED BY <1>4, <1>5, <1>7, <1>8 DEF AppendAuthorizedKey

LEMMA RemoveSound ==
  ASSUME IInv, TypeOK', OneSession, NEW s \in Sessions, RemoveAuthorizedKey(s) PROVE IInv'
<1> DEFINE k == session[s].key
           c == Without(lines, k)
<1>1. UNCHANGED <<lines, dropin, rest, sshd, helper, apart>> BY DEF RemoveAuthorizedKey
<1>2. \A r \in Sessions \ {s} : session'[r] = session[r]
  BY DEF IInv, TypeOK, RemoveAuthorizedKey, Leave, Goto, WriteBack
<1>3. k \in Keys BY DEF RemoveAuthorizedKey, IInv, SessionSound, At
<1>4. lines \in Files /\ \A j \in Keys : lines[j] \in Nat /\ lines[j] <= 1
  BY CopiesBound DEF IInv, TypeOK, Files
<1>5. c \in Files /\ \A j \in Keys : c[j] <= 1 BY <1>3, <1>4, FileTypes DEF Without, Files
<1>6. CASE Leave(s) BY <1>1, <1>2, <1>6, IdleSound, OwnStepSound
<1>7. CASE ~AtMostOneLine(lines) /\ WriteBack(s, c)
  <2>1. PICK i, j \in Listed(lines) : ~(i = j /\ lines[i] = 1)
    BY <1>7 DEF AtMostOneLine
  <2>2. lines[i] = 1 /\ lines[j] = 1 /\ i \in Keys /\ j \in Keys BY <1>4, <2>1 DEF Listed
  <2>3. PICK n \in Keys : n # k /\ lines[n] = 1 BY <2>1, <2>2
  <2>4. c[n] = 1 BY <2>3, <1>4 DEF Without, Files
  <2>5. c # Empty BY <2>4 DEF Empty
  <2>6. session'[s].pc = "write" /\ session'[s].content = c /\ session'[s].key = k
    BY <1>7 DEF WriteBack, IInv, TypeOK, Session
  <2>7. SessionSound(s)' BY <1>3, <1>5, <2>5, <2>6 DEF SessionSound, At, Empty
  <2> QED BY <1>1, <1>2, <2>7, OwnStepSound
<1>8. CASE session' = [session EXCEPT ![s].pc = "remove.ask", ![s].content = c]
  <2>1. session'[s].pc = "remove.ask" /\ session'[s].content = c /\ session'[s].key = k
    BY <1>8 DEF IInv, TypeOK, Session
  <2>2. SessionSound(s)' BY <1>3, <1>5, <2>1 DEF SessionSound, At
  <2> QED BY <1>1, <1>2, <2>2, OwnStepSound
<1>9. CASE At(s, "remove.ask") /\ helper.pc = "idle" /\ Elects(dropin, rest) = "yes"
             /\ Goto(s, "write")
  <2>1. Elected = "yes" BY <1>9 DEF Elected
  <2>2. session'[s].pc = "write" /\ session'[s].content = session[s].content
          /\ session'[s].key = k
    BY <1>9 DEF Goto, IInv, TypeOK, Session
  <2>3. SessionSound(s)' BY <1>1, <1>3, <1>9, <2>1, <2>2 DEF SessionSound, At, IInv, Elected
  <2> QED BY <1>1, <1>2, <2>3, OwnStepSound
<1> QED BY <1>6, <1>7, <1>8, <1>9 DEF RemoveAuthorizedKey

LEMMA WriteSound ==
  ASSUME IInv, TypeOK', OneSession, NEW s \in Sessions, WriteAuthorizedKeys(s) PROVE IInv'
<1>1. CASE UNCHANGED lines
  <2>1. \A r \in Sessions \ {s} : session'[r] = session[r]
    BY DEF IInv, TypeOK, WriteAuthorizedKeys, Leave
  <2> QED BY <1>1, <2>1, IdleSound, OwnStepSound DEF WriteAuthorizedKeys
<1>2. CASE lines' = session[s].content
  <2>1. UNCHANGED <<dropin, rest, sshd, helper, apart>> BY DEF WriteAuthorizedKeys
  <2>2. lines' = Empty => helper.pc = "idle" /\ Elected = "yes"
    BY <1>2 DEF WriteAuthorizedKeys, IInv, SessionSound
  <2>3. StartsOpen' BY <2>1, <2>2 DEF StartsOpen, Elected
  <2>4. \A k \in Keys : lines'[k] <= 1 BY <1>2 DEF IInv, SessionSound
  <2>5. HelperSound' BY <2>1, <2>2 DEF IInv, HelperSound, Empty, Elected, Before
  <2>6. ASSUME NEW r \in Sessions PROVE SessionSound(r)'
    BY <2>6, IdleSound DEF OneSession, WriteAuthorizedKeys
  <2> QED BY <2>3, <2>4, <2>5, <2>6 DEF IInv
<1> QED BY <1>1, <1>2 DEF WriteAuthorizedKeys

LEMMA RequestSound ==
  ASSUME IInv, TypeOK', OneSession, NEW s \in Sessions, SetSSHPasswordAuth(s) PROVE IInv'
<1>1. UNCHANGED <<lines, dropin, rest, sshd, apart>> BY DEF SetSSHPasswordAuth
<1>2. StartsOpen' /\ (\A k \in Keys : lines'[k] <= 1) BY <1>1 DEF IInv, StartsOpen
<1>3. helper'.pc = "guard" /\ helper.pc = "idle"
  BY DEF SetSSHPasswordAuth, NoHelper
<1>4. HelperSound' BY <1>1, <1>3 DEF IInv, HelperSound, Elected, Before
<1>5. session'[s].pc = "call" /\ session'[s].content = session[s].content
  BY DEF SetSSHPasswordAuth, Goto, IInv, TypeOK, Session
<1>6. SessionSound(s)' BY <1>1, <1>5 DEF SessionSound, At, IInv
<1>7. \A r \in Sessions : r = s BY DEF OneSession
<1> QED BY <1>2, <1>4, <1>6, <1>7 DEF IInv

-------------------------------------------------------------------------------
(* The helper.  Its single client either waits for the reply or has begun  *)
(* something else.                                                         *)

LEMMA HelperStepSound ==
  ASSUME IInv, TypeOK', UNCHANGED lines, HelperSound', StartsOpen',
         \A s \in Sessions : session'[s] \in {session[s], NoSession},
         helper.pc # "idle"
  PROVE  IInv'
<1>1. \A k \in Keys : lines'[k] <= 1 BY DEF IInv
<1>2. ASSUME NEW s \in Sessions PROVE SessionSound(s)'
  <2>1. CASE session'[s] = NoSession BY <2>1 DEF SessionSound, At, NoSession, Empty
  <2>2. CASE session'[s] = session[s] BY <2>2 DEF IInv, SessionSound, At, Empty
  <2> QED BY <2>1, <2>2
<1> QED BY <1>1, <1>2 DEF IInv

LEMMA ReplySound ==
  ASSUME IInv, Reply
  PROVE  /\ \A s \in Sessions : session'[s] \in {session[s], NoSession}
         /\ helper'.pc = "idle"
  BY DEF Reply, NoHelper

(* A reply that leaves the files and sshd alone, or apart.                 *)
LEMMA ReplyKeeps ==
  ASSUME IInv, TypeOK', Reply, helper.pc # "idle", UNCHANGED <<lines, dropin, rest>>,
         apart' \/ sshd' = Elected
  PROVE  IInv'
<1>1. StartsOpen' BY DEF IInv, StartsOpen
<1>2. HelperSound' BY ReplySound DEF IInv, HelperSound, Elected
<1> QED BY <1>1, <1>2, ReplySound, HelperStepSound

LEMMA RefuseSound == ASSUME IInv, TypeOK', RefuseLockout PROVE IInv'
<1>1. UNCHANGED <<lines, dropin, rest, sshd, apart>> /\ helper.pc = "guard"
  BY DEF RefuseLockout
<1>2. StartsOpen' BY <1>1 DEF IInv, StartsOpen
<1>3. CASE Reply BY <1>1, <1>3, ReplyKeeps DEF IInv, HelperSound, TypeOK
<1>4. CASE Proceed("write") /\ ~(helper.target = "no" /\ lines = Empty)
  <2>1. helper'.pc = "write" /\ helper'.target = helper.target /\ helper'.prev = helper.prev
    BY <1>4 DEF Proceed, IInv, TypeOK, Helper
  <2>2. HelperSound' BY <1>1, <1>4, <2>1 DEF IInv, HelperSound, Empty, Elected, Before
  <2> QED BY <1>1, <1>2, <1>4, <2>2, HelperStepSound DEF Proceed
<1> QED BY <1>3, <1>4 DEF RefuseLockout

LEMMA DropInSound == ASSUME IInv, TypeOK', WriteDropIn PROVE IInv'
<1>1. UNCHANGED <<lines, rest, sshd, apart>> /\ helper.pc = "write" BY DEF WriteDropIn
<1>2. CASE Reply /\ UNCHANGED dropin
  BY <1>1, <1>2, ReplyKeeps DEF IInv, HelperSound, TypeOK
<1>3. CASE /\ dropin' = helper.target /\ UNCHANGED session
           /\ helper' = [helper EXCEPT !.pc = "check", !.prev = dropin]
  <2>1. helper'.pc = "check" /\ helper'.target = helper.target /\ helper'.prev = dropin
          /\ helper.target \in Answers
    BY <1>3 DEF IInv, TypeOK, Helper
  <2>2. Elected' = helper.target /\ Before' = Elected
    BY <1>1, <1>3, <2>1 DEF Elected, Before, Elects, Answers
  <2>3. Elected = "no" => lines # Empty BY DEF IInv, StartsOpen, Elected
  <2>4. helper.target = "no" => lines # Empty BY <1>1 DEF IInv, HelperSound
  <2>5. StartsOpen' BY <1>1, <2>1, <2>2, <2>4 DEF StartsOpen, Elected, Answers
  <2>6. HelperSound' BY <1>1, <1>3, <2>1, <2>2, <2>3, <2>4 DEF IInv, HelperSound, Empty
  <2> QED BY <1>1, <1>3, <2>5, <2>6, HelperStepSound
<1> QED BY <1>2, <1>3 DEF WriteDropIn

LEMMA CheckSound == ASSUME IInv, TypeOK', CheckConfig PROVE IInv'
<1>1. UNCHANGED <<lines, dropin, rest, sshd, apart>> /\ helper.pc = "check"
  BY DEF CheckConfig
<1>2. StartsOpen' BY <1>1 DEF IInv, StartsOpen
<1>3. PICK l \in {"restart", "restore"} : Proceed(l) BY DEF CheckConfig
<1>4. helper'.pc = l /\ helper'.target = helper.target /\ helper'.prev = helper.prev
  BY <1>3 DEF Proceed, IInv, TypeOK, Helper
<1>5. HelperSound' BY <1>1, <1>4 DEF IInv, HelperSound, Empty, Elected, Before
<1> QED BY <1>1, <1>2, <1>3, <1>5, HelperStepSound DEF Proceed

LEMMA RestoreSound == ASSUME IInv, TypeOK', RestorePreviousDropIn PROVE IInv'
<1>1. UNCHANGED <<lines, rest, sshd>> /\ helper.pc = "restore" /\ Reply
  BY DEF RestorePreviousDropIn
<1>2. CASE UNCHANGED dropin /\ apart' = TRUE
  BY <1>1, <1>2, ReplyKeeps
<1>3. CASE dropin' = helper.prev /\ UNCHANGED apart
  <2>1. Elected' = Before BY <1>1, <1>3 DEF Elected, Before
  <2>2. StartsOpen' BY <1>1, <2>1 DEF IInv, HelperSound, StartsOpen, Elected, Answers
  <2>3. HelperSound' BY <1>1, <1>3, <2>1, ReplySound DEF IInv, HelperSound
  <2> QED BY <1>1, <2>2, <2>3, ReplySound, HelperStepSound
<1> QED BY <1>2, <1>3 DEF RestorePreviousDropIn

LEMMA RestartSound == ASSUME IInv, TypeOK', RestartSSHD PROVE IInv'
<1>1. UNCHANGED <<lines, dropin, rest>> /\ helper.pc = "restart" /\ Reply
        /\ (apart' \/ sshd' = Elected)
  BY DEF RestartSSHD, Elected
<1> QED BY <1>1, ReplyKeeps

LEMMA DeathSound == ASSUME IInv, TypeOK', HelperDeath PROVE IInv'
<1>1. UNCHANGED <<lines, dropin, rest, sshd>> /\ helper.pc # "idle" /\ Reply
        /\ (~apart' => ~apart /\ helper.pc \in {"guard", "write"})
  BY DEF HelperDeath, IInv, TypeOK, Helper
<1> QED BY <1>1, ReplyKeeps DEF IInv, HelperSound, TypeOK

-------------------------------------------------------------------------------
(* An sshd that starts, and tooling, while the helper is idle.             *)

LEMMA OutsideSound ==
  ASSUME IInv, TypeOK', UNCHANGED <<lines, dropin, session, helper>>, helper.pc = "idle",
         Elected' = Elected, apart' \/ sshd' = Elected
  PROVE  IInv'
<1>1. StartsOpen' BY DEF IInv, StartsOpen, Elected
<1>2. HelperSound' BY DEF IInv, HelperSound
<1>3. \A s \in Sessions : SessionSound(s)' BY DEF IInv, SessionSound, At, Empty
<1>4. \A k \in Keys : lines'[k] <= 1 BY DEF IInv
<1> QED BY <1>1, <1>2, <1>3, <1>4 DEF IInv

LEMMA StartsSound == ASSUME IInv, TypeOK', SSHDStarts PROVE IInv'
  BY OutsideSound DEF SSHDStarts, Elected

LEMMA DriftSound == ASSUME IInv, TypeOK', ~harmed', Drift PROVE IInv'
<1>1. UNCHANGED <<lines, dropin, session, helper>> /\ helper.pc = "idle" /\ dropin # "omitted"
  BY DEF Drift
<1>2. Elected' = Elected BY <1>1 DEF Elected, Elects
<1>3. apart' \/ sshd' = Elected
  <2>1. CASE rest' = "broken"
    BY <1>1, <2>1 DEF Drift, IInv, HelperSound, TypeOK
  <2>2. CASE rest' # "broken"
    BY <1>1, <1>2, <2>2 DEF Drift, Elected
  <2> QED BY <2>1, <2>2
<1> QED BY <1>1, <1>2, <1>3, OutsideSound

LEMMA NextSound == ASSUME IInv, OneSession, ~harmed', [Next]_vars PROVE IInv'
<1>1. TypeOK' BY NextType DEF IInv
<1>2. CASE UNCHANGED vars
  BY <1>1, <1>2 DEF vars, IInv, StartsOpen, HelperSound, SessionSound, At, Elected, Before
<1>3. ~Duplicate BY DEF Duplicate
<1> QED
  BY <1>1, <1>2, <1>3, BeginSound, QuitSound, AppendSound, RemoveSound, WriteSound,
     RequestSound, RefuseSound, DropInSound, CheckSound, RestoreSound, RestartSound,
     DeathSound, StartsSound, DriftSound
     DEF Next, RebuildSSHHardeningConfig

LEMMA HarmStays == ASSUME [Next]_vars, harmed PROVE harmed'
<1>1. CASE UNCHANGED vars BY <1>1 DEF vars
<1>2. ASSUME NEW s \in Sessions,
             \/ Begin(s) \/ AppendAuthorizedKey(s) \/ RemoveAuthorizedKey(s)
             \/ WriteAuthorizedKeys(s) \/ SetSSHPasswordAuth(s) \/ Quit(s)
      PROVE  harmed'
  BY <1>2 DEF Begin, AppendAuthorizedKey, RemoveAuthorizedKey, WriteAuthorizedKeys,
     SetSSHPasswordAuth, Quit
<1>3. CASE RefuseLockout \/ WriteDropIn \/ CheckConfig \/ RestorePreviousDropIn
  BY <1>3 DEF RefuseLockout, WriteDropIn, CheckConfig, RestorePreviousDropIn
<1>4. CASE RestartSSHD \/ HelperDeath \/ SSHDStarts \/ Drift \/ Duplicate
  BY <1>4 DEF RestartSSHD, HelperDeath, SSHDStarts, Drift, Duplicate
<1> QED BY <1>1, <1>2, <1>3, <1>4 DEF Next, RebuildSSHHardeningConfig

LEMMA Inductive ==
  ASSUME OneSession
  PROVE  /\ Init => Sound
         /\ Sound /\ [Next]_vars => Sound'
<1>1. Init => Sound BY InitSound, InitType DEF Sound
<1>2. ASSUME Sound, [Next]_vars PROVE Sound'
  <2>1. TypeOK' BY <1>2, NextType DEF Sound
  <2>2. ASSUME ~harmed' PROVE IInv'
    <3>1. ~harmed BY <1>2, <2>2, HarmStays
    <3> QED BY <1>2, <2>2, <3>1, NextSound DEF Sound
  <2> QED BY <2>1, <2>2 DEF Sound
<1> QED BY <1>1, <1>2

(* Only a restart and tooling change what sshd runs; only a session and an *)
(* editor change the keys.                                                 *)
LEMMA WhoChanges ==
  ASSUME [Next]_vars, ~harmed', rest' = rest
  PROVE  /\ sshd' # sshd => sshd' = Elected /\ lines' = lines
         /\ lines' # lines =>
              /\ UNCHANGED <<dropin, sshd, helper, apart>>
              /\ \E s \in Sessions : At(s, "write") /\ lines' = session[s].content
<1>1. CASE UNCHANGED vars BY <1>1 DEF vars
<1>2. ASSUME NEW s \in Sessions,
             \/ Begin(s) \/ AppendAuthorizedKey(s) \/ RemoveAuthorizedKey(s)
             \/ WriteAuthorizedKeys(s) \/ SetSSHPasswordAuth(s) \/ Quit(s)
      PROVE  /\ UNCHANGED <<dropin, sshd, apart>>
             /\ lines' # lines => /\ UNCHANGED helper /\ At(s, "write")
                                  /\ lines' = session[s].content
  BY <1>2 DEF Begin, AppendAuthorizedKey, RemoveAuthorizedKey, WriteAuthorizedKeys,
     SetSSHPasswordAuth, Quit
<1>3. CASE RefuseLockout \/ WriteDropIn \/ CheckConfig \/ RestorePreviousDropIn
  BY <1>3 DEF RefuseLockout, WriteDropIn, CheckConfig, RestorePreviousDropIn
<1>4. CASE RestartSSHD \/ HelperDeath \/ SSHDStarts
  BY <1>4 DEF RestartSSHD, HelperDeath, SSHDStarts, Elected
<1>5. ~Drift /\ ~Duplicate BY DEF Drift, Duplicate
<1> QED BY <1>1, <1>2, <1>3, <1>4, <1>5 DEF Next, RebuildSSHHardeningConfig

(* With one session at a time, no step of the program, and no sshd that    *)
(* starts, closes the last way into the node, except that a session may    *)
(* remove the last key while an unfinished change keeps the files and sshd *)
(* apart; and the files never come to leave no way in (RemoveAuthorizedKey, *)
(* RebuildSSHHardeningConfig).                                             *)
THEOREM KeepsAWayIn == ASSUME OneSession PROVE Spec => NeverLocksOut
<1>1. Init => Sound BY Inductive
<1>2. Sound /\ [Next]_vars => Sound' BY Inductive
<1>3. ASSUME Sound, Sound', [Next]_vars
      PROVE  [~harmed' /\ rest' = rest =>
                /\ CanLogIn => CanLogIn' \/ (apart /\ lines' # lines)
                /\ StartsOpen => StartsOpen']_vars
  <2>1. SUFFICES ASSUME ~harmed', rest' = rest
                 PROVE  /\ CanLogIn => CanLogIn' \/ (apart /\ lines' # lines)
                        /\ StartsOpen => StartsOpen'
    OBVIOUS
  <2>2. IInv /\ IInv' BY <1>3, <2>1, HarmStays DEF Sound
  <2>3. StartsOpen' BY <2>2 DEF IInv
  <2>4. CASE lines' = lines
    <3>1. CASE sshd' = sshd BY <2>3, <2>4, <3>1 DEF CanLogIn
    <3>2. CASE sshd' # sshd
      BY <1>3, <2>1, <2>2, <2>4, <3>2, WhoChanges DEF IInv, StartsOpen, CanLogIn, Elected
    <3> QED BY <2>3, <3>1, <3>2
  <2>5. CASE lines' # lines /\ ~apart
    <3>1. PICK s \in Sessions : At(s, "write") /\ lines' = session[s].content
      BY <1>3, <2>1, <2>5, WhoChanges
    <3>2. UNCHANGED sshd BY <1>3, <2>1, <2>5, WhoChanges
    <3>3. lines' = Empty => sshd = "yes"
      BY <2>2, <2>5, <3>1 DEF IInv, SessionSound, HelperSound
    <3> QED BY <2>3, <3>2, <3>3 DEF CanLogIn
  <2> QED BY <2>3, <2>4, <2>5
<1> QED BY <1>1, <1>2, <1>3, PTL DEF Spec, NeverLocksOut

-------------------------------------------------------------------------------
(* The files and sshd agree, as long as nothing is left unfinished: for    *)
(* any sessions and faults.                                                *)
Agree ==
  ~apart /\ rest # "broken" =>
    /\ helper.pc \in {"idle", "guard", "write"} => sshd = Elected
    /\ helper.pc \in {"check", "restore", "restart"} => sshd = Before

LEMMA NextAgrees == ASSUME TypeOK, Agree, [Next]_vars PROVE Agree'
<1> USE DEF Agree, Elected, Before
<1>1. ASSUME NEW s \in Sessions,
             \/ Begin(s) \/ AppendAuthorizedKey(s) \/ RemoveAuthorizedKey(s)
             \/ WriteAuthorizedKeys(s) \/ Quit(s)
      PROVE  Agree'
  <2>1. UNCHANGED <<dropin, rest, sshd, helper, apart>>
    BY <1>1 DEF Begin, AppendAuthorizedKey, RemoveAuthorizedKey, WriteAuthorizedKeys, Quit
  <2> QED BY <2>1
<1>2. ASSUME NEW s \in Sessions, SetSSHPasswordAuth(s) PROVE Agree'
  BY <1>2 DEF SetSSHPasswordAuth, NoHelper
<1>3. CASE RefuseLockout
  <2>1. helper'.pc \in {"idle", "write"} /\ helper.pc = "guard"
    BY <1>3 DEF RefuseLockout, Reply, Proceed, NoHelper, TypeOK, Helper
  <2> QED BY <1>3, <2>1 DEF RefuseLockout
<1>4. CASE WriteDropIn
  <2>1. helper.pc = "write" /\ UNCHANGED <<rest, sshd, apart>>
    BY <1>4 DEF WriteDropIn
  <2>2. CASE helper' = [helper EXCEPT !.pc = "check", !.prev = dropin]
    <3>1. helper'.pc = "check" /\ helper'.prev = dropin
      BY <2>2 DEF TypeOK, Helper
    <3> QED BY <2>1, <3>1
  <2>3. CASE Reply /\ UNCHANGED dropin
    <3>1. helper'.pc = "idle" BY <2>3 DEF Reply, NoHelper
    <3> QED BY <2>1, <2>3, <3>1
  <2> QED BY <1>4, <2>2, <2>3 DEF WriteDropIn
<1>5. CASE CheckConfig
  BY <1>5 DEF CheckConfig, Proceed, TypeOK, Helper
<1>6. CASE RestorePreviousDropIn
  BY <1>6 DEF RestorePreviousDropIn, Reply, NoHelper
<1>7. CASE RestartSSHD
  BY <1>7 DEF RestartSSHD, Reply, NoHelper
<1>8. CASE HelperDeath
  BY <1>8 DEF HelperDeath, Reply, NoHelper, TypeOK, Helper
<1>9. CASE SSHDStarts \/ Drift \/ Duplicate
  BY <1>9 DEF SSHDStarts, Drift, Duplicate, TypeOK
<1>10. CASE UNCHANGED vars
  BY <1>10 DEF vars
<1> QED
  BY <1>1, <1>2, <1>3, <1>4, <1>5, <1>6, <1>7, <1>8, <1>9, <1>10
     DEF Next, RebuildSSHHardeningConfig

(* With any number of sessions and any faults, the answer of `sshd -T` is  *)
(* the running sshd's whenever the helper can be asked and no request has  *)
(* failed or been cut off since sshd last started                          *)
(* (EffectiveSSHPasswordAuth).                                             *)
THEOREM FilesAgree == Spec => []FilesTellTheTruth
<1>1. Init => TypeOK /\ Agree
  <2>1. Init => sshd = Elected /\ helper.pc = "idle" /\ apart = FALSE
    BY DEF Init, Elected, NoHelper
  <2> QED BY <2>1, InitType DEF Agree
<1>2. TypeOK /\ Agree /\ [Next]_vars => TypeOK' /\ Agree'
  BY NextType, NextAgrees
<1>3. TypeOK /\ Agree => FilesTellTheTruth
  BY DEF Agree, FilesTellTheTruth, Elected
<1> QED BY <1>1, <1>2, <1>3, PTL DEF Spec
===============================================================================
