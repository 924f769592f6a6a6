------------------------------- MODULE Helper -------------------------------
(***************************************************************************)
(* The root helper (internal/helperd), the client that asks it for an      *)
(* operation (internal/helper), the hybrid P2P upgrade, the self-update    *)
(* and the LND certificate whose staged copy the terminal UI dials with    *)
(* (internal/lndrpc).                                                      *)
(*                                                                         *)
(* A slot is one connection: its request waits in the socket's queue until *)
(* the helper accepts it, and its stream of events can still be read after *)
(* the helper has closed it.  systemd starts the helper when a connection  *)
(* waits.  An operation is the sequence of steps Body[verb]; the first     *)
(* step that fails ends it, nothing is rolled back.                        *)
(*                                                                         *)
(* Faults (MaxFaults in all): a step fails, the verb's deadline passes,    *)
(* the client's program dies, the helper is killed, LND crashes, the       *)
(* machine loses power.                                                    *)
(***************************************************************************)
EXTENDS Naturals, Sequences, FiniteSets

CONSTANTS Slots,        \* connections that exist at once
          NoSlot,
          Verbs,        \* operations the operator asks for
          MaxRequests,  \* bound: requests of the operator
          MaxFaults,    \* bound: faults
          MaxCerts      \* bound: certificates renewed because they expired

ASSUME HelperAssumption ==
    /\ NoSlot \notin Slots
    /\ IsFiniteSet(Slots)
    /\ Verbs \subseteq {"p2p", "selfUpdate", "restart", "packages", "reboot",
                        "credentials", "read"}
    /\ MaxRequests \in Nat /\ MaxFaults \in Nat /\ MaxCerts \in Nat

VARIABLES
    conns,      \* slot -> the connection
    queue,      \* connections the helper has not accepted, oldest first
    helper,     \* the helper process
    installed,  \* version of the installed binary
    config,     \* P2PMode in the published configuration
    conf,       \* P2P mode that lnd.conf asks for
    rules,      \* the two firewall rules of hybrid mode exist
    lnd,        \* "down", or the P2P mode LND was started with
    cert,       \* LND's certificate: [gen, mode]
    board,      \* generation of the certificate copy on the staging board
    watch,      \* lnd-cert-watch: the path unit and its stage service
    client,     \* the terminal UI's LND client
    spent       \* how much of each bound is used

nodeState == <<config, conf, rules, lnd, cert, board, watch>>
vars == <<conns, queue, helper, installed, nodeState, client, spent>>

(***************************************************************************)
(* The operations.                                                         *)
(***************************************************************************)
AllVerbs == Verbs \cup {"credentials"}

\* Mutant of P2PBody: the setting is published before the node has it.
P2PBodyPublishedEarly ==
    <<"mode", "ufw", "conf", "publish", "rules", "restartLND", "san",
      "copyCert", "stageCert">>

P2PBody ==
    <<"mode", "ufw", "conf", "rules", "restartLND", "san", "copyCert",
      "stageCert", "publish">>

SelfUpdateBody == <<"major", "fetch", "signature", "checksum", "install">>

PackagesBody == <<"refresh", "upgrade", "audit">>

RestartBody == <<"restartLND", "copyCert", "stageCert">>

CredentialsBody == <<"copyCert", "stageCert">>

Body(verb) ==
    CASE verb = "p2p"         -> P2PBody
      [] verb = "selfUpdate"  -> SelfUpdateBody
      [] verb = "packages"    -> PackagesBody
      [] verb = "restart"     -> RestartBody
      [] verb = "credentials" -> CredentialsBody
      [] verb = "read"        -> <<"read">>
      [] verb = "reboot"      -> <<"plan">>

\* The steps whose completion is reported, as positions in the body.
Reported(verb) ==
    CASE verb = "p2p"        -> {2, 3, 4, 5, 6, 8, 9}
      [] verb = "selfUpdate" -> 2..5
      [] verb = "packages"   -> 1..2
      [] OTHER               -> {}

Names(verb) == Cardinality(Reported(verb))

(***************************************************************************)
(* Connections.                                                            *)
(***************************************************************************)
NoConn == [stage |-> "idle", verb |-> "none", sent |-> FALSE, gone |-> FALSE,
           performed |-> 0, steps |-> 0, end |-> "none"]

Whole(c) == c.performed = Len(Body(c.verb))

\* What the client makes of the stream once it is complete: buildHelperSteps
\* waits for every step by its number, then for the terminator.
\* Mutant of Verdict: the end of the stream after the last step is success.
VerdictWithoutEnd(c) ==
    CASE c.end = "error" -> "error"
      [] c.end = "none" /\ (Names(c.verb) = 0 \/ c.steps < Names(c.verb)) -> "lost"
      [] OTHER -> "ok"

Verdict(c) ==
    CASE c.end = "none"  -> "lost"
      [] c.end = "error" -> "error"
      [] c.end = "ok" /\ c.steps = Names(c.verb) -> "ok"
      [] OTHER -> "drift"

Restore(k) == conns' = [conns EXCEPT ![k] = NoConn]

\* The connection ends; if its client is gone nobody will read the stream.
Closed(k, end) ==
    IF conns[k].gone THEN NoConn
    ELSE [conns[k] EXCEPT !.stage = "closed", !.end = end]

\* Connections have no identity of their own: any unused slot will do.
Vacant(k) ==
    /\ conns[k].stage = "idle"
    /\ k = CHOOSE j \in Slots : conns[j].stage = "idle"

Connect(k, verb, sent) ==
    /\ Vacant(k)
    /\ conns' = [conns EXCEPT ![k] =
                    [NoConn EXCEPT !.stage = "queued", !.verb = verb, !.sent = sent]]
    /\ queue' = Append(queue, k)

TypeOK ==
    /\ conns \in [Slots -> [stage : {"idle", "queued", "served", "closed"},
                            verb : AllVerbs \cup {"none"},
                            sent : BOOLEAN, gone : BOOLEAN,
                            performed : 0..9, steps : 0..7,
                            end : {"none", "ok", "error"}]]
    /\ queue \in Seq(Slots)
    /\ helper \in [pc : {"down", "accept", "header", "run", "end", "after"},
                   conn : Slots \cup {NoSlot}, failed : BOOLEAN,
                   expired : BOOLEAN, copy : Nat, version : {"old", "new"}]
    /\ installed \in {"old", "new"}
    /\ config \in {"tor", "hybrid"} /\ conf \in {"tor", "hybrid"}
    /\ rules \in BOOLEAN
    /\ lnd \in {"down", "tor", "hybrid"}
    /\ cert \in [gen : Nat, mode : {"tor", "hybrid"}]
    /\ board \in 1..cert.gen
    /\ watch \in [pc : {"idle", "triggered", "staging"}, copy : Nat]
    /\ client \in [held : Nat, due : BOOLEAN, slot : Slots \cup {NoSlot}]
    /\ spent \in [requests : 0..MaxRequests, faults : 0..MaxFaults]

NoHelper == [pc |-> "down", conn |-> NoSlot, failed |-> FALSE,
             expired |-> FALSE, copy |-> 0, version |-> "old"]
NewClient == [held |-> 0, due |-> TRUE, slot |-> NoSlot]

Init ==
    /\ conns = [k \in Slots |-> NoConn]
    /\ queue = <<>>
    /\ helper = NoHelper
    /\ installed = "old"
    /\ config = "tor" /\ conf = "tor" /\ rules = FALSE
    /\ lnd = "tor"
    /\ cert = [gen |-> 1, mode |-> "tor"]
    /\ board = 1
    /\ watch = [pc |-> "idle", copy |-> 0]
    /\ client = NewClient
    /\ spent = [requests |-> 0, faults |-> 0]

Fault ==
    /\ spent.faults < MaxFaults
    /\ spent' = [spent EXCEPT !.faults = @ + 1]

(***************************************************************************)
(* The client's side of a connection.                                      *)
(***************************************************************************)
\* Start, for the operator: dial, write the request line, close the sending
\* side.  A program that is stopped after the dial has not written its line.
Ask(k, verb) ==
    /\ spent.requests < MaxRequests
    /\ \E sent \in BOOLEAN :
          /\ Connect(k, verb, sent)
          /\ ~sent => spent.faults < MaxFaults
          /\ spent' = [requests |-> spent.requests + 1,
                       faults |-> IF sent THEN spent.faults ELSE spent.faults + 1]
    /\ UNCHANGED <<helper, installed, nodeState, client>>

\* The stopped program goes on.
WriteRequest(k) ==
    /\ conns[k].stage \in {"queued", "served"}
    /\ ~conns[k].sent /\ ~conns[k].gone
    /\ conns' = [conns EXCEPT ![k].sent = TRUE]
    /\ UNCHANGED <<queue, helper, installed, nodeState, client, spent>>

\* Wait: the stream is read to its end and the connection closed.
Read(k) ==
    /\ conns[k].stage = "closed"
    /\ client.slot # k
    /\ Restore(k)
    /\ UNCHANGED <<queue, helper, installed, nodeState, client, spent>>

\* The program that asked dies: a lost SSH session, a kill.
Leave(k) ==
    /\ conns[k].stage \in {"queued", "served"}
    /\ ~conns[k].gone /\ client.slot # k
    /\ Fault
    /\ conns' = [conns EXCEPT ![k].gone = TRUE]
    /\ UNCHANGED <<queue, helper, installed, nodeState, client>>

(***************************************************************************)
(* The helper's loop.                                                      *)
(***************************************************************************)
\* systemd starts the service when a connection waits on the socket.
Activate ==
    /\ helper.pc = "down" /\ queue # <<>>
    /\ helper' = [NoHelper EXCEPT !.pc = "accept", !.version = installed]
    /\ UNCHANGED <<conns, queue, installed, nodeState, client, spent>>

IdleExit ==
    /\ helper.pc = "accept" /\ queue = <<>>
    /\ helper' = NoHelper
    /\ UNCHANGED <<conns, queue, installed, nodeState, client, spent>>

Accept ==
    /\ helper.pc = "accept" /\ queue # <<>>
    /\ helper' = [helper EXCEPT !.pc = "header", !.conn = Head(queue)]
    /\ conns' = [conns EXCEPT ![Head(queue)].stage = "served"]
    /\ queue' = Tail(queue)
    /\ UNCHANGED <<installed, nodeState, client, spent>>

\* The request line is there: the verb's handler starts.
ReadHeader ==
    /\ helper.pc = "header" /\ conns[helper.conn].sent
    /\ helper' = [helper EXCEPT !.pc = "run"]
    /\ UNCHANGED <<conns, queue, installed, nodeState, client, spent>>

\* Mutant of Accepting: a connection is accepted by the process that updated.
AcceptingAlways(c) == TRUE

\* What handleConn returns: the process that has replaced its binary ends.
Accepting(c) == ~(c.verb = "selfUpdate" /\ Whole(c))

NextConn(stays) ==
    IF stays THEN [NoHelper EXCEPT !.pc = "accept", !.version = helper.version]
             ELSE NoHelper

\* Mutant of HeaderTimeout: no deadline while the request line is awaited.
HeaderWaits ==
    /\ helper.pc = "header" /\ conns[helper.conn].gone
    /\ conns' = [conns EXCEPT ![helper.conn] = Closed(helper.conn, "none")]
    /\ helper' = NextConn(TRUE)
    /\ UNCHANGED <<queue, installed, nodeState, client, spent>>

\* No line within five seconds, or a client that left before writing one.
HeaderTimeout ==
    /\ helper.pc = "header" /\ ~conns[helper.conn].sent
    /\ conns' = [conns EXCEPT ![helper.conn] = Closed(helper.conn, "none")]
    /\ helper' = NextConn(TRUE)
    /\ UNCHANGED <<queue, installed, nodeState, client, spent>>

DeadlinePasses ==
    /\ helper.pc \in {"run", "end"} /\ ~helper.expired
    /\ Fault
    /\ helper' = [helper EXCEPT !.expired = TRUE]
    /\ UNCHANGED <<conns, queue, installed, nodeState, client>>

\* The terminator, unless the deadline has passed.  The error it carries is
\* the handler's; the connection is closed either way.
WriteEnd ==
    LET c == conns[helper.conn]
        end == IF helper.failed THEN "error" ELSE "ok"
    IN  /\ helper.pc = "end"
        /\ conns' = [conns EXCEPT ![helper.conn] =
                        Closed(helper.conn, IF helper.expired THEN "none" ELSE end)]
        /\ helper' = IF c.verb = "reboot" /\ ~helper.failed
                     THEN [NextConn(TRUE) EXCEPT !.pc = "after"]
                     ELSE NextConn(Accepting(c))
        /\ UNCHANGED <<queue, installed, nodeState, client, spent>>

HelperKilled ==
    /\ helper.pc # "down"
    /\ Fault
    /\ conns' = IF helper.conn = NoSlot THEN conns
                ELSE [conns EXCEPT ![helper.conn] = Closed(helper.conn, "none")]
    /\ helper' = NoHelper
    /\ UNCHANGED <<queue, installed, nodeState, client>>

(***************************************************************************)
(* The steps of the operations.                                            *)
(***************************************************************************)
Doing(step) ==
    /\ helper.pc = "run"
    /\ Body(conns[helper.conn].verb)[conns[helper.conn].performed + 1] = step

\* The step succeeded: the next one, and its number to the client unless the
\* deadline has passed.  A client that has left stops nothing.
Done(copy) ==
    LET c == conns[helper.conn]
        n == c.performed + 1
        tells == n \in Reported(c.verb) /\ ~helper.expired
    IN  /\ conns' = [conns EXCEPT ![helper.conn].performed = n,
                                  ![helper.conn].steps = IF tells THEN @ + 1 ELSE @]
        /\ helper' = [helper EXCEPT
                        !.pc = IF n = Len(Body(c.verb)) THEN "end" ELSE "run",
                        !.copy = copy]
        /\ UNCHANGED <<queue, client>>

Failed ==
    /\ helper' = [helper EXCEPT !.pc = "end", !.failed = TRUE]
    /\ UNCHANGED <<conns, queue, client>>

\* A step without an effect the model keeps.
Plain ==
    /\ \E step \in {"ufw", "major", "fetch", "signature", "checksum",
                    "refresh", "upgrade", "audit", "read", "plan"} : Doing(step)
    /\ Done(helper.copy)
    /\ UNCHANGED <<installed, nodeState>>

\* The upgrade is refused when the published mode is no longer tor.
CheckMode ==
    /\ Doing("mode")
    /\ IF config = "tor" THEN Done(helper.copy) ELSE Failed
    /\ UNCHANGED <<installed, nodeState>>

WriteConf ==
    /\ Doing("conf")
    /\ conf' = "hybrid"
    /\ Done(helper.copy)
    /\ UNCHANGED <<installed, config, rules, lnd, cert, board, watch>>

AddRules ==
    /\ Doing("rules")
    /\ rules' = TRUE
    /\ Done(helper.copy)
    /\ UNCHANGED <<installed, config, conf, lnd, cert, board, watch>>

\* LND starts in the mode its file asks for.  It replaces a certificate made
\* for the other mode, or one that has expired; the path unit notices unless
\* its service is running just then.
StartLND ==
    /\ lnd' = conf
    /\ \E renewed \in BOOLEAN :
          /\ cert.mode # conf => renewed
          /\ renewed => cert.mode # conf \/ cert.gen <= MaxCerts
          /\ cert' = IF renewed THEN [gen |-> cert.gen + 1, mode |-> conf] ELSE cert
          /\ watch' = IF renewed /\ watch.pc = "idle"
                      THEN [watch EXCEPT !.pc = "triggered"] ELSE watch
    /\ UNCHANGED <<config, conf, rules, board>>

RestartLND ==
    /\ Doing("restartLND")
    /\ StartLND
    /\ Done(helper.copy)
    /\ UNCHANGED installed

\* The restart fails: LND may be down, or was not stopped.
RestartFails ==
    /\ Doing("restartLND")
    /\ Fault
    /\ lnd' \in {lnd, "down"}
    /\ Failed
    /\ UNCHANGED <<installed, config, conf, rules, cert, board, watch>>

VerifySAN ==
    /\ Doing("san")
    /\ IF cert.mode = "hybrid" THEN Done(helper.copy) ELSE Failed
    /\ UNCHANGED <<installed, nodeState>>

\* StageLNDTLSCert in two steps: the certificate is read (twice alike), and
\* written over the board's copy.
CopyCert ==
    /\ Doing("copyCert")
    /\ Done(cert.gen)
    /\ UNCHANGED <<installed, nodeState>>

StageCert ==
    /\ Doing("stageCert")
    /\ board' = helper.copy
    /\ Done(0)
    /\ UNCHANGED <<installed, config, conf, rules, lnd, cert, watch>>

Publish ==
    /\ Doing("publish")
    /\ config' = "hybrid"
    /\ Done(helper.copy)
    /\ UNCHANGED <<installed, conf, rules, lnd, cert, board, watch>>

InstallBinary ==
    /\ Doing("install")
    /\ installed' = "new"
    /\ Done(helper.copy)
    /\ UNCHANGED nodeState

StepFails ==
    /\ helper.pc = "run" /\ ~Doing("restartLND")
    /\ Fault
    /\ Failed
    /\ UNCHANGED <<installed, nodeState>>

Steps ==
    /\ \/ Plain \/ CheckMode \/ WriteConf \/ AddRules \/ RestartLND
       \/ VerifySAN \/ CopyCert \/ StageCert \/ Publish \/ InstallBinary
    /\ UNCHANGED spent

(***************************************************************************)
(* The node around the helper.                                             *)
(***************************************************************************)
LNDCrashes ==
    /\ lnd # "down"
    /\ Fault
    /\ lnd' = "down"
    /\ UNCHANGED <<conns, queue, helper, installed, config, conf, rules, cert,
                   board, watch, client>>

LNDRestarts ==
    /\ lnd = "down"
    /\ StartLND
    /\ UNCHANGED <<conns, queue, helper, installed, client, spent>>

\* The stage service of the path unit, beside the helper: stage-lnd-cert.
WatchCopies ==
    /\ watch.pc = "triggered"
    /\ watch' = [pc |-> "staging", copy |-> cert.gen]
    /\ UNCHANGED <<conns, queue, helper, installed, config, conf, rules, lnd,
                   cert, board, client, spent>>

WatchStages ==
    /\ watch.pc = "staging"
    /\ board' = watch.copy
    /\ watch' = [pc |-> "idle", copy |-> 0]
    /\ UNCHANGED <<conns, queue, helper, installed, config, conf, rules, lnd,
                   cert, client, spent>>

PowerCycle ==
    /\ conns' = [k \in Slots |-> NoConn]
    /\ queue' = <<>>
    /\ helper' = NoHelper
    /\ lnd' = "down"
    /\ watch' = [pc |-> "idle", copy |-> 0]
    /\ client' = NewClient
    /\ UNCHANGED <<installed, config, conf, rules, cert, board>>

PowerLoss == Fault /\ PowerCycle

\* After the answer to a reboot: the machine goes down, or systemctl fails.
Reboot ==
    /\ helper.pc = "after"
    /\ \/ PowerCycle /\ UNCHANGED spent
       \/ /\ Fault
          /\ helper' = NextConn(TRUE)
          /\ UNCHANGED <<conns, queue, installed, nodeState, client>>

(***************************************************************************)
(* The LND client of the terminal UI.                                      *)
(***************************************************************************)
Reaches(held) == lnd # "down" /\ held = cert.gen

\* Mutant of Repairing: no repair is ever asked for.
RepairingNever == FALSE

\* requestCredentialRestage: after any failed test call, once per interval.
Repairing == client.due

\* A call fails on the connection: handleError reconnects.  The board's copy
\* is read and the connection tried; a failure asks for a repair.
Reconnect ==
    /\ client.slot = NoSlot /\ ~Reaches(client.held)
    /\ IF ~Reaches(board) /\ Repairing
       THEN \E k \in Slots :
               /\ Connect(k, "credentials", TRUE)
               /\ client' = [held |-> board, due |-> FALSE, slot |-> k]
       ELSE /\ client' = [client EXCEPT !.held = board]
            /\ UNCHANGED <<conns, queue>>
    /\ UNCHANGED <<helper, installed, nodeState, spent>>

\* The repair is answered: if it succeeded, the board is read once more.
Repaired ==
    /\ client.slot # NoSlot
    /\ conns[client.slot].stage = "closed"
    /\ Restore(client.slot)
    /\ client' = [client EXCEPT !.slot = NoSlot,
                    !.held = IF Verdict(conns[client.slot]) = "ok" THEN board ELSE @]
    /\ UNCHANGED <<queue, helper, installed, nodeState, spent>>

IntervalPasses ==
    /\ ~client.due
    /\ client.slot = NoSlot
    /\ client' = [client EXCEPT !.due = TRUE]
    /\ UNCHANGED <<conns, queue, helper, installed, nodeState, spent>>

Serve ==
    Activate \/ IdleExit \/ Accept \/ ReadHeader \/ HeaderTimeout
    \/ WriteEnd \/ Steps \/ Reboot

Surroundings == LNDRestarts \/ WatchCopies \/ WatchStages
Connecting == Reconnect \/ Repaired \/ IntervalPasses

Next ==
    \/ \E k \in Slots, verb \in Verbs : Ask(k, verb)
    \/ \E k \in Slots : WriteRequest(k) \/ Read(k) \/ Leave(k)
    \/ Serve \/ Surroundings \/ Connecting
    \/ DeadlinePasses \/ StepFails \/ RestartFails
    \/ HelperKilled \/ LNDCrashes \/ PowerLoss

\* The helper, systemd and the terminal UI keep running; a client reads its
\* stream; the operator asks for nothing in particular.
Fairness ==
    /\ WF_vars(Serve)
    /\ WF_vars(LNDRestarts) /\ WF_vars(WatchCopies) /\ WF_vars(WatchStages)
    /\ WF_vars(Reconnect) /\ WF_vars(Repaired) /\ WF_vars(IntervalPasses)
    /\ \A k \in Slots : WF_vars(Read(k))

Spec == Init /\ [][Next]_vars /\ Fairness

(***************************************************************************)
(* Properties.                                                             *)
(***************************************************************************)
\* The published setting says hybrid only when the node is: lnd.conf and the
\* firewall are, LND runs that way, and its certificate names the address.
\* This survives every failure, kill and loss of power.
PublishedIsServed ==
    config = "hybrid" =>
        conf = "hybrid" /\ rules /\ lnd \in {"down", "hybrid"}
        /\ cert.mode = "hybrid"

\* A helper that waits for a connection runs the installed binary, so that no
\* request is performed by a version older than the one an update installed.
NewestServes == helper.pc = "accept" => helper.version = installed

\* Every request ends: answered, or its connection closed.
RequestsEnd ==
    \A k \in Slots :
        conns[k].stage \in {"queued", "served"} ~>
            conns[k].stage \notin {"queued", "served"}

\* Whatever made the staged certificate stale, the terminal UI ends with a
\* connection LND accepts.
ClientSettles == <>[]Reaches(client.held)

\* The helper keeps the promises of RequestService.
request ==
    [k \in Slots |->
        IF conns[k].stage = "idle" THEN "none"
        ELSE IF Whole(conns[k]) THEN "completed"
        ELSE IF conns[k].performed = 0 THEN "asked" ELSE "begun"]

answer ==
    [k \in Slots |->
        IF conns[k].stage = "closed" THEN Verdict(conns[k]) ELSE "none"]

Service == INSTANCE RequestService

KeepsItsPromises == Service!Spec
=============================================================================
