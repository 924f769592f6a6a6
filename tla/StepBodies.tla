------------------------------ MODULE StepBodies ------------------------------
(***************************************************************************)
(* The 29 base steps of internal/installer: buildInstallSteps with their   *)
(* keys, kinds, groups and phases, and for each step's function what it    *)
(* uses and what it leaves.  A body needs facts about the host or about    *)
(* its own process; what it makes stays on the host, and what is its own   *)
(* (the working directories captured by the closures, the routing that     *)
(* this process has verified) ends with the process.                       *)
(***************************************************************************)
EXTENDS Naturals, Sequences

Body(needs, makes, own) == [needs |-> needs, makes |-> makes, own |-> own]
Nothing == Body({}, {}, {})

(* Two functions one after the other: what the first makes the second need *)
(* not find.                                                               *)
Then(a, b) == Body(a.needs \cup (b.needs \ (a.makes \cup a.own)),
                   a.makes \cup b.makes, a.own \cup b.own)

-------------------------------------------------------------------------------
(* The host before Tor.                                                    *)
installSelfBinary == Body({}, {"vpn binary"}, {})
installBasePackages == Body({}, {"packages"}, {})
configureInitialFirewall == Body({}, {"firewall"}, {})
upgradeBasePackages == Nothing
prepareHost == Nothing
applyIdentityAccess == Body({}, {"admin"}, {})
createBaseServiceIdentities == Body({}, {"service identities"}, {})
disableIPv6 == Nothing

(* The Debian package brings the group that owns torrc; tor makes the      *)
(* onion services' directories when it restarts.                           *)
RebuildTorConfig == Body({"packages"}, {"torrc"}, {})
enableAndRestartTor == Body({"torrc"}, {"tor", "onions"}, {})
verifyTorRouting == Body({"packages", "tor"}, {}, {"routing"})
configureAptTor == Body({"routing"}, {"apt proxy"}, {})

-------------------------------------------------------------------------------
(* A download goes through torsocks, to be used only where the gate was    *)
(* passed; a signature is checked in a keyring of its own.                 *)
DownloadRequireTor(downloaded) == Body({"packages", "routing"}, {}, downloaded)
verifyIsolated(keys, signed, verified) == Body({"packages", keys, signed}, {}, {verified})

(* Bitcoin Core: the signers' keys are fetched now; the configuration      *)
(* carries LND's first one, which names the REST onion.                    *)
downloadBitcoin == DownloadRequireTor({"btc files"})
verifyBitcoinCoreSigs ==
  Then(DownloadRequireTor({"btc keys"}), verifyIsolated("btc keys", "btc files", "btc signed"))
verifyBitcoin == Body({"btc files"}, {}, {"btc verified"})
extractAndInstallBitcoin ==
  Body({"btc files", "btc signed", "btc verified"}, {"bitcoind"}, {})
writeBitcoinConfig ==
  Body({"service identities", "onions"}, {"bitcoin.conf", "lnd.conf", "bitcoind.service"}, {})
startBitcoind == Body({"bitcoind", "bitcoin.conf", "bitcoind.service"}, {"bitcoind runs"}, {})

(* apt goes through Tor or not at all.                                     *)
installUnattendedUpgrades == Body({"routing", "apt proxy"}, {"upgrades", "fail2ban"}, {})

(* LND: the final configuration keeps the credential of the first.         *)
downloadLND == DownloadRequireTor({"lnd files"})
verifyLNDSig ==
  Then(DownloadRequireTor({"lnd keys"}), verifyIsolated("lnd keys", "lnd files", "lnd signed"))
verifyLND == Body({"lnd files"}, {}, {"lnd verified"})
extractAndInstallLND == Body({"lnd files", "lnd signed", "lnd verified"}, {"lnd"}, {})
writeLNDServiceFromConfig == Body({"service identities"}, {"lnd.service"}, {})
writeLNDConfig == Body({"lnd.conf", "onions", "service identities"}, {"lnd.conf final"}, {})
startLND == Body({"lnd", "lnd.service", "lnd.conf final"}, {"lnd runs"}, {})
verifyLNDTLSOnionSAN == Body({"onions", "lnd runs"}, {}, {})
installLNDCertWatch == Body({"vpn binary"}, {"certificate watch"}, {})

-------------------------------------------------------------------------------
(* The administrator's access and console.  The board gets LND's           *)
(* certificate, which LND makes when it runs.                              *)
installSSHHardening == Body({}, {"hardened"}, {})
setupJournalAccess == Body({"admin"}, {"journal access"}, {})
installHelperUnits == Body({"admin", "vpn binary"}, {"helper socket"}, {})
StageBoardAll == Body({"admin", "lnd runs"}, {"board"}, {})
setupShellEnvironment == Body({"admin"}, {"shell environment"}, {})

-------------------------------------------------------------------------------
Step(key, body) ==
  [key |-> key, kind |-> "mutation", group |-> "", phase |-> "bake", body |-> body]
Gate(key, body) == [Step(key, body) EXCEPT !.kind = "gate"]
Member(group, key, body) == [Step(key, body) EXCEPT !.group = group]
FirstBootStep(key, body) == [Step(key, body) EXCEPT !.phase = "first-boot"]

preTorSteps == <<
  Step("binary.install", installSelfBinary),
  Step("apt.base", installBasePackages),
  Step("firewall", configureInitialFirewall),
  Step("base.upgrade", upgradeBasePackages),
  Step("host.prep", prepareHost),
  FirstBootStep("identity.access", applyIdentityAccess),
  Step("service-identities.v1", createBaseServiceIdentities),
  Step("ipv6.disable", disableIPv6)>>

torSteps == <<
  Step("tor.configure", Then(RebuildTorConfig, enableAndRestartTor)),
  Gate("tor.gate", verifyTorRouting),
  Step("apt.torproxy", configureAptTor)>>

bitcoinSteps == <<
  Member("btc", "btc.download", downloadBitcoin),
  Member("btc", "btc.verify", Then(verifyBitcoinCoreSigs, verifyBitcoin)),
  Member("btc", "btc.install", Then(extractAndInstallBitcoin, writeBitcoinConfig)),
  Step("btc.start", startBitcoind),
  Step("security", installUnattendedUpgrades)>>

lndSteps == <<
  Member("lnd", "lnd.download", downloadLND),
  Member("lnd", "lnd.verify", Then(verifyLNDSig, verifyLND)),
  Member("lnd", "lnd.install", Then(extractAndInstallLND, writeLNDServiceFromConfig)),
  Step("tor.lnd", Then(RebuildTorConfig, enableAndRestartTor)),
  Step("lnd.configure", writeLNDConfig),
  Step("lnd.start", startLND),
  Gate("lnd.tls-san", verifyLNDTLSOnionSAN),
  Step("lnd.certwatch", installLNDCertWatch)>>

consoleSteps == <<
  FirstBootStep("ssh.harden", installSSHHardening),
  FirstBootStep("journal.access", setupJournalAccess),
  FirstBootStep("helper.enable", installHelperUnits),
  FirstBootStep("state.stage", StageBoardAll),
  Step("shellenv", setupShellEnvironment)>>

buildInstallSteps == preTorSteps \o torSteps \o bitcoinSteps \o lndSteps \o consoleSteps
===============================================================================
