----------------------------- MODULE InstallWizard ----------------------------
(***************************************************************************)
(* The decisions of a pass (internal/installer: wizard.go up to the first  *)
(* step, InstallDecisions and the unattended defaults of setup.go).  The   *)
(* operator of an interactive pass goes forth and back between the pages   *)
(* for access, a pasted key, the password and the hardware; which pages    *)
(* there are depends on what is still planned.                             *)
(***************************************************************************)
CONSTANT SSHKeys  \* public keys, of other accounts of the host or pasted

VARIABLE wizard   \* the wizard's pages and what it has decided

Pages == {"closed", "access", "paste", "password", "hardware"}
Wizards == [page : Pages, needIdentity : BOOLEAN, needHardware : BOOLEAN,
            passwordAuth : BOOLEAN, offered : SUBSET SSHKeys,
            selected : SUBSET SSHKeys, keys : SUBSET SSHKeys]
ClosedWizard ==
  [page |-> "closed", needIdentity |-> FALSE, needHardware |-> FALSE,
   passwordAuth |-> FALSE, offered |-> {}, selected |-> {}, keys |-> {}]

(* The root account's keys and those under /home, but for the admin's own. *)
EnumerateKeySources == SUBSET SSHKeys

(* strandsBox                                                              *)
StrandsBox(keys, passwordAuth, allowConsoleOnly) ==
  keys = {} /\ ~passwordAuth /\ ~allowConsoleOnly

(* newWizardModel, when anything is to be asked; all keys are selected.    *)
NewWizard(needIdentity, needHardware, found, passwordAuth) ==
  [page |-> IF needIdentity THEN "access" ELSE "hardware",
   needIdentity |-> needIdentity, needHardware |-> needHardware,
   passwordAuth |-> passwordAuth, offered |-> found, selected |-> found, keys |-> {}]

-------------------------------------------------------------------------------
(* updateAccess: a key's row, the Paste button and the Continue button.    *)
ToggleKey(k) ==
  /\ wizard.page = "access" /\ k \in wizard.offered
  /\ wizard' = [wizard EXCEPT
                  !.selected = IF k \in @ THEN @ \ {k} ELSE @ \cup {k}]

PasteAKey ==
  wizard.page = "access" /\ wizard' = [wizard EXCEPT !.page = "paste"]

(* Mutant: the last key may go.                                            *)
ContinueUnguarded ==
  /\ wizard.page = "access"
  /\ wizard' = [wizard EXCEPT !.keys = wizard.selected, !.page = "password"]

Continue ==
  /\ wizard.page = "access" /\ ~(wizard.selected = {} /\ ~wizard.passwordAuth)
  /\ wizard' = [wizard EXCEPT !.keys = wizard.selected, !.page = "password"]

(* updatePaste: a key that is listed already is only selected.             *)
AddKey(k) ==
  /\ wizard.page = "paste"
  /\ wizard' = [wizard EXCEPT !.offered = @ \cup {k}, !.selected = @ \cup {k},
                              !.page = "access"]

PasteBack ==
  wizard.page = "paste" /\ wizard' = [wizard EXCEPT !.page = "access"]

(* updatePassword and updateHardware, back.                                *)
PasswordBack ==
  wizard.page = "password" /\ wizard' = [wizard EXCEPT !.page = "access"]

HardwareBack ==
  /\ wizard.page = "hardware" /\ wizard.needIdentity
  /\ wizard' = [wizard EXCEPT !.page = "password"]

(* A password that is long enough and was typed twice.                     *)
PasswordContinue ==
  /\ wizard.page = "password" /\ wizard.needHardware
  /\ wizard' = [wizard EXCEPT !.page = "hardware"]

Deciding ==
  \/ \E k \in SSHKeys : ToggleKey(k) \/ AddKey(k)
  \/ PasteAKey \/ Continue \/ PasteBack
  \/ PasswordBack \/ PasswordContinue \/ HardwareBack

(* The last page starts the steps; the hardware page first records its     *)
(* decision and stays when that fails.                                     *)
Decided ==
  \/ wizard.page = "hardware"
  \/ wizard.page = "password" /\ ~wizard.needHardware
===============================================================================
