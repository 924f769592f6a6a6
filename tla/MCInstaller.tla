------------------------------ MODULE MCInstaller ------------------------------
(***************************************************************************)
(* The installer with the base steps of internal/installer/setup.go.       *)
(***************************************************************************)
EXTENDS Installer, StepBodies
===============================================================================
