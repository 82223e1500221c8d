----------------------------- MODULE Installation -----------------------------
(***************************************************************************)
(* What the lifecycle commands and the status report read: the product's   *)
(* files and native registrations, the Desktop descriptors, one systemd    *)
(* user service and the Codex executables.  No state changes here: Status  *)
(* reads this state and Lifecycle changes it.                              *)
(***************************************************************************)
EXTENDS Naturals, Sequences, FiniteSets

CONSTANTS
  Codexes,      \* paths of Codex executables
  Launchers,    \* Desktop identities, each with a descriptor path of its own
  None,
  MaxRelease,   \* bound: product releases 1..MaxRelease
  MaxVersion    \* bound: Codex versions 0..MaxVersion

VARIABLES
  disk,         \* the product's files and native registrations
  descriptors,  \* launchers whose descriptor file is present
  service,      \* the systemd unit
  world         \* PATH's Codex and the version of every Codex

Releases == 1..MaxRelease
Artifacts == {"binary", "projection", "marketplace", "plugin"}

\* InstalledRelease: the release, its Codex, the Desktop attachment.
Manifests == [release: Releases, codex: Codexes, launcher: Launchers \union {None}]

ASSUME InstallationAssumption ==
  /\ None \notin Codexes \union Launchers \union Manifests
  /\ Codexes # {}
  /\ MaxRelease \in Nat \ {0}
  /\ MaxVersion \in Nat

NoProcess == [codex |-> None, version |-> 0]

\* What is on disk, before any command looks at the service.  Setup counts the
\* native registrations as product; the status report does not, which makes no
\* difference: uninstall removes them before any file of the product.
Evidence ==
  CASE disk.config # None /\ disk.manifest # None ->
         IF disk.config = disk.manifest.codex THEN "coherent" ELSE "contradictory"
    [] disk.config # None /\ disk.manifest = None -> "configuration_only"
    [] disk.config = None /\ disk.manifest # None -> "manifest_only"
    [] OTHER ->
         IF disk.unit # None \/ \E a \in Artifacts : disk.artifacts[a] # 0
         THEN "partial" ELSE "first_install"

\* is-enabled: "absent" when no unit file is found.
Enablement ==
  IF disk.unit = None THEN "absent" ELSE IF service.enabled THEN "enabled" ELSE "disabled"
===============================================================================
