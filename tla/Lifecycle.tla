------------------------------ MODULE Lifecycle ------------------------------
(***************************************************************************)
(* The lifecycle commands (src/install): setup, enable, disable, uninstall *)
(* and update, each a fixed sequence of stages over shared files, the      *)
(* Desktop descriptor and one systemd user service.                        *)
(*                                                                         *)
(* A command first checks its preconditions, then takes its stages one at  *)
(* a time.  A stage can fail, with its change made or without, and end the *)
(* command with a suggestion, and the process can be killed between two    *)
(* stages; nothing is undone but a descriptor that was just published.     *)
(* systemd is external: the service can fail and be restarted by it at any *)
(* time, and `systemctl' can fail halfway.  Codex is external too: its     *)
(* executables are upgraded in place and PATH comes to name another one.   *)
(* One command runs at a time: that is the user's part, the code takes no  *)
(* lock.                                                                   *)
(***************************************************************************)
EXTENDS Status

CONSTANTS
  MaxCommands,  \* bound: commands in a behaviour
  MaxFaults,    \* bound: failed stages, kills and service failures
  MaxChanges    \* bound: changes of PATH, Codex upgrades and `systemctl stop's

ASSUME LifecycleAssumption ==
  {MaxCommands, MaxFaults, MaxChanges} \subseteq Nat

VARIABLES
  run,          \* the command in progress
  report,       \* what the last command told the user
  spent         \* commands, faults and changes so far: only for the bounds

vars == <<disk, descriptors, service, world, run, report, spent>>

Commands == {"setup", "enable", "disable", "uninstall", "update"}

Idle == [cmd |-> "none", at |-> 1, release |-> 1, codex |-> None, version |-> 0,
         target |-> None, previous |-> None, changed |-> FALSE,
         enabled |-> FALSE, active |-> FALSE, restart |-> FALSE, accepted |-> FALSE]

-----------------------------------------------------------------------------
(* Which command the evidence on disk permits.                             *)

Permits(cmd) ==
  CASE cmd = "setup" -> Evidence # "contradictory"
    [] cmd = "enable" -> Evidence = "coherent"
    [] cmd \in {"update", "disable", "uninstall"} ->
         Evidence \in {"coherent", "manifest_only"}

\* A mistake: setup looks Codex up as update does.
SetupCodexFromPath == world.path

\* setup_preflight: the configuration's Codex, else the manifest's, else PATH's.
SetupCodex ==
  IF disk.config # None THEN disk.config
  ELSE IF disk.manifest # None THEN disk.manifest.codex
  ELSE world.path

\* validate_manifestless_setup_artifacts: an installed manifest must name this
\* release; without one, whatever is present must be what setup would write.
SetupMatches(release) ==
  IF disk.manifest # None
  THEN disk.manifest.release = release
  ELSE /\ disk.unit \in {None, SetupCodex}
       /\ \A a \in Artifacts \ {"marketplace"} : disk.artifacts[a] \in {0, release}

\* What a command checks of the disk before its first change.
Accepts(cmd, release) ==
  /\ Permits(cmd)
  /\ cmd = "setup" => SetupMatches(release)
  /\ cmd = "enable" => disk.unit = disk.config
  /\ cmd = "update" => release >= disk.manifest.release

-----------------------------------------------------------------------------
(* The stages of every command, in their order: those that change something *)
(* or look at what others change.                                          *)

\* The stage "descriptor" of setup publishes for one launcher and then leaves
\* another; a kill can come between.
SetupStages ==
  <<"binary", "configuration", "projection", "marketplace", "plugin", "descriptor",
    "descriptor_switch", "unit", "reload", "enable", "verify", "manifest">>

UpdateStages ==
  <<"binary", "configuration", "projection", "marketplace", "plugin", "descriptor",
    "unit", "reload", "apply", "verify", "manifest">>

EnableStages == <<"descriptor", "enable", "verify">>

\* A mistake: disable trusts `systemctl disable --now'.
DisableStagesUnverified == <<"disable", "descriptor_remove">>

DisableStages == <<"disable", "verify_disabled", "descriptor_remove">>

\* A mistake: uninstall trusts it.
UninstallStagesUnverified ==
  <<"disable", "descriptor_remove", "unit_remove", "plugin_remove", "marketplace_remove",
    "projection_remove", "configuration_remove", "manifest_remove", "binary_remove">>

UninstallStages ==
  <<"disable", "verify_disabled", "descriptor_remove", "unit_remove", "plugin_remove",
    "marketplace_remove", "projection_remove", "configuration_remove", "manifest_remove",
    "binary_remove">>

Stages(cmd) ==
  CASE cmd = "setup" -> SetupStages
    [] cmd = "update" -> UpdateStages
    [] cmd = "enable" -> EnableStages
    [] cmd = "disable" -> DisableStages
    [] cmd = "uninstall" -> UninstallStages
    [] OTHER -> <<"idle">>

Stage == Stages(run.cmd)[run.at]
At(cmd, stage) == run.cmd = cmd /\ Stage = stage
AtAny(cmds, stage) == \E cmd \in cmds : At(cmd, stage)

\* Stop the service from another terminal, then run the command again.
StopThen == [enable |-> "stop_enable", disable |-> "stop_disable", uninstall |-> "stop_uninstall"]

\* What a failed stage tells the user to run.
Suggestions(cmd, stage) ==
  CASE cmd = "setup" /\ stage = "verify" -> {"update"}
    [] cmd = "setup" /\ stage \in {"marketplace", "plugin"} -> {"setup", "status"}
    [] cmd = "update" /\ stage \in {"projection", "marketplace", "plugin", "descriptor"} ->
         {"update", "status"}
    [] cmd = "update" /\ stage \in {"unit", "reload", "apply", "verify"} -> {"logs"}
    [] cmd = "update" /\ stage = "manifest" -> {"status"}
    [] cmd \in {"disable", "uninstall"} /\ stage \in {"disable", "verify_disabled"} ->
         {StopThen[cmd]}
    [] cmd = "uninstall" /\ stage = "descriptor_remove" -> {"status"}
    [] cmd = "uninstall" /\ stage \in {"plugin_remove", "marketplace_remove"} -> {"manual"}
    [] cmd = "uninstall" /\ stage = "binary_remove" -> {"terminal"}
    [] OTHER -> {cmd}

\* "terminal": not to be run again; "repair" and "verified_release": setup by the
\* installed binary, or by a download of the release that is installed.
AllSuggestions ==
  Commands \union {"none", "status", "logs", "manual", "terminal", "repair",
                   "verified_release", "stop_disable", "stop_uninstall", "stop_enable",
                   "disable_update_enable"}

Tells(outcome, suggestion) ==
  report' = [cmd |-> run.cmd, outcome |-> outcome, suggestion |-> suggestion,
             release |-> run.release, codex |-> run.codex, accepted |-> run.accepted]

Spend(what) ==
  /\ spent[what] < [commands |-> MaxCommands, faults |-> MaxFaults, changes |-> MaxChanges][what]
  /\ spent' = [spent EXCEPT ![what] = @ + 1]

\* A mistake: the last stage is followed by another.
ProceedPastTheEnd ==
  /\ run' = [run EXCEPT !.at = @ + 1]
  /\ UNCHANGED <<report, world, spent>>

Proceed ==
  /\ IF run.at = Len(Stages(run.cmd))
     THEN run' = Idle /\ Tells("ok", "none")
     ELSE run' = [run EXCEPT !.at = @ + 1] /\ UNCHANGED report
  /\ UNCHANGED <<world, spent>>

Fails(suggestion) ==
  /\ run' = Idle
  /\ Tells("failed", suggestion)
  /\ UNCHANGED world

\* The stage fails; what it had changed by then is up to the action.
StageFault ==
  /\ Spend("faults")
  /\ \E suggestion \in Suggestions(run.cmd, Stage) : Fails(suggestion)

\* The change is made; what the stage does after it, a sync of the directory or
\* another look, may fail still.
Concludes == Proceed \/ StageFault

-----------------------------------------------------------------------------
(* systemd.                                                                *)

Started(s) == [s EXCEPT !.enabled = TRUE, !.activity = "active", !.socket = TRUE,
                        !.process = IF s.activity = "active" THEN @
                                    ELSE [codex |-> disk.unit, version |-> world.version[disk.unit]]]

Stopped(s) == [s EXCEPT !.activity = "inactive", !.socket = FALSE, !.process = NoProcess]

Failed(s, socket) == [s EXCEPT !.activity = "unproven", !.socket = socket, !.process = NoProcess]

\* The process dies: it stays failed or waits for its automatic restart, which is
\* neither exactly "active" nor exactly "inactive"; the socket can stay behind.
ServiceFails ==
  /\ service.activity = "active"
  /\ Spend("faults")
  /\ \E socket \in BOOLEAN : service' = Failed(service, socket)
  /\ UNCHANGED <<disk, descriptors, world, run, report>>

\* Restart=on-failure: the unit as systemd loaded it, the executable as it is now.
ServiceRestarts ==
  /\ service.activity = "unproven"
  /\ service.loaded # None
  /\ service' = [service EXCEPT !.activity = "active", !.socket = TRUE,
                                !.process = [codex |-> service.loaded,
                                             version |-> world.version[service.loaded]]]
  /\ UNCHANGED <<disk, descriptors, world, run, report, spent>>

\* The user runs `systemctl --user stop' between two commands.
UserStops ==
  /\ run = Idle
  /\ service.activity # "inactive"
  /\ Spend("changes")
  /\ service' = Stopped(service)
  /\ UNCHANGED <<disk, descriptors, world, run, report>>

PathChanges ==
  /\ Spend("changes")
  /\ \E codex \in Codexes \ {world.path} : world' = [world EXCEPT !.path = codex]
  /\ UNCHANGED <<disk, descriptors, service, run, report>>

CodexUpgrades ==
  /\ Spend("changes")
  /\ \E codex \in Codexes :
       /\ world.version[codex] < MaxVersion
       /\ world' = [world EXCEPT !.version[codex] = @ + 1]
  /\ UNCHANGED <<disk, descriptors, service, run, report>>

-----------------------------------------------------------------------------
(* Beginning a command: everything before its first change.                *)

Begin(r) ==
  /\ run = Idle
  /\ Spend("commands")
  /\ run' = [r EXCEPT !.accepted = Accepts(r.cmd, r.release)]
  /\ report' = [cmd |-> r.cmd, outcome |-> "running", suggestion |-> "none",
                release |-> r.release, codex |-> r.codex, accepted |-> FALSE]
  /\ UNCHANGED <<disk, descriptors, service, world>>

EndsAtOnce(cmd, release, outcome, suggestion) ==
  /\ run = Idle
  /\ Spend("commands")
  /\ report' = [cmd |-> cmd, outcome |-> outcome, suggestion |-> suggestion,
                release |-> release, codex |-> None, accepted |-> FALSE]
  /\ UNCHANGED <<disk, descriptors, service, world, run>>

Rejects(cmd, release, suggestion) == EndsAtOnce(cmd, release, "rejected", suggestion)

PreviousLauncher == IF disk.manifest = None THEN None ELSE disk.manifest.launcher

\* resolve_setup_desktop: `target' is the verified launcher, if there is one.
BeginSetup(release) ==
  /\ Accepts("setup", release)
  /\ \E target \in Launchers \union {None} :
       Begin([Idle EXCEPT !.cmd = "setup", !.release = release, !.codex = SetupCodex,
                          !.version = world.version[SetupCodex], !.target = target,
                          !.previous = PreviousLauncher])

\* observe_manifestless_*_artifact: the releases that can be told from what is
\* there.  Registrations with no product file beside them count as this release's.
Identified(release) ==
  ({disk.artifacts["binary"], disk.artifacts["projection"]} \ {0})
  \union ({disk.artifacts["plugin"]} \ {0, release})
  \union {r \in {release} : /\ Evidence = "partial"
                           /\ \E a \in {"marketplace", "plugin"} : disk.artifacts[a] # 0}

\* Whose setup is to repair an installation of another release.
SetupAdvice(release) ==
  IF disk.manifest # None THEN "update"
  ELSE IF \/ disk.unit \notin {None, SetupCodex}
          \/ ~ \E other \in Releases \ {release} : Identified(release) = {other}
       THEN "status"
       ELSE IF disk.artifacts["binary"] # 0 THEN "repair" ELSE "verified_release"

SetupRejected(release) ==
  \/ ~ Permits("setup") /\ Rejects("setup", release, "status")
  \/ /\ Permits("setup")
     /\ ~ SetupMatches(release)
     /\ Rejects("setup", release, SetupAdvice(release))

\* The attached launcher, when it can still be verified.
BeginEnable ==
  /\ Accepts("enable", 1)
  /\ \E target \in {None, disk.manifest.launcher} :
       Begin([Idle EXCEPT !.cmd = "enable", !.codex = disk.config,
                          !.version = world.version[disk.config], !.target = target])

EnableRejected == ~ Accepts("enable", 1) /\ Rejects("enable", 1, "setup")

\* Only a stopped service, or an active one that does not host the caller.
BeginStop(cmd) ==
  /\ service.activity # "unproven"
  /\ Begin([Idle EXCEPT !.cmd = cmd])

StopRejected(cmd) == service.activity # "inactive" /\ Rejects(cmd, 1, StopThen[cmd])

\* service_snapshot: an active service that is not enabled has no snapshot.
Snapshot ==
  \/ Enablement = "enabled" /\ service.activity \in {"active", "inactive"}
  \/ Enablement # "enabled" /\ service.activity = "inactive"

\* A mistake: no restart for another executable of the same version.
RestartForVersionOnly(codex) == service.process.version # world.version[codex]

\* inspect_restart's reasons; the unit's text follows from the executable's path.
RestartNeeded(codex) ==
  \/ service.process.version # world.version[codex]
  \/ codex # disk.manifest.codex

\* inspect_restart's other answer: the running service proves nothing.
RestartUnknown == disk.unit # disk.manifest.codex \/ disk.config # disk.manifest.codex

\* load_update_manifest, service_snapshot, inspect_restart and, before a restart,
\* the caller's unit and the active turns.
BeginUpdate(release) ==
  LET active == service.activity = "active"
  IN /\ Accepts("update", release)
     /\ Snapshot
     /\ active => ~ RestartUnknown
     /\ Begin([Idle EXCEPT !.cmd = "update", !.release = release, !.codex = world.path,
                           !.version = world.version[world.path],
                           !.previous = disk.manifest.launcher,
                           !.enabled = service.enabled, !.active = active,
                           !.restart = active /\ RestartNeeded(world.path)])

\* A running service proves nothing when it cannot be reached either; a restart is
\* refused from inside the service or with active turns left unapproved.
UpdateRejected(release) ==
  \/ ~ Accepts("update", release) /\ Rejects("update", release, "status")
  \/ /\ Accepts("update", release)
     /\ ~ Snapshot
     /\ Rejects("update", release, "status")
  \/ /\ Accepts("update", release)
     /\ Snapshot
     /\ service.activity = "active"
     /\ \/ Rejects("update", release, "disable_update_enable")
        \/ /\ ~ RestartUnknown
           /\ RestartNeeded(world.path)
           /\ Rejects("update", release, "update")

\* The same release, and a status report that calls the installation healthy.
UpdateIsCurrent(release) ==
  /\ Accepts("update", release)
  /\ Snapshot
  /\ service.activity = "active" => ~ RestartUnknown
  /\ release = disk.manifest.release
  /\ disk.artifacts["binary"] = release
  /\ StatusState(release, {}) = "healthy"
  /\ EndsAtOnce("update", release, "current", "none")

-----------------------------------------------------------------------------
(* Stages over files.  A file is replaced as a whole or left as it was; of *)
(* the projection's files the one that names the release counts.           *)

\* A mistake: what is there already is left as it is.
WriteArtifactIfMissing ==
  /\ run.cmd \in {"setup", "update"}
  /\ Stage \in Artifacts
  /\ disk' = [disk EXCEPT !.artifacts[Stage] = IF @ = 0 THEN run.release ELSE @]
  /\ Proceed
  /\ UNCHANGED <<descriptors, service>>

WriteArtifact ==
  /\ run.cmd \in {"setup", "update"}
  /\ Stage \in Artifacts
  /\ disk' = [disk EXCEPT !.artifacts[Stage] = run.release]
  /\ Concludes
  /\ UNCHANGED <<descriptors, service>>

\* reconcile_plugin: another release's plugin is gone, and this one's not added.
PluginLost ==
  /\ AtAny({"setup", "update"}, "plugin")
  /\ disk.artifacts["plugin"] \notin {0, run.release}
  /\ disk' = [disk EXCEPT !.artifacts["plugin"] = 0]
  /\ StageFault
  /\ UNCHANGED <<descriptors, service>>

Removal == [binary |-> "binary_remove", projection |-> "projection_remove",
            marketplace |-> "marketplace_remove", plugin |-> "plugin_remove"]

RemoveArtifact ==
  /\ \E a \in Artifacts :
       /\ At("uninstall", Removal[a])
       /\ disk' = [disk EXCEPT !.artifacts[a] = 0]
  /\ \/ Proceed
     \/ Stage # "binary_remove" /\ StageFault
  /\ UNCHANGED <<descriptors, service>>

WriteConfiguration ==
  /\ AtAny({"setup", "update"}, "configuration")
  /\ disk' = [disk EXCEPT !.config = run.codex]
  /\ Concludes
  /\ UNCHANGED <<descriptors, service>>

RemoveConfiguration ==
  /\ At("uninstall", "configuration_remove")
  /\ disk' = [disk EXCEPT !.config = None]
  /\ Concludes
  /\ UNCHANGED <<descriptors, service>>

\* The unit file and, with the daemon-reload, what systemd loaded of it.
RemoveUnit ==
  /\ At("uninstall", "unit_remove")
  /\ disk' = [disk EXCEPT !.unit = None]
  /\ service' = [service EXCEPT !.loaded = None]
  /\ Proceed
  /\ UNCHANGED descriptors

\* The file stays, or systemd does not read its removal, or says it did not.
RemoveUnitFails ==
  /\ At("uninstall", "unit_remove")
  /\ \/ UNCHANGED <<disk, service>>
     \/ /\ disk' = [disk EXCEPT !.unit = None]
        /\ service' \in {service, [service EXCEPT !.loaded = None]}
  /\ StageFault
  /\ UNCHANGED descriptors

\* The attachment setup records: the verified launcher, else the previous one.
Attachment ==
  IF run.cmd = "setup" /\ run.target # None THEN run.target ELSE run.previous

WriteManifest ==
  /\ AtAny({"setup", "update"}, "manifest")
  /\ disk' = [disk EXCEPT !.manifest = [release |-> run.release, codex |-> run.codex,
                                        launcher |-> Attachment]]
  /\ Concludes
  /\ UNCHANGED <<descriptors, service>>

RemoveManifest ==
  /\ At("uninstall", "manifest_remove")
  /\ disk' = [disk EXCEPT !.manifest = None]
  /\ Proceed
  /\ UNCHANGED <<descriptors, service>>

\* The manifest goes and its directory does not: the binary is tried all the same.
DataRootStays ==
  /\ At("uninstall", "manifest_remove")
  /\ Spend("faults")
  /\ \E binary \in {0, disk.artifacts["binary"]} :
       disk' = [disk EXCEPT !.manifest = None, !.artifacts["binary"] = binary]
  /\ Fails("terminal")
  /\ UNCHANGED <<descriptors, service>>

-----------------------------------------------------------------------------
(* Stages over the Desktop descriptor.                                     *)

\* setup and enable publish for the verified launcher; update only repairs the
\* attached launcher's descriptor, and only for an enabled service.
PublishTarget ==
  IF run.cmd # "update" THEN run.target
  ELSE IF run.enabled THEN run.previous ELSE None

PublishDescriptor ==
  /\ AtAny({"setup", "enable", "update"}, "descriptor")
  /\ descriptors' = descriptors \union ({PublishTarget} \ {None})
  /\ run' = [run EXCEPT !.at = @ + 1, !.changed = PublishTarget \notin descriptors \union {None}]
  /\ UNCHANGED <<disk, service, world, report, spent>>

\* It fails with the descriptor in place, which it names as what it leaves.
PublishFails ==
  /\ AtAny({"setup", "enable", "update"}, "descriptor")
  /\ PublishTarget \notin descriptors \union {None}
  /\ descriptors' = descriptors \union {PublishTarget}
  /\ StageFault
  /\ UNCHANGED <<disk, service>>

\* setup removes the descriptor of the launcher it leaves.
LeftLauncher == IF run.target = None THEN {} ELSE {run.previous} \ {run.target, None}

SwitchDescriptor ==
  /\ At("setup", "descriptor_switch")
  /\ descriptors' = descriptors \ LeftLauncher
  /\ run' = [run EXCEPT !.at = @ + 1, !.changed = @ \/ LeftLauncher # {}]
  /\ UNCHANGED <<disk, service, world, report, spent>>

\* The removal fails, before or after the file is gone: a descriptor that this
\* setup has published is withdrawn again, if that works.
SwitchFails ==
  /\ At("setup", "descriptor_switch")
  /\ LeftLauncher # {} /\ LeftLauncher \subseteq descriptors
  /\ \E removed \in SUBSET LeftLauncher,
        withdrawn \in IF run.changed THEN SUBSET {run.target} ELSE {{}} :
       descriptors' = descriptors \ (removed \union withdrawn)
  /\ StageFault
  /\ UNCHANGED <<disk, service>>

\* disable and uninstall: the launcher that the manifest names.
RemoveDescriptor ==
  /\ AtAny({"disable", "uninstall"}, "descriptor_remove")
  /\ Permits(run.cmd)
  /\ descriptors' = descriptors \ {disk.manifest.launcher}
  /\ Concludes
  /\ UNCHANGED <<disk, service>>

\* The evidence is looked at only now, with the service already stopped.
NoDescriptorIdentity ==
  /\ AtAny({"disable", "uninstall"}, "descriptor_remove")
  /\ ~ Permits(run.cmd)
  /\ Fails(IF run.cmd = "disable" THEN "disable" ELSE "status")
  /\ UNCHANGED <<disk, descriptors, service, spent>>

\* A mistake: the descriptor withdrawn whatever the service does.
CleanupAnyway(s) == TRUE

\* cleanup_changed_descriptor_after_start_failure: only for a proven stop.
MayCleanUp(s) == s.activity = "inactive" /\ ~ s.socket

\* setup or enable fails after the descriptor, the service being left as `s'.  The
\* withdrawal can fail too, before or after the file is gone.
FailsAfterDescriptor(s, suggestion) ==
  LET incomplete == IF run.cmd = "enable" THEN "status" ELSE suggestion IN
  \/ /\ run.changed /\ MayCleanUp(s)
     /\ descriptors' = descriptors \ {run.target}
     /\ Fails(suggestion) \/ Fails(incomplete)
  \/ run.changed /\ UNCHANGED descriptors /\ Fails(incomplete)
  \/ /\ ~ run.changed
     /\ UNCHANGED descriptors
     /\ Fails(IF run.cmd = "enable" THEN "stop_enable" ELSE suggestion)

FaultAfterDescriptor ==
  /\ Spend("faults")
  /\ \E suggestion \in Suggestions(run.cmd, Stage) : FailsAfterDescriptor(service', suggestion)

-----------------------------------------------------------------------------
(* Stages over the unit and the service.                                   *)

WriteUnit ==
  /\ AtAny({"setup", "update"}, "unit")
  /\ disk' = [disk EXCEPT !.unit = run.codex]
  /\ UNCHANGED service
  /\ \/ Proceed /\ UNCHANGED descriptors
     \/ run.cmd = "update" /\ StageFault /\ UNCHANGED descriptors
     \/ run.cmd = "setup" /\ FaultAfterDescriptor

Reloaded == [service EXCEPT !.loaded = disk.unit]

Reload ==
  /\ AtAny({"setup", "update"}, "reload")
  /\ service' = Reloaded
  /\ Proceed
  /\ UNCHANGED <<disk, descriptors>>

\* `systemctl enable --now': nothing happens to a service that already runs.
EnableNow ==
  /\ AtAny({"setup", "enable"}, "enable")
  /\ service' = [Started(service) EXCEPT !.loaded = disk.unit]
  /\ Proceed
  /\ UNCHANGED <<disk, descriptors>>

\* It fails before or after enabling, or its process dies at once.
EnableOutcomes ==
  {service, [service EXCEPT !.enabled = TRUE]} \union
  {Failed([service EXCEPT !.enabled = TRUE, !.loaded = disk.unit], socket) :
     socket \in IF service.activity = "active" THEN {} ELSE BOOLEAN}

\* The stages of setup and enable that fail with the descriptor published.
StartFails ==
  /\ \/ \E stage \in {"unit", "reload", "enable", "verify"} : At("setup", stage)
     \/ \E stage \in {"enable", "verify"} : At("enable", stage)
  /\ service' \in CASE Stage = "enable" -> EnableOutcomes
                    [] Stage = "reload" -> {service, Reloaded}
                    [] OTHER -> {service}
  /\ FaultAfterDescriptor
  /\ UNCHANGED disk

\* verify_enabled_service: enabled, active, answering, of the expected version.
VerifiedEnabled ==
  /\ Enablement = "enabled"
  /\ service.activity = "active"
  /\ service.socket
  /\ service.process.version = run.version

VerifiedDisabled ==
  Enablement = "disabled" /\ service.activity = "inactive" /\ ~ service.socket

Verify ==
  /\ \/ AtAny({"setup", "enable"}, "verify") /\ VerifiedEnabled
     \/ AtAny({"disable", "uninstall"}, "verify_disabled") /\ VerifiedDisabled
     \/ At("update", "verify") /\ IF run.enabled THEN VerifiedEnabled ELSE VerifiedDisabled
  /\ Proceed
  /\ UNCHANGED <<disk, descriptors, service>>

VerifyFails ==
  /\ \/ AtAny({"setup", "enable"}, "verify") /\ ~ VerifiedEnabled
     \/ AtAny({"disable", "uninstall"}, "verify_disabled") /\ ~ VerifiedDisabled
     \/ At("update", "verify") /\ ~ IF run.enabled THEN VerifiedEnabled ELSE VerifiedDisabled
  /\ \E suggestion \in Suggestions(run.cmd, Stage) :
       IF run.cmd \in {"setup", "enable"}
       THEN FailsAfterDescriptor(service, suggestion)
       ELSE Fails(suggestion) /\ UNCHANGED descriptors
  /\ UNCHANGED <<disk, service, spent>>

\* update's service-apply: restart, start, or leave the service alone.
Applied ==
  IF run.enabled /\ run.active /\ run.restart
  THEN [Started(Stopped(service)) EXCEPT !.enabled = service.enabled,
          !.process = [codex |-> service.loaded, version |-> world.version[service.loaded]]]
  ELSE IF run.enabled /\ ~ run.active
  THEN [Started(service) EXCEPT !.loaded = disk.unit]
  ELSE service

Apply ==
  /\ At("update", "apply")
  /\ service' = Applied
  /\ Proceed
  /\ UNCHANGED <<disk, descriptors>>

\* The restart or the start fails: at once, with the service stopped, or with the
\* new process dead.
ApplyFails ==
  /\ At("update", "apply")
  /\ run.enabled /\ (run.active => run.restart)
  /\ service' \in {service, Stopped(service)} \union
                  {Failed(Applied, socket) : socket \in BOOLEAN}
  /\ StageFault
  /\ UNCHANGED <<disk, descriptors>>

ReloadFails ==
  /\ At("update", "reload")
  /\ service' \in {service, Reloaded}
  /\ StageFault
  /\ UNCHANGED <<disk, descriptors>>

\* `systemctl disable --now' fails without a unit file.  With the service systemd
\* removes its RuntimeDirectory, and in it the socket, also one that a dead process
\* left; a service that has failed can stay failed.
DisableNow ==
  /\ AtAny({"disable", "uninstall"}, "disable")
  /\ disk.unit # None
  /\ service' \in {[Stopped(service) EXCEPT !.enabled = FALSE]} \union
                  (IF service.activity = "unproven"
                   THEN {[service EXCEPT !.enabled = FALSE]} ELSE {})
  /\ Proceed
  /\ UNCHANGED <<disk, descriptors>>

\* The command succeeds, and the socket is left behind.
SocketStays ==
  /\ AtAny({"disable", "uninstall"}, "disable")
  /\ disk.unit # None
  /\ service.socket
  /\ Spend("faults")
  /\ service' = [Stopped(service) EXCEPT !.enabled = FALSE, !.socket = TRUE]
  /\ run' = [run EXCEPT !.at = @ + 1]
  /\ UNCHANGED <<disk, descriptors, world, report>>

\* uninstall goes on when the failure is explained by a unit already gone.
DisableUnneeded ==
  /\ At("uninstall", "disable")
  /\ disk.unit = None
  /\ service.activity = "inactive"
  /\ ~ service.socket
  /\ run' = [run EXCEPT !.at = @ + 2]
  /\ UNCHANGED <<disk, descriptors, service, world, report, spent>>

DisableFails ==
  /\ AtAny({"disable", "uninstall"}, "disable")
  /\ disk.unit # None => Spend("faults")
  /\ disk.unit = None => UNCHANGED spent
  /\ ~ (run.cmd = "uninstall" /\ disk.unit = None /\ MayCleanUp(service))
  /\ service' \in {service, [service EXCEPT !.enabled = FALSE]}
  /\ Fails(StopThen[run.cmd])
  /\ UNCHANGED <<disk, descriptors>>

-----------------------------------------------------------------------------
(* Ends before the end.                                                    *)

\* Any other stage fails and changes nothing.
StageFails ==
  /\ run # Idle
  /\ Stage \notin {"disable", "unit_remove", "descriptor_switch", "enable", "verify_disabled",
                   "reload", "apply"}
  /\ ~ (run.cmd \in {"setup", "enable"} /\ Stage \in {"unit", "verify"})
  /\ StageFault
  /\ UNCHANGED <<disk, descriptors, service>>

\* The process is killed between two stages; the machine goes on running.
Killed ==
  /\ run # Idle
  /\ Spend("faults")
  /\ run' = Idle
  /\ Tells("killed", "none")
  /\ UNCHANGED <<disk, descriptors, service, world>>

-----------------------------------------------------------------------------
Init ==
  /\ disk = [config |-> None, unit |-> None, manifest |-> None,
             artifacts |-> [a \in Artifacts |-> 0]]
  /\ descriptors = {}
  /\ service = [enabled |-> FALSE, activity |-> "inactive", socket |-> FALSE,
                loaded |-> None, process |-> NoProcess]
  /\ world \in [path : Codexes, version : {[codex \in Codexes |-> 0]}]
  /\ run = Idle
  /\ report = [cmd |-> "none", outcome |-> "none", suggestion |-> "none",
               release |-> 1, codex |-> None, accepted |-> FALSE]
  /\ spent = [commands |-> 0, faults |-> 0, changes |-> 0]

Begins ==
  \/ \E release \in Releases :
       \/ BeginSetup(release) \/ SetupRejected(release)
       \/ BeginUpdate(release) \/ UpdateRejected(release) \/ UpdateIsCurrent(release)
  \/ BeginEnable \/ EnableRejected
  \/ \E cmd \in {"disable", "uninstall"} : BeginStop(cmd) \/ StopRejected(cmd)

FileStages ==
  \/ WriteArtifact \/ PluginLost \/ RemoveArtifact
  \/ WriteConfiguration \/ RemoveConfiguration
  \/ WriteUnit \/ RemoveUnit \/ RemoveUnitFails
  \/ WriteManifest \/ RemoveManifest \/ DataRootStays

DescriptorStages ==
  \/ PublishDescriptor \/ PublishFails \/ SwitchDescriptor \/ SwitchFails
  \/ RemoveDescriptor \/ NoDescriptorIdentity

ServiceStages ==
  \/ Reload \/ ReloadFails \/ EnableNow \/ StartFails \/ Verify \/ VerifyFails
  \/ Apply \/ ApplyFails \/ DisableNow \/ SocketStays \/ DisableUnneeded \/ DisableFails

Surroundings ==
  ServiceFails \/ ServiceRestarts \/ UserStops \/ PathChanges \/ CodexUpgrades

Next ==
  \/ Begins \/ FileStages \/ DescriptorStages \/ ServiceStages
  \/ StageFails \/ Killed \/ Surroundings

Spec == Init /\ [][Next]_vars

-----------------------------------------------------------------------------
(* Properties.                                                             *)

\* Every variable has its type, a command is at one of its stages, and a service
\* is active exactly while its process runs.
LifecycleTypeOK ==
  /\ disk \in [config : Codexes \union {None}, unit : Codexes \union {None},
               manifest : Manifests \union {None},
               artifacts : [Artifacts -> {0} \union Releases]]
  /\ descriptors \subseteq Launchers
  /\ service.enabled \in BOOLEAN /\ service.socket \in BOOLEAN
  /\ service.loaded \in Codexes \union {None}
  /\ service.activity \in {"active", "inactive", "unproven"}
  /\ service.activity = "active" <=> service.process.codex \in Codexes
  /\ run.cmd \in Commands \union {"none"} /\ run.at \in 1..Len(Stages(run.cmd))
  /\ run.release \in Releases /\ run.codex \in Codexes \union {None}
  /\ run.target \in Launchers \union {None} /\ run.previous \in Launchers \union {None}
  /\ report.suggestion \in AllSuggestions

\* A command that a failed stage or a kill cut short can be run again: its checks
\* accept what it left on disk.  Not claimed where it is not so: an update that
\* was replacing the Codex executable (UpdateMayBeRetried), and an uninstall past
\* the removal of the manifest, which says not to be run again.
InterruptedMayResume ==
  /\ report.outcome \in {"failed", "killed"}
  /\ report.accepted
  /\ report.cmd = "update" => report.codex = disk.manifest.codex
  /\ report.cmd = "uninstall" => disk.manifest # None
  => Accepts(report.cmd, report.release)

\* A descriptor leads Desktop clients to the socket: it is removed only when the
\* service is proven stopped and its socket gone, or when setup moves it to
\* another launcher (setup.rs, enable_disable.rs, uninstall.rs, install.rs).  A
\* move leaves one of the two, unless the removal of the old one fails after the
\* file is gone and the new one, just published, is withdrawn again.
DescriptorOutlivesService ==
  [][\A launcher \in descriptors \ descriptors' :
       \/ service.activity = "inactive" /\ ~ service.socket
       \/ run.cmd = "setup" /\ {run.target, run.previous} \intersect descriptors' # {}
       \/ At("setup", "descriptor_switch") /\ run.changed /\ report'.outcome = "failed"]_vars

\* After a setup, enable or update that reports success, one that found nothing to
\* do included, the manifest, the configuration, the unit and the running service
\* agree on the Codex executable.
Deployed ==
  report.outcome \in {"ok", "current"} /\ report.cmd \in {"setup", "enable", "update"} =>
    /\ disk.manifest # None
    /\ disk.config = disk.manifest.codex
    /\ disk.unit = disk.manifest.codex
    /\ service.activity = "active" => service.process.codex = disk.manifest.codex

\* After an uninstall that reports success nothing of the product is installed or
\* running, whichever earlier command was cut short.  The same of one that says
\* not to run it again, but for the binary that it may leave: nothing is left that
\* would need the identity it has removed (TerminalPartialUninstall).
UninstallLeavesNothing ==
  /\ report.cmd = "uninstall"
  /\ \/ report.outcome = "ok"
     \/ report.outcome = "failed" /\ report.suggestion = "terminal"
  =>
    /\ disk.config = None /\ disk.unit = None /\ disk.manifest = None
    /\ \A a \in Artifacts :
         disk.artifacts[a] # 0 => a = "binary" /\ report.outcome = "failed"
    /\ ~ service.enabled /\ service.activity = "inactive" /\ ~ service.socket

\* A disable that reports success, and one that says it "is stopped and will not
\* start automatically" but could not remove the descriptor, tells the truth: the
\* service is proven stopped, not only told to stop (PartialDisable).
DisableIsTrue ==
  /\ report.cmd = "disable"
  /\ \/ report.outcome = "ok"
     \/ report.outcome = "failed" /\ report.suggestion = "disable"
  => ~ service.enabled /\ service.activity = "inactive" /\ ~ service.socket

\* A report that reads "healthy" is true of what it does not look at: the process
\* that answers runs the manifest's Codex, which systemd would start again, the
\* marketplace is registered, an attached Desktop is connected, and every command
\* accepts the installation.  It is asked between two commands, of which the last
\* may have been cut short anywhere (project_status_result, status.rs).
HealthyIsReal ==
  run = Idle => \A program \in Releases :
    StatusState(program, {}) = "healthy" =>
      /\ disk.manifest # None
      /\ service.process.codex = disk.manifest.codex
      /\ service.loaded = disk.manifest.codex
      /\ disk.artifacts["marketplace"] # 0
      /\ Attached => DesktopIntegration({}) = "ready"
      /\ \A cmd \in Commands : Accepts(cmd, program)

\* The command that a report tells the user to run is one that accepts what is
\* there, and an installation that reads as not installed has nothing running.  An
\* unhealthy report never goes without a problem, whichever question failed where
\* nothing else is wrong (StatusResult::render, cli_output.rs).  Advice to look at the
\* logs or to ask again is no claim about a command: it is the advised enable, setup
\* and update that could be wrong.
StatusAdviceHolds ==
  run = Idle =>
    /\ \A program \in Releases :
         LET advice == StatusAdvice(program, {})
         IN advice \in Commands => Accepts(advice, program)
    /\ Evidence = "first_install" => service.activity = "inactive" /\ ~ service.socket
    /\ LET program == IF disk.manifest = None THEN 1 ELSE disk.manifest.release IN
       \/ Problems(program, {}) # {}
       \/ /\ StatusState(program, {}) # "unhealthy"
          /\ \A question \in Questions :
               \/ StatusState(program, {question}) # "unhealthy"
               \/ Problems(program, {question}) # {}

\* A setup or an update that reports success leaves nothing on disk that the report
\* of the same release objects to; only the service and Desktop's connection file
\* can be at fault then (setup.rs, update.rs, status.rs).
AppliedIsFaultless ==
  report.outcome = "ok" /\ report.cmd \in {"setup", "update"} =>
    Problems(report.release, {})
      \subseteq ServiceProblems({}) \union AppServerProblems({}) \union DesktopProblems({})

\* A failed update that tells the user to run update again is accepted when it is
\* run again (docs/architecture.md:58, README.md:102).  The code breaks this: an
\* update that fails with the new Codex in the configuration and the old one in
\* the manifest leaves contradictory evidence, which every command refuses.
UpdateMayBeRetried ==
  report.outcome = "failed" /\ report.cmd = "update" /\ report.suggestion = "update"
  => Accepts("update", report.release)

\* A failed setup that tells the user to run update is followed by an update that
\* accepts the installation (cli_output.rs:1038).  The code breaks this on a first
\* installation, whose manifest is not written yet.
SetupSuggestionAccepted ==
  report.outcome = "failed" /\ report.cmd = "setup" /\ report.suggestion = "update"
  => Accepts("update", report.release)

\* A disable or an uninstall that reports success leaves no descriptor
\* (docs/architecture.md:52).  The code breaks this: a setup that published for a
\* launcher and was cut short before the manifest leaves one nobody removes.
StoppedWithoutDescriptor ==
  report.outcome = "ok" /\ report.cmd \in {"disable", "uninstall"} => descriptors = {}
=============================================================================
