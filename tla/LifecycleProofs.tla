--------------------------- MODULE LifecycleProofs ---------------------------
(***************************************************************************)
(* What holds of any sequence of lifecycle commands, stage failures, kills,*)
(* service failures, Codex upgrades and changes of PATH, whatever the      *)
(* numbers of executables, launchers, releases and commands.               *)
(***************************************************************************)
EXTENDS Lifecycle, TLAPS

\* The types of all variables.  Between two commands there is no command.
DiskTyped ==
  /\ disk \in [config : Codexes \union {None}, unit : Codexes \union {None},
               manifest : Manifests \union {None},
               artifacts : [Artifacts -> {0} \union Releases]]
  /\ descriptors \subseteq Launchers

ServiceTyped ==
  /\ service \in [enabled : BOOLEAN, activity : {"active", "inactive", "unproven"},
                  socket : BOOLEAN, loaded : Codexes \union {None},
                  process : [codex : Codexes \union {None}, version : Nat]]
  /\ service.activity = "active" <=> service.process.codex \in Codexes

WorldTyped == world \in [path : Codexes, version : [Codexes -> Nat]]

RunTyped ==
  /\ run \in [cmd : Commands \union {"none"}, at : Nat, release : Releases,
              codex : Codexes \union {None}, version : Nat,
              target : Launchers \union {None}, previous : Launchers \union {None},
              changed : BOOLEAN, enabled : BOOLEAN, active : BOOLEAN, restart : BOOLEAN,
              accepted : BOOLEAN]
  /\ run.at \in 1 .. Len(Stages(run.cmd))
  /\ run.cmd = "none" => run = Idle
  /\ run.cmd \in {"setup", "update"} => run.codex \in Codexes
  /\ report.suggestion \in AllSuggestions

Typed == DiskTyped /\ ServiceTyped /\ WorldTyped /\ RunTyped

Stopping == {"disable", "uninstall"}
Permitted == {"coherent", "manifest_only"}

\* A unit file, what systemd loaded of it and what runs are of the one executable that
\* configuration and manifest name, unless these contradict each other.
OneCodex ==
  Evidence # "contradictory" =>
    /\ disk.unit \in {None, StatusCodex}
    /\ service.loaded \in {None, StatusCodex}
    /\ service.activity # "inactive" => service.loaded # None
    /\ service.activity = "active" => service.process.codex = StatusCodex

\* What a stage that is taken before another leaves for it.
InOrder ==
  /\ StatusCodex = None => ~ service.socket
  /\ disk.unit = None => ~ service.enabled
  /\ disk.artifacts["plugin"] # 0 => disk.artifacts["marketplace"] # 0

\* A command that is cut short is accepted again.
Resumes(cmd, release, codex, accepted) ==
  /\ cmd = "setup" =>
       /\ Evidence # "contradictory"
       /\ disk.manifest # None => disk.manifest.release = release
       /\ disk.manifest = None =>
            \A a \in Artifacts \ {"marketplace"} : disk.artifacts[a] \in {0, release}
  /\ cmd = "enable" => Evidence = "coherent" /\ disk.unit = disk.config
  /\ cmd = "update" =>
       /\ disk.manifest # None /\ release >= disk.manifest.release
       /\ codex = disk.manifest.codex => Evidence \in Permitted
  /\ cmd = "disable" /\ accepted => Evidence \in Permitted
  /\ cmd = "uninstall" /\ accepted /\ disk.manifest # None => Evidence \in Permitted

\* What the stages that setup and update have taken left on disk.
Written ==
  run.cmd \in {"setup", "update"} =>
    /\ run.at > 1 => disk.artifacts["binary"] = run.release
    /\ run.at > 2 => disk.config = run.codex
    /\ run.at > 3 => disk.artifacts["projection"] = run.release
    /\ run.at > 4 => disk.artifacts["marketplace"] = run.release
    /\ run.at > 5 => disk.artifacts["plugin"] = run.release

SetupProgress ==
  run.cmd = "setup" =>
    /\ StatusCodex \in {None, run.codex}
    /\ run.at = 7 /\ run.target # None => run.target \in descriptors
    /\ run.at > 8 => disk.unit = run.codex

\* Update replaces the executable under a service that may be running.
UpdateProgress ==
  run.cmd = "update" =>
    /\ run.at < 3 => Evidence \in Permitted
    /\ run.at > 7 => disk.unit = run.codex
    /\ run.at > 8 => service.loaded = run.codex
    /\ run.at < 10 /\ ~ run.active => service.activity = "inactive"
    /\ run.active => run.enabled
    /\ run.active /\ ~ run.restart => run.codex = disk.manifest.codex
    /\ run.at > 9 /\ service.activity = "active" => service.process.codex = run.codex

\* disable and uninstall go on only from a stopped service.
StopProgress ==
  /\ run.cmd \in Stopping /\ run.at > 2 =>
       ~ service.enabled /\ service.activity = "inactive" /\ ~ service.socket
  /\ run.cmd = "uninstall" =>
       /\ run.at \in 4 .. 9 => disk.manifest # None /\ Evidence \in Permitted
       /\ run.at > 4 => disk.unit = None /\ service.loaded = None
       /\ run.at > 5 => disk.artifacts["plugin"] = 0
       /\ run.at > 6 => disk.artifacts["marketplace"] = 0
       /\ run.at > 7 => disk.artifacts["projection"] = 0
       /\ run.at > 8 => disk.config = None
       /\ run.at > 9 => disk.manifest = None

\* What the last report says of the disk.
Reported ==
  /\ run.cmd # "none" => report.outcome = "running"
  /\ report.outcome \in {"ok", "current"} /\ report.cmd \in {"setup", "enable", "update"} =>
       /\ disk.manifest # None
       /\ disk.config = disk.manifest.codex /\ disk.unit = disk.manifest.codex
  /\ report.outcome = "ok" /\ report.cmd \in {"setup", "update"} =>
       /\ disk.manifest.release = report.release
       /\ \A a \in Artifacts : disk.artifacts[a] = report.release
  /\ report.outcome = "ok" /\ report.cmd = "disable" =>
       disk.manifest # None /\ disk.manifest.launcher \notin descriptors
  /\ report.outcome \in {"failed", "killed"} =>
       /\ report.cmd \in Commands
       /\ Resumes(report.cmd, report.release, report.codex, report.accepted)

\* What the last report says of a service that was to stop.
StopsAreReal == UninstallLeavesNothing /\ DisableIsTrue

LifecycleInv ==
  /\ Typed /\ OneCodex /\ InOrder
  /\ Resumes(run.cmd, run.release, run.codex, run.accepted)
  /\ Written /\ SetupProgress /\ UpdateProgress /\ StopProgress
  /\ Reported /\ StopsAreReal

-----------------------------------------------------------------------------
(* Where the stages are.                                                   *)

LEMMA SetupStagesAre ==
  ASSUME Typed, run.cmd = "setup"
  PROVE  /\ Len(Stages(run.cmd)) = 12 /\ run.at \in 1 .. 12
         /\ Stage = "binary" <=> run.at = 1
         /\ Stage = "configuration" <=> run.at = 2
         /\ Stage = "projection" <=> run.at = 3
         /\ Stage = "marketplace" <=> run.at = 4
         /\ Stage = "plugin" <=> run.at = 5
         /\ Stage = "descriptor" <=> run.at = 6
         /\ Stage = "descriptor_switch" <=> run.at = 7
         /\ Stage = "unit" <=> run.at = 8
         /\ Stage = "reload" <=> run.at = 9
         /\ Stage = "enable" <=> run.at = 10
         /\ Stage = "verify" <=> run.at = 11
         /\ Stage = "manifest" <=> run.at = 12
  <1>1. Stages(run.cmd) =
          <<"binary", "configuration", "projection", "marketplace", "plugin", "descriptor",
            "descriptor_switch", "unit", "reload", "enable", "verify", "manifest">>
    BY DEF Stages, SetupStages
  <1>2. run.at \in 1 .. Len(Stages(run.cmd))
    BY DEF Typed, RunTyped
  <1>3. QED
    <2>1. Len(Stages(run.cmd)) = 12 /\ run.at \in 1 .. 12
      BY <1>1, <1>2
    <2>2. CASE run.at \in 1 .. 6
      BY <1>1, <2>1, <2>2 DEF Stage
    <2>3. CASE run.at \in 7 .. 12
      BY <1>1, <2>1, <2>3 DEF Stage
    <2>4. QED
      BY <2>1, <2>2, <2>3

LEMMA UpdateStagesAre ==
  ASSUME Typed, run.cmd = "update"
  PROVE  /\ Len(Stages(run.cmd)) = 11 /\ run.at \in 1 .. 11
         /\ Stage = "binary" <=> run.at = 1
         /\ Stage = "configuration" <=> run.at = 2
         /\ Stage = "projection" <=> run.at = 3
         /\ Stage = "marketplace" <=> run.at = 4
         /\ Stage = "plugin" <=> run.at = 5
         /\ Stage = "descriptor" <=> run.at = 6
         /\ Stage = "unit" <=> run.at = 7
         /\ Stage = "reload" <=> run.at = 8
         /\ Stage = "apply" <=> run.at = 9
         /\ Stage = "verify" <=> run.at = 10
         /\ Stage = "manifest" <=> run.at = 11
  <1>1. Stages(run.cmd) =
          <<"binary", "configuration", "projection", "marketplace", "plugin", "descriptor",
            "unit", "reload", "apply", "verify", "manifest">>
    BY DEF Stages, UpdateStages
  <1>2. run.at \in 1 .. Len(Stages(run.cmd))
    BY DEF Typed, RunTyped
  <1>3. Len(Stages(run.cmd)) = 11 /\ run.at \in 1 .. 11
    BY <1>1, <1>2
  <1>4. CASE run.at \in 1 .. 6
    BY <1>1, <1>3, <1>4 DEF Stage
  <1>5. CASE run.at \in 7 .. 11
    BY <1>1, <1>3, <1>5 DEF Stage
  <1>6. QED
    BY <1>3, <1>4, <1>5

LEMMA EnableStagesAre ==
  ASSUME Typed, run.cmd = "enable"
  PROVE  /\ Len(Stages(run.cmd)) = 3 /\ run.at \in 1 .. 3
         /\ Stage = "descriptor" <=> run.at = 1
         /\ Stage = "enable" <=> run.at = 2
         /\ Stage = "verify" <=> run.at = 3
  <1>1. Stages(run.cmd) = <<"descriptor", "enable", "verify">>
    BY DEF Stages, EnableStages
  <1>2. run.at \in 1 .. Len(Stages(run.cmd))
    BY DEF Typed, RunTyped
  <1>3. QED
    BY <1>1, <1>2 DEF Stage

LEMMA DisableStagesAre ==
  ASSUME Typed, run.cmd = "disable"
  PROVE  /\ Len(Stages(run.cmd)) = 3 /\ run.at \in 1 .. 3
         /\ Stage = "disable" <=> run.at = 1
         /\ Stage = "verify_disabled" <=> run.at = 2
         /\ Stage = "descriptor_remove" <=> run.at = 3
  <1>1. Stages(run.cmd) = <<"disable", "verify_disabled", "descriptor_remove">>
    BY DEF Stages, DisableStages
  <1>2. run.at \in 1 .. Len(Stages(run.cmd))
    BY DEF Typed, RunTyped
  <1>3. QED
    BY <1>1, <1>2 DEF Stage

LEMMA UninstallStagesAre ==
  ASSUME Typed, run.cmd = "uninstall"
  PROVE  /\ Len(Stages(run.cmd)) = 10 /\ run.at \in 1 .. 10
         /\ Stage = "disable" <=> run.at = 1
         /\ Stage = "verify_disabled" <=> run.at = 2
         /\ Stage = "descriptor_remove" <=> run.at = 3
         /\ Stage = "unit_remove" <=> run.at = 4
         /\ Stage = "plugin_remove" <=> run.at = 5
         /\ Stage = "marketplace_remove" <=> run.at = 6
         /\ Stage = "projection_remove" <=> run.at = 7
         /\ Stage = "configuration_remove" <=> run.at = 8
         /\ Stage = "manifest_remove" <=> run.at = 9
         /\ Stage = "binary_remove" <=> run.at = 10
  <1>1. Stages(run.cmd) =
          <<"disable", "verify_disabled", "descriptor_remove", "unit_remove", "plugin_remove",
            "marketplace_remove", "projection_remove", "configuration_remove",
            "manifest_remove", "binary_remove">>
    BY DEF Stages, UninstallStages
  <1>2. run.at \in 1 .. Len(Stages(run.cmd))
    BY DEF Typed, RunTyped
  <1>3. Len(Stages(run.cmd)) = 10 /\ run.at \in 1 .. 10
    BY <1>1, <1>2
  <1>4. CASE run.at \in 1 .. 5
    BY <1>1, <1>3, <1>4 DEF Stage
  <1>5. CASE run.at \in 6 .. 10
    BY <1>1, <1>3, <1>5 DEF Stage
  <1>6. QED
    BY <1>3, <1>4, <1>5

\* Which stage belongs to which commands.
LEMMA StagesOf ==
  ASSUME Typed
  PROVE  /\ run.cmd \in Commands \union {"none"}
         /\ run.cmd = "none" => run = Idle /\ Stage = "idle"
         /\ Stage \in Artifacts \union {"configuration", "unit", "reload", "manifest"} =>
              run.cmd \in {"setup", "update"}
  <1>1. Stages("none") = <<"idle">> /\ Idle.at = 1
    BY DEF Stages, Idle
  <1>2. run.cmd = "none" => run = Idle /\ Stage = "idle"
    BY <1>1 DEF Typed, RunTyped, Stage
  <1>3. CASE run.cmd = "disable"
    BY <1>2, <1>3, DisableStagesAre DEF Artifacts, Commands
  <1>4. CASE run.cmd = "enable"
    BY <1>4, EnableStagesAre DEF Artifacts, Commands
  <1>5. CASE run.cmd = "uninstall"
    BY <1>5, UninstallStagesAre DEF Artifacts, Commands
  <1>6. QED
    BY <1>2, <1>3, <1>4, <1>5 DEF Typed, RunTyped, Commands, Artifacts

-----------------------------------------------------------------------------
(* Commands that go on and commands that end.                              *)

LEMMA EvidenceIs ==
  /\ Evidence = "contradictory" <=> /\ disk.config # None /\ disk.manifest # None
                                    /\ disk.config # disk.manifest.codex
  /\ Evidence = "coherent" <=> /\ disk.config # None /\ disk.manifest # None
                               /\ disk.config = disk.manifest.codex
  /\ Evidence = "manifest_only" <=> disk.config = None /\ disk.manifest # None
  /\ Evidence' = "contradictory" <=> /\ disk'.config # None /\ disk'.manifest # None
                                     /\ disk'.config # disk'.manifest.codex
  /\ Evidence' = "coherent" <=> /\ disk'.config # None /\ disk'.manifest # None
                                /\ disk'.config = disk'.manifest.codex
  /\ Evidence' = "manifest_only" <=> disk'.config = None /\ disk'.manifest # None
  BY DEF Evidence

\* What no stage changes of the command it belongs to.
SameCommand ==
  /\ run'.cmd = run.cmd /\ run'.release = run.release /\ run'.codex = run.codex
  /\ run'.target = run.target /\ run'.previous = run.previous
  /\ run'.enabled = run.enabled /\ run'.active = run.active /\ run'.restart = run.restart
  /\ run'.accepted = run.accepted

LEMMA UpToNat ==
  \A l \in Nat : (\A i \in 1 .. l : i \in Nat) /\ (l # 0 => 1 \in 1 .. l)
  OBVIOUS

LEMMA LengthsAre ==
  ASSUME Typed, run.cmd # "none"
  PROVE  Len(Stages(run.cmd)) \in Nat /\ run.at \in 1 .. Len(Stages(run.cmd))
  <1>1. run.cmd \in Commands /\ run.at \in 1 .. Len(Stages(run.cmd))
    BY DEF Typed, RunTyped
  <1>2. CASE run.cmd = "setup"
    BY <1>1, <1>2, SetupStagesAre
  <1>3. CASE run.cmd = "update"
    BY <1>1, <1>3, UpdateStagesAre
  <1>4. CASE run.cmd = "enable"
    BY <1>1, <1>4, EnableStagesAre
  <1>5. CASE run.cmd = "disable"
    BY <1>1, <1>5, DisableStagesAre
  <1>6. CASE run.cmd = "uninstall"
    BY <1>1, <1>6, UninstallStagesAre
  <1>7. QED
    BY <1>1, <1>2, <1>3, <1>4, <1>5, <1>6 DEF Commands

LEMMA GoesOn ==
  ASSUME LifecycleInv, run.cmd # "none", NEW n \in 1 .. Len(Stages(run.cmd)),
         \/ run' = [run EXCEPT !.at = n]
         \/ \E changed \in BOOLEAN : run' = [run EXCEPT !.at = n, !.changed = changed],
         report' = report
  PROVE  SameCommand /\ run'.at = n /\ RunTyped' /\ Reported' /\ StopsAreReal'
  <1>1. SameCommand /\ run'.at = n
    BY DEF LifecycleInv, Typed, RunTyped, SameCommand
  <1>2. Len(Stages(run.cmd)) \in Nat
    BY LengthsAre DEF LifecycleInv
  <1>3. RunTyped'
    <2>1. n \in Nat
      BY <1>2, UpToNat
    <2>2. run' \in [cmd : Commands \union {"none"}, at : Nat, release : Releases,
                    codex : Codexes \union {None}, version : Nat,
                    target : Launchers \union {None}, previous : Launchers \union {None},
                    changed : BOOLEAN, enabled : BOOLEAN, active : BOOLEAN,
                    restart : BOOLEAN, accepted : BOOLEAN]
      BY <2>1 DEF LifecycleInv, Typed, RunTyped
    <2>3. Stages(run'.cmd) = Stages(run.cmd)
      BY <1>1 DEF SameCommand
    <2>4. QED
      BY <1>1, <2>2, <2>3 DEF LifecycleInv, Typed, RunTyped, SameCommand
  <1>4. report.outcome = "running"
    BY DEF LifecycleInv, Reported
  <1>5. QED
    BY <1>1, <1>3, <1>4 DEF Reported, StopsAreReal, UninstallLeavesNothing, DisableIsTrue

LEMMA Continues ==
  ASSUME LifecycleInv, run.cmd # "none", run.at # Len(Stages(run.cmd)), Proceed
  PROVE  /\ SameCommand /\ run'.at = run.at + 1 /\ world' = world
         /\ RunTyped' /\ Reported' /\ StopsAreReal'
  <1>1. run' = [run EXCEPT !.at = run.at + 1] /\ report' = report /\ world' = world
    BY DEF Proceed
  <1>2. run.at + 1 \in 1 .. Len(Stages(run.cmd))
    BY LengthsAre DEF LifecycleInv
  <1>3. QED
    BY <1>1, <1>2, GoesOn

LEMMA Completes ==
  ASSUME run.at = Len(Stages(run.cmd)), Proceed
  PROVE  run' = Idle /\ Tells("ok", "none") /\ world' = world
  BY DEF Proceed

\* Whatever is not about the command in progress is all there is between two commands.
LEMMA IdleAgain ==
  ASSUME run' = Idle, DiskTyped', ServiceTyped', WorldTyped',
         report'.suggestion \in AllSuggestions, OneCodex', InOrder', Reported',
         StopsAreReal'
  PROVE  LifecycleInv'
  <1>1. RunTyped'
    <2>1. Len(Stages("none")) = 1
      BY DEF Stages
    <2>2. 1 \in Releases
      BY InstallationAssumption DEF Releases
    <2>3. Idle \in [cmd : Commands \union {"none"}, at : Nat, release : Releases,
                     codex : Codexes \union {None}, version : Nat,
                     target : Launchers \union {None}, previous : Launchers \union {None},
                     changed : BOOLEAN, enabled : BOOLEAN, active : BOOLEAN,
                     restart : BOOLEAN, accepted : BOOLEAN]
      BY <2>2 DEF Idle
    <2>4. Idle.cmd = "none" /\ Idle.at \in 1 .. Len(Stages(Idle.cmd))
      BY <2>1 DEF Idle
    <2>5. QED
      BY <2>3, <2>4 DEF RunTyped
  <1>2. QED
    BY <1>1
    DEF LifecycleInv, Typed, Idle, Resumes, Written, SetupProgress, UpdateProgress,
        StopProgress, Stopping

\* What a report says of the command that is cut short.
LeavesResumable == Resumes(report.cmd, report.release, report.codex, report.accepted)

\* A command that is cut short, whatever its last stage has changed.
LEMMA EndsShort ==
  ASSUME LifecycleInv, run.cmd # "none", run' = Idle, NEW outcome \in {"failed", "killed"},
         NEW suggestion \in AllSuggestions, Tells(outcome, suggestion), world' = world,
         DiskTyped', ServiceTyped', OneCodex', InOrder', LeavesResumable',
         run.cmd \in Stopping /\ suggestion \in {"disable", "terminal"} => StopsAreReal'
  PROVE  LifecycleInv'
  <1>1. /\ report'.outcome = outcome /\ report'.cmd = run.cmd
        /\ report'.suggestion = suggestion
    BY DEF Tells
  <1>2. WorldTyped'
    BY DEF LifecycleInv, Typed, WorldTyped
  <1>3. run.cmd \in Commands
    BY DEF LifecycleInv, Typed, RunTyped
  <1>4. Reported'
    BY <1>1, <1>3 DEF Reported, LeavesResumable, Idle
  <1>5. StopsAreReal'
    BY <1>1 DEF StopsAreReal, UninstallLeavesNothing, DisableIsTrue, Stopping
  <1>6. QED
    BY <1>1, <1>2, <1>4, <1>5, IdleAgain

LEMMA ToldOf ==
  ASSUME NEW outcome, NEW suggestion, Tells(outcome, suggestion)
  PROVE  /\ report'.cmd = run.cmd /\ report'.release = run.release
         /\ report'.codex = run.codex /\ report'.accepted = run.accepted
         /\ report'.outcome = outcome /\ report'.suggestion = suggestion
  BY DEF Tells

\* A command that is cut short with the disk as it was.
LEMMA CutShort ==
  ASSUME LifecycleInv, run.cmd # "none", run' = Idle, NEW outcome \in {"failed", "killed"},
         NEW suggestion \in AllSuggestions, Tells(outcome, suggestion),
         disk' = disk, world' = world, descriptors' \subseteq Launchers,
         ServiceTyped', OneCodex', InOrder',
         run.cmd \in Stopping /\ suggestion \in {"disable", "terminal"} => StopsAreReal'
  PROVE  LifecycleInv'
  <1>1. DiskTyped'
    BY DEF LifecycleInv, Typed, DiskTyped
  <1>2. Evidence' = Evidence
    BY DEF Evidence
  <1>3. LeavesResumable'
    BY <1>2, ToldOf DEF LifecycleInv, LeavesResumable, Resumes
  <1>4. QED
    BY <1>1, <1>3, EndsShort

-----------------------------------------------------------------------------
(* The surroundings.                                                       *)

LEMMA OnlyTheService ==
  ASSUME LifecycleInv, UNCHANGED <<disk, descriptors, world, run, report>>,
         ServiceTyped', OneCodex', InOrder', UpdateProgress', StopProgress',
         StopsAreReal'
  PROVE  LifecycleInv'
  <1>1. Typed'
    BY DEF LifecycleInv, Typed, DiskTyped, WorldTyped, RunTyped
  <1>2. Resumes(run.cmd, run.release, run.codex, run.accepted)' /\ Reported'
    BY DEF LifecycleInv, Resumes, Reported, Evidence
  <1>3. Written' /\ SetupProgress'
    BY DEF LifecycleInv, Written, SetupProgress, StatusCodex
  <1>4. QED
    BY <1>1, <1>2, <1>3 DEF LifecycleInv

LEMMA OnlyTheWorld ==
  ASSUME LifecycleInv, UNCHANGED <<disk, descriptors, service, run, report>>, WorldTyped'
  PROVE  LifecycleInv'
  <1>1. Typed'
    BY DEF LifecycleInv, Typed, DiskTyped, ServiceTyped, RunTyped
  <1>2. Resumes(run.cmd, run.release, run.codex, run.accepted)' /\ Reported'
    BY DEF LifecycleInv, Resumes, Reported, Evidence
  <1>3. Written' /\ SetupProgress' /\ OneCodex' /\ InOrder'
    BY DEF LifecycleInv, Written, SetupProgress, OneCodex, InOrder, StatusCodex, Evidence
  <1>4. UpdateProgress' /\ StopProgress' /\ StopsAreReal'
    BY
    DEF LifecycleInv, UpdateProgress, StopProgress, StopsAreReal, UninstallLeavesNothing,
        DisableIsTrue, Evidence
  <1>5. QED
    BY <1>1, <1>2, <1>3, <1>4 DEF LifecycleInv

\* Without any executable named, nothing is loaded or runs.
LEMMA NothingNamed ==
  ASSUME LifecycleInv, StatusCodex = None
  PROVE  /\ disk.config = None /\ disk.manifest = None /\ disk.unit = None
         /\ service.loaded = None /\ service.activity = "inactive" /\ ~ service.socket
         /\ ~ service.enabled
  <1>1. disk.config = None /\ disk.manifest = None
    <2>1. disk.manifest # None => disk.manifest.codex # None
      BY InstallationAssumption DEF LifecycleInv, Typed, DiskTyped, Manifests
    <2>2. QED
      BY <2>1 DEF StatusCodex
  <1>2. Evidence # "contradictory"
    BY <1>1, EvidenceIs
  <1>3. QED
    BY <1>1, <1>2 DEF LifecycleInv, OneCodex, InOrder, Typed, ServiceTyped

LEMMA SurroundingsKeep ==
  ASSUME LifecycleInv, Surroundings
  PROVE  LifecycleInv'
  <1>1. CASE ServiceFails
    <2>1. PICK socket \in BOOLEAN : service' = Failed(service, socket)
      BY <1>1 DEF ServiceFails
    <2>2. /\ service.activity = "active" /\ service'.activity = "unproven"
          /\ service'.process = NoProcess
          /\ service'.loaded = service.loaded /\ service'.enabled = service.enabled
          /\ UNCHANGED <<disk, descriptors, world, run, report>>
      BY <1>1, <2>1 DEF ServiceFails, Failed, LifecycleInv, Typed, ServiceTyped
    <2>3. ServiceTyped'
      <3>1. NoProcess \in [codex : Codexes \union {None}, version : Nat]
            /\ NoProcess.codex \notin Codexes
        BY InstallationAssumption DEF NoProcess
      <3>2. QED
        BY <2>1, <2>2, <3>1 DEF LifecycleInv, Typed, ServiceTyped, Failed
    <2>4. StatusCodex # None
      BY <2>2, NothingNamed
    <2>5. StatusCodex' = StatusCodex /\ Evidence' = Evidence
      BY <2>2 DEF StatusCodex, Evidence
    <2>6. OneCodex' /\ InOrder'
      BY <2>2, <2>4, <2>5 DEF LifecycleInv, OneCodex, InOrder
    <2>7. UpdateProgress' /\ StopProgress' /\ StopsAreReal'
      BY <2>2, <2>5
      DEF LifecycleInv, UpdateProgress, StopProgress, StopsAreReal, UninstallLeavesNothing,
          DisableIsTrue
    <2>8. QED
      BY <2>2, <2>3, <2>6, <2>7, OnlyTheService
  <1>2. CASE ServiceRestarts
    <2>1. /\ service.activity = "unproven" /\ service'.activity = "active"
          /\ service.loaded # None /\ service.loaded \in Codexes
          /\ service'.process.codex = service.loaded
          /\ service'.loaded = service.loaded /\ service'.enabled = service.enabled
          /\ UNCHANGED <<disk, descriptors, world, run, report>>
      BY <1>2 DEF ServiceRestarts, LifecycleInv, Typed, ServiceTyped
    <2>2. ServiceTyped'
      BY <1>2, <2>1 DEF ServiceRestarts, LifecycleInv, Typed, ServiceTyped, WorldTyped
    <2>3. StatusCodex # None
      BY <2>1, NothingNamed
    <2>4. StatusCodex' = StatusCodex /\ Evidence' = Evidence
      BY <2>1 DEF StatusCodex, Evidence
    <2>5. OneCodex' /\ InOrder'
      BY <2>1, <2>3, <2>4 DEF LifecycleInv, OneCodex, InOrder
    <2>6. UpdateProgress' /\ StopProgress' /\ StopsAreReal'
      BY <2>1, <2>4, UpdateStagesAre
      DEF LifecycleInv, UpdateProgress, StopProgress, StopsAreReal, UninstallLeavesNothing,
          DisableIsTrue
    <2>7. QED
      BY <2>1, <2>2, <2>5, <2>6, OnlyTheService
  <1>3. CASE UserStops
    <2>1. /\ run = Idle /\ service'.activity = "inactive" /\ ~ service'.socket
          /\ service'.process = NoProcess
          /\ service'.loaded = service.loaded /\ service'.enabled = service.enabled
          /\ UNCHANGED <<disk, descriptors, world, run, report>>
      BY <1>3 DEF UserStops, Stopped, LifecycleInv, Typed, ServiceTyped
    <2>2. ServiceTyped'
      <3>1. NoProcess \in [codex : Codexes \union {None}, version : Nat]
            /\ NoProcess.codex \notin Codexes
        BY InstallationAssumption DEF NoProcess
      <3>2. QED
        BY <1>3, <2>1, <3>1 DEF UserStops, Stopped, LifecycleInv, Typed, ServiceTyped
    <2>3. StatusCodex' = StatusCodex /\ Evidence' = Evidence
      BY <2>1 DEF StatusCodex, Evidence
    <2>4. OneCodex' /\ InOrder'
      BY <2>1, <2>3 DEF LifecycleInv, OneCodex, InOrder
    <2>5. UpdateProgress' /\ StopProgress' /\ StopsAreReal'
      BY <2>1, <2>3
      DEF LifecycleInv, UpdateProgress, StopProgress, StopsAreReal, UninstallLeavesNothing,
          DisableIsTrue, Idle, Stopping
    <2>6. QED
      BY <2>1, <2>2, <2>4, <2>5, OnlyTheService
  <1>4. CASE PathChanges
    <2>1. WorldTyped'
      BY <1>4 DEF PathChanges, LifecycleInv, Typed, WorldTyped
    <2>2. QED
      BY <1>4, <2>1, OnlyTheWorld DEF PathChanges
  <1>5. CASE CodexUpgrades
    <2>1. WorldTyped'
      BY <1>5 DEF CodexUpgrades, LifecycleInv, Typed, WorldTyped
    <2>2. QED
      BY <1>5, <2>1, OnlyTheWorld DEF CodexUpgrades
  <1>6. QED
    BY <1>1, <1>2, <1>3, <1>4, <1>5 DEF Surroundings

-----------------------------------------------------------------------------
(* Commands begin.                                                         *)

LEMMA BeginKeeps ==
  ASSUME LifecycleInv, NEW r, Begin(r), r.cmd \in Commands,
         r \in [cmd : Commands, at : {1}, release : Releases,
                codex : Codexes \union {None}, version : Nat,
                target : Launchers \union {None}, previous : Launchers \union {None},
                changed : BOOLEAN, enabled : BOOLEAN, active : BOOLEAN, restart : BOOLEAN,
                accepted : BOOLEAN],
         r.cmd \in {"setup", "update"} => r.codex \in Codexes,
         r.cmd \in {"setup", "enable", "update"} => Accepts(r.cmd, r.release),
         r.cmd = "setup" => r.codex = SetupCodex,
         r.cmd = "update" =>
           /\ r.active => r.enabled
           /\ ~ r.active => service.activity = "inactive"
           /\ r.active /\ ~ r.restart => r.codex = disk.manifest.codex
  PROVE  LifecycleInv'
  <1>1. /\ UNCHANGED <<disk, descriptors, service, world>>
        /\ run' = [r EXCEPT !.accepted = Accepts(r.cmd, r.release)]
        /\ report'.outcome = "running" /\ report'.suggestion = "none"
    BY DEF Begin
  <1>2. /\ run'.cmd = r.cmd /\ run'.at = 1 /\ run'.release = r.release /\ run'.codex = r.codex
        /\ run'.enabled = r.enabled /\ run'.active = r.active /\ run'.restart = r.restart
        /\ run'.accepted = Accepts(r.cmd, r.release)
    BY <1>1
  <1>3. RunTyped'
    <2>1. Accepts(r.cmd, r.release) \in BOOLEAN
      BY DEF Accepts
    <2>2. run' \in [cmd : Commands \union {"none"}, at : Nat, release : Releases,
                    codex : Codexes \union {None}, version : Nat,
                    target : Launchers \union {None}, previous : Launchers \union {None},
                    changed : BOOLEAN, enabled : BOOLEAN, active : BOOLEAN,
                    restart : BOOLEAN, accepted : BOOLEAN]
      BY <1>1, <2>1
    <2>3. 1 \in 1 .. Len(Stages(r.cmd))
      <3>1. /\ Len(Stages("setup")) = 12 /\ Len(Stages("update")) = 11
            /\ Len(Stages("enable")) = 3 /\ Len(Stages("disable")) = 3
            /\ Len(Stages("uninstall")) = 10
        BY DEF Stages, SetupStages, UpdateStages, EnableStages, DisableStages, UninstallStages
      <3>2. Len(Stages(r.cmd)) \in {3, 10, 11, 12}
        BY <3>1 DEF Commands
      <3>3. \A l \in {3, 10, 11, 12} : 1 \in 1 .. l
        BY UpToNat
      <3>4. QED
        BY <3>2, <3>3
    <2>4. QED
      BY <1>1, <1>2, <2>2, <2>3 DEF RunTyped, Commands, AllSuggestions
  <1>4. Evidence' = Evidence /\ StatusCodex' = StatusCodex
    BY <1>1 DEF Evidence, StatusCodex
  <1>5. Resumes(run.cmd, run.release, run.codex, run.accepted)'
    BY <1>1, <1>2, <1>4, EvidenceIs
    DEF Resumes, Accepts, Permits, SetupMatches, Permitted
  <1>6. Written' /\ StopProgress'
    BY <1>2 DEF Written, StopProgress, Stopping
  <1>7. SetupProgress'
    BY <1>2, <1>4 DEF SetupProgress, SetupCodex, StatusCodex
  <1>8. UpdateProgress'
    BY <1>1, <1>2, <1>4 DEF UpdateProgress, Accepts, Permits, Permitted
  <1>9. OneCodex' /\ InOrder'
    BY <1>1, <1>4 DEF LifecycleInv, OneCodex, InOrder
  <1>10. Reported' /\ StopsAreReal'
    BY <1>1 DEF Reported, StopsAreReal, UninstallLeavesNothing, DisableIsTrue
  <1>11. DiskTyped' /\ ServiceTyped' /\ WorldTyped'
    BY <1>1 DEF LifecycleInv, Typed, DiskTyped, ServiceTyped, WorldTyped
  <1>12. QED
    BY <1>3, <1>5, <1>6, <1>7, <1>8, <1>9, <1>10, <1>11 DEF LifecycleInv, Typed

-----------------------------------------------------------------------------
(* What the status report means.                                           *)

\* A report without problems.
LEMMA NoProblems ==
  ASSUME NEW program, NEW missed, Problems(program, missed) = {}
  PROVE  /\ ~ InstalledFault(program)
         /\ Projection # "fault" /\ NativeRegistration(missed) # "fault"
         /\ disk.manifest # None =>
              Projection # "could_not_verify" /\ "plugins" \notin missed
         /\ StatusCodex # None => "version" \notin missed
         /\ Enabled(missed) # "unknown" /\ Active(missed) # "unknown"
         /\ ~ (Enabled(missed) = "no" /\ Active(missed) = "yes")
         /\ ~ (Enabled(missed) = "yes" /\ Active(missed) = "no")
         /\ Enabled(missed) = "yes" => service.socket
         /\ Enabled(missed) = "no" /\ Active(missed) = "no" => ~ service.socket
         /\ AppServerHealth(missed) # "unhealthy"
         /\ Active(missed) = "yes" /\ service.socket => StatusCodex # None
         /\ Attached =>
              /\ Descriptor(missed) # "unverified"
              /\ Enabled(missed) = "yes" /\ Active(missed) = "yes" =>
                   Descriptor(missed) # "not_ready"
  <1>1. /\ ServiceProblems(missed) = {} /\ AppServerProblems(missed) = {}
        /\ DesktopProblems(missed) = {}
    BY DEF Problems
  <1>2. \A problem \in {"installed_state_not_verified", "projection_fault",
                        "projection_not_verified", "native_fault", "native_not_verified"} :
          ~ CASE problem = "installed_state_not_verified" -> InstalledFault(program)
              [] problem = "projection_fault" -> Projection = "fault"
              [] problem = "projection_not_verified" ->
                   disk.manifest # None /\ Projection = "could_not_verify"
              [] problem = "native_fault" -> NativeRegistration(missed) = "fault"
              [] problem = "native_not_verified" ->
                   \/ StatusCodex # None /\ "version" \in missed
                   \/ disk.manifest # None /\ "plugins" \in missed
    BY DEF Problems
  <1>3. /\ ~ InstalledFault(program)
        /\ Projection # "fault" /\ NativeRegistration(missed) # "fault"
        /\ disk.manifest # None => Projection # "could_not_verify" /\ "plugins" \notin missed
        /\ StatusCodex # None => "version" \notin missed
    BY <1>2
  <1>4. /\ Enabled(missed) # "unknown" /\ Active(missed) # "unknown"
        /\ ~ (Enabled(missed) = "no" /\ Active(missed) = "yes")
        /\ ~ (Enabled(missed) = "yes" /\ Active(missed) = "no")
        /\ Enabled(missed) = "yes" => service.socket
        /\ Enabled(missed) = "no" /\ Active(missed) = "no" => ~ service.socket
    BY <1>1 DEF ServiceProblems
  <1>5. /\ AppServerHealth(missed) # "unhealthy"
        /\ Active(missed) = "yes" /\ service.socket => StatusCodex # None
    BY <1>1 DEF AppServerProblems
  <1>6. Attached =>
          /\ Descriptor(missed) # "unverified"
          /\ Enabled(missed) = "yes" /\ Active(missed) = "yes" =>
               Descriptor(missed) # "not_ready"
    BY <1>1 DEF DesktopProblems
  <1>7. QED
    BY <1>3, <1>4, <1>5, <1>6

\* The evidence when the installed state is verified.
LEMMA NoInstalledFault ==
  ASSUME NEW program, ~ InstalledFault(program), Evidence # "first_install"
  PROVE  /\ disk.manifest # None /\ disk.config = disk.manifest.codex
         /\ disk.config # None /\ disk.unit = disk.manifest.codex
         /\ disk.artifacts["binary"] = disk.manifest.release
         /\ disk.manifest.release = program
         /\ Evidence = "coherent" /\ StatusCodex = disk.manifest.codex
  BY DEF InstalledFault, Evidence, StatusCodex

LEMMA HealthyFacts ==
  ASSUME NEW program, NEW missed, StatusState(program, missed) = "healthy"
  PROVE  /\ Problems(program, missed) = {} /\ Evidence # "first_install"
         /\ ~ Disabled(missed) /\ CliIntegration(missed) = "ready"
  BY DEF StatusState

-----------------------------------------------------------------------------
(* Commands that begin and commands that end at once.                      *)

LEMMA EndsAtOnceKeeps ==
  ASSUME LifecycleInv, NEW cmd, NEW release, NEW outcome \in {"rejected", "current"},
         NEW suggestion \in AllSuggestions, EndsAtOnce(cmd, release, outcome, suggestion),
         outcome = "current" =>
           /\ disk.manifest # None
           /\ disk.config = disk.manifest.codex /\ disk.unit = disk.manifest.codex
  PROVE  LifecycleInv'
  <1>1. /\ run = Idle /\ run' = Idle /\ UNCHANGED <<disk, descriptors, service, world>>
        /\ report'.outcome = outcome /\ report'.suggestion = suggestion
    BY DEF EndsAtOnce
  <1>2. DiskTyped' /\ ServiceTyped' /\ WorldTyped'
    BY <1>1 DEF LifecycleInv, Typed, DiskTyped, ServiceTyped, WorldTyped
  <1>3. OneCodex' /\ InOrder'
    BY <1>1 DEF LifecycleInv, OneCodex, InOrder, Evidence, StatusCodex
  <1>4. Reported' /\ StopsAreReal'
    BY <1>1 DEF Reported, StopsAreReal, UninstallLeavesNothing, DisableIsTrue, Idle
  <1>5. QED
    BY <1>1, <1>2, <1>3, <1>4, IdleAgain

\* An installed manifest names an executable, a release and perhaps a launcher.
LEMMA ManifestFields ==
  ASSUME LifecycleInv, disk.manifest # None
  PROVE  /\ disk.manifest.codex \in Codexes /\ disk.manifest.codex # None
         /\ disk.manifest.release \in Releases
         /\ disk.manifest.launcher \in Launchers \union {None}
  BY InstallationAssumption DEF LifecycleInv, Typed, DiskTyped, Manifests

LEMMA BeginsKeep ==
  ASSUME LifecycleInv, Begins
  PROVE  LifecycleInv'
  <1> USE DEF AllSuggestions, Commands
  <1>1. ASSUME NEW release \in Releases, BeginSetup(release) PROVE LifecycleInv'
    <2>1. PICK target \in Launchers \union {None} :
            Begin([Idle EXCEPT !.cmd = "setup", !.release = release, !.codex = SetupCodex,
                               !.version = world.version[SetupCodex], !.target = target,
                               !.previous = PreviousLauncher])
      BY <1>1 DEF BeginSetup
    <2>2. SetupCodex \in Codexes
      BY ManifestFields DEF SetupCodex, LifecycleInv, Typed, DiskTyped, WorldTyped
    <2>3. PreviousLauncher \in Launchers \union {None}
      BY ManifestFields DEF PreviousLauncher
    <2>4. world.version[SetupCodex] \in Nat
      BY <2>2 DEF LifecycleInv, Typed, WorldTyped
    <2>5. Accepts("setup", release)
      BY <1>1 DEF BeginSetup
    <2>6. QED
      BY <2>1, <2>2, <2>3, <2>4, <2>5, BeginKeeps DEF Idle
  <1>2. ASSUME NEW release \in Releases, BeginUpdate(release) PROVE LifecycleInv'
    <2> DEFINE active == service.activity = "active"
               r == [Idle EXCEPT !.cmd = "update", !.release = release, !.codex = world.path,
                                 !.version = world.version[world.path],
                                 !.previous = disk.manifest.launcher,
                                 !.enabled = service.enabled, !.active = active,
                                 !.restart = active /\ RestartNeeded(world.path)]
    <2>1. Accepts("update", release) /\ Snapshot /\ Begin(r)
      BY <1>2 DEF BeginUpdate
    <2>2. disk.manifest # None
      BY <2>1, EvidenceIs DEF Accepts, Permits
    <2>3. /\ world.path \in Codexes /\ world.version[world.path] \in Nat
          /\ service.enabled \in BOOLEAN
      BY DEF LifecycleInv, Typed, WorldTyped, ServiceTyped
    <2>4. RestartNeeded(world.path) \in BOOLEAN
      BY DEF RestartNeeded
    <2>5. ~ RestartNeeded(world.path) => world.path = disk.manifest.codex
      BY DEF RestartNeeded
    <2>6. /\ active => service.enabled
          /\ ~ active => service.activity = "inactive"
      BY <2>1 DEF Snapshot, Enablement
    <2>7. QED
      BY <2>1, <2>2, <2>3, <2>4, <2>5, <2>6, ManifestFields, BeginKeeps DEF Idle
  <1>3. CASE BeginEnable
    <2>1. PICK target \in {None, disk.manifest.launcher} :
            Begin([Idle EXCEPT !.cmd = "enable", !.codex = disk.config,
                               !.version = world.version[disk.config], !.target = target])
      BY <1>3 DEF BeginEnable
    <2>2. Accepts("enable", 1)
      BY <1>3 DEF BeginEnable
    <2>3. disk.manifest # None /\ disk.config \in Codexes
      BY <2>2, EvidenceIs DEF Accepts, Permits, LifecycleInv, Typed, DiskTyped
    <2>4. world.version[disk.config] \in Nat
      BY <2>3 DEF LifecycleInv, Typed, WorldTyped
    <2>5. 1 \in Releases
      BY InstallationAssumption DEF Releases
    <2>6. QED
      BY <2>1, <2>2, <2>3, <2>4, <2>5, ManifestFields, BeginKeeps DEF Idle
  <1>4. ASSUME NEW cmd \in {"disable", "uninstall"}, BeginStop(cmd) PROVE LifecycleInv'
    <2>1. 1 \in Releases
      BY InstallationAssumption DEF Releases
    <2>2. Begin([Idle EXCEPT !.cmd = cmd])
      BY <1>4 DEF BeginStop
    <2>3. QED
      BY <2>1, <2>2, BeginKeeps DEF Idle
  <1>5. ASSUME NEW cmd, NEW release, NEW suggestion \in AllSuggestions,
               Rejects(cmd, release, suggestion)
        PROVE LifecycleInv'
    BY <1>5, EndsAtOnceKeeps DEF Rejects
  <1>6. ASSUME NEW release \in Releases,
               \/ SetupRejected(release) \/ UpdateRejected(release) \/ EnableRejected
               \/ \E cmd \in {"disable", "uninstall"} : StopRejected(cmd)
        PROVE LifecycleInv'
    BY <1>5, <1>6
    DEF SetupRejected, SetupAdvice, UpdateRejected, EnableRejected, StopRejected, StopThen
  <1>7. ASSUME NEW release \in Releases, UpdateIsCurrent(release) PROVE LifecycleInv'
    <2>1. StatusState(release, {}) = "healthy" /\ EndsAtOnce("update", release, "current", "none")
      BY <1>7 DEF UpdateIsCurrent
    <2>2. /\ disk.manifest # None
          /\ disk.config = disk.manifest.codex /\ disk.unit = disk.manifest.codex
      BY <2>1, HealthyFacts, NoProblems, NoInstalledFault
    <2>3. QED
      BY <2>1, <2>2, EndsAtOnceKeeps
  <1>8. \E release : release \in Releases
    BY InstallationAssumption DEF Releases
  <1>9. QED
    BY <1>1, <1>2, <1>3, <1>4, <1>6, <1>7, <1>8 DEF Begins

-----------------------------------------------------------------------------
(* Commands that are cut short.                                            *)

LEMMA SuggestionsAre ==
  ASSUME NEW cmd \in Commands, NEW stage, NEW suggestion \in Suggestions(cmd, stage)
  PROVE  /\ suggestion \in AllSuggestions
         /\ suggestion = "disable" => cmd = "disable"
         /\ suggestion = "terminal" => cmd = "uninstall" /\ stage = "binary_remove"
  BY DEF Suggestions, AllSuggestions, Commands, StopThen

\* Where the suggestion says that the service is stopped or the product gone.
Final == run.cmd = "disable" \/ At("uninstall", "binary_remove")

LEMMA FaultTells ==
  ASSUME StageFault
  PROVE  /\ run' = Idle /\ world' = world
         /\ report'.cmd = run.cmd /\ report'.release = run.release
         /\ report'.codex = run.codex /\ report'.accepted = run.accepted
         /\ report'.outcome = "failed"
  BY ToldOf DEF StageFault, Fails

\* A stage that fails, with whatever it has changed by then.
LEMMA FaultKeeps ==
  ASSUME LifecycleInv, run.cmd # "none", StageFault,
         DiskTyped', ServiceTyped', OneCodex', InOrder', LeavesResumable',
         Final => StopsAreReal'
  PROVE  LifecycleInv'
  <1>1. run.cmd \in Commands
    BY DEF LifecycleInv, Typed, RunTyped
  <1>2. PICK suggestion \in Suggestions(run.cmd, Stage) : Fails(suggestion)
    BY DEF StageFault
  <1>3. suggestion \in AllSuggestions
    BY <1>1, SuggestionsAre
  <1>4. suggestion \in {"disable", "terminal"} => Final
    BY <1>1, SuggestionsAre DEF Final, At
  <1>5. QED
    BY <1>2, <1>3, <1>4, EndsShort DEF Fails

\* The service as it was, perhaps no longer enabled.
LEMMA ServiceStays ==
  ASSUME LifecycleInv, disk' = disk, service' \in {service, [service EXCEPT !.enabled = FALSE]}
  PROVE  ServiceTyped' /\ OneCodex' /\ InOrder'
  <1>1. /\ service'.activity = service.activity /\ service'.socket = service.socket
        /\ service'.loaded = service.loaded /\ service'.process = service.process
        /\ service'.enabled => service.enabled
        /\ ServiceTyped'
    BY DEF LifecycleInv, Typed, ServiceTyped
  <1>2. Evidence' = Evidence /\ StatusCodex' = StatusCodex
    BY DEF Evidence, StatusCodex
  <1>3. QED
    BY <1>1, <1>2 DEF LifecycleInv, OneCodex, InOrder

\* The executable that the stages after the unit's use.
LEMMA UnitWritten ==
  ASSUME LifecycleInv, At("setup", "enable") \/ At("enable", "enable")
  PROVE  /\ disk.unit \in Codexes /\ disk.unit # None
         /\ Evidence # "contradictory" /\ disk.unit = StatusCodex
  <1>1. CASE At("setup", "enable")
    <2>1. run.cmd = "setup" /\ run.at = 10 /\ run.codex \in Codexes
      BY <1>1, SetupStagesAre DEF At, LifecycleInv, Typed, RunTyped
    <2>2. /\ disk.unit = run.codex /\ disk.config = run.codex
          /\ Evidence # "contradictory"
      BY <2>1 DEF LifecycleInv, SetupProgress, Written, Resumes
    <2>3. run.codex # None
      BY <2>1, InstallationAssumption
    <2>4. QED
      BY <2>1, <2>2, <2>3 DEF StatusCodex
  <1>2. CASE At("enable", "enable")
    <2>1. Evidence = "coherent" /\ disk.unit = disk.config
      BY <1>2 DEF At, LifecycleInv, Resumes
    <2>2. QED
      BY <2>1, EvidenceIs DEF StatusCodex, LifecycleInv, Typed, DiskTyped
  <1>3. QED
    BY <1>1, <1>2

LEMMA StartFailureLeaves ==
  ASSUME LifecycleInv, At("setup", "enable") \/ At("enable", "enable"), disk' = disk,
         service' \in EnableOutcomes
  PROVE  ServiceTyped' /\ OneCodex' /\ InOrder'
  <1>1. /\ disk.unit \in Codexes /\ disk.unit # None
        /\ Evidence # "contradictory" /\ disk.unit = StatusCodex
    BY UnitWritten
  <1>2. Evidence' = Evidence /\ StatusCodex' = StatusCodex
    BY DEF Evidence, StatusCodex
  <1>3. CASE service' \in {service, [service EXCEPT !.enabled = TRUE]}
    <2>1. /\ service'.activity = service.activity /\ service'.socket = service.socket
          /\ service'.loaded = service.loaded /\ service'.process = service.process
          /\ ServiceTyped'
      BY <1>3 DEF LifecycleInv, Typed, ServiceTyped
    <2>2. QED
      BY <1>1, <1>2, <2>1 DEF LifecycleInv, OneCodex, InOrder
  <1>4. ASSUME NEW socket \in BOOLEAN,
               service' = Failed([service EXCEPT !.enabled = TRUE, !.loaded = disk.unit], socket)
        PROVE ServiceTyped' /\ OneCodex' /\ InOrder'
    <2>1. NoProcess \in [codex : Codexes \union {None}, version : Nat]
          /\ NoProcess.codex \notin Codexes
      BY InstallationAssumption DEF NoProcess
    <2>2. /\ service'.activity = "unproven" /\ service'.loaded = disk.unit
          /\ ServiceTyped'
      BY <1>1, <1>4, <2>1 DEF Failed, LifecycleInv, Typed, ServiceTyped
    <2>3. QED
      BY <1>1, <1>2, <2>2 DEF LifecycleInv, OneCodex, InOrder
  <1>5. QED
    BY <1>3, <1>4 DEF EnableOutcomes

\* setup and enable withdraw at most the descriptor of the launcher they published for.
LEMMA WithdrawsOnly ==
  ASSUME LifecycleInv, NEW s, NEW suggestion, FailsAfterDescriptor(s, suggestion)
  PROVE  descriptors' \subseteq Launchers
  BY DEF FailsAfterDescriptor, LifecycleInv, Typed, DiskTyped

LEMMA AfterDescriptor ==
  ASSUME LifecycleInv, run.cmd \in {"setup", "enable"},
         NEW s, NEW suggestion \in AllSuggestions, FailsAfterDescriptor(s, suggestion),
         DiskTyped', ServiceTyped', OneCodex', InOrder', LeavesResumable'
  PROVE  LifecycleInv'
  <1>1. \E told \in AllSuggestions : Fails(told)
    BY DEF FailsAfterDescriptor, AllSuggestions
  <1>2. QED
    BY <1>1, EndsShort DEF Fails, Stopping

\* The same with the disk as it was.
LEMMA AfterDescriptorOnly ==
  ASSUME LifecycleInv, run.cmd \in {"setup", "enable"}, disk' = disk,
         NEW s, NEW suggestion \in AllSuggestions, FailsAfterDescriptor(s, suggestion),
         ServiceTyped', OneCodex', InOrder'
  PROVE  LifecycleInv'
  <1>1. DiskTyped'
    BY WithdrawsOnly DEF LifecycleInv, Typed, DiskTyped
  <1>2. Evidence' = Evidence
    BY DEF Evidence
  <1>3. LeavesResumable'
    <2>1. \E told : Tells("failed", told)
      BY DEF FailsAfterDescriptor, Fails
    <2>2. QED
      BY <1>2, <2>1, ToldOf DEF LifecycleInv, LeavesResumable, Resumes
  <1>4. QED
    BY <1>1, <1>3, AfterDescriptor

\* systemd reads the unit file.
LEMMA ReloadLeaves ==
  ASSUME LifecycleInv, At("setup", "reload") \/ At("update", "reload"), disk' = disk,
         service' \in {service, Reloaded}
  PROVE  ServiceTyped' /\ OneCodex' /\ InOrder'
  <1>1. CASE service' = service
    BY <1>1, ServiceStays
  <1>2. CASE service' = Reloaded
    <2>1. run.cmd \in {"setup", "update"} /\ Stage = "reload" /\ Typed
      BY DEF At, LifecycleInv
    <2>2. run.at = IF run.cmd = "setup" THEN 9 ELSE 8
      BY <2>1, SetupStagesAre, UpdateStagesAre
    <2>3. disk.unit = run.codex /\ run.codex \in Codexes /\ run.codex # None
      BY <2>1, <2>2, InstallationAssumption
      DEF LifecycleInv, SetupProgress, UpdateProgress, RunTyped, Typed
    <2>4. /\ service'.enabled = service.enabled /\ service'.activity = service.activity
          /\ service'.socket = service.socket /\ service'.process = service.process
          /\ service'.loaded = disk.unit
          /\ ServiceTyped'
      BY <1>2, <2>3 DEF Reloaded, LifecycleInv, Typed, ServiceTyped
    <2>5. Evidence' = Evidence /\ StatusCodex' = StatusCodex
      BY DEF Evidence, StatusCodex
    <2>6. QED
      BY <2>3, <2>4, <2>5 DEF LifecycleInv, OneCodex, InOrder
  <1>3. QED
    BY <1>1, <1>2

LEMMA StartFailsKeeps ==
  ASSUME LifecycleInv, StartFails
  PROVE  LifecycleInv'
  <1>1. run.cmd \in {"setup", "enable"} /\ disk' = disk
    BY DEF StartFails, At
  <1>2. PICK suggestion \in AllSuggestions : FailsAfterDescriptor(service', suggestion)
    BY <1>1, SuggestionsAre DEF StartFails, FaultAfterDescriptor, Commands
  <1>3. ServiceTyped' /\ OneCodex' /\ InOrder'
    <2>1. CASE Stage = "enable"
      <3>1. At("setup", "enable") \/ At("enable", "enable")
        BY <1>1, <2>1 DEF At
      <3>2. service' \in EnableOutcomes
        BY <2>1 DEF StartFails
      <3>3. QED
        BY <1>1, <3>1, <3>2, StartFailureLeaves
    <2>2. CASE Stage = "reload"
      <3>1. At("setup", "reload")
        BY <2>2 DEF StartFails, At
      <3>2. service' \in {service, Reloaded}
        BY <2>2 DEF StartFails
      <3>3. QED
        BY <1>1, <3>1, <3>2, ReloadLeaves
    <2>3. CASE Stage \notin {"enable", "reload"}
      BY <1>1, <2>3, ServiceStays DEF StartFails
    <2>4. QED
      BY <2>1, <2>2, <2>3
  <1>4. QED
    BY <1>1, <1>2, <1>3, AfterDescriptorOnly

LEMMA VerifyFailsKeeps ==
  ASSUME LifecycleInv, VerifyFails
  PROVE  LifecycleInv'
  <1>1. run.cmd \in Commands /\ UNCHANGED <<disk, service>>
    BY DEF VerifyFails, AtAny, At, Commands
  <1>2. ServiceTyped' /\ OneCodex' /\ InOrder'
    BY <1>1, ServiceStays
  <1>3. PICK suggestion \in Suggestions(run.cmd, Stage) :
          IF run.cmd \in {"setup", "enable"}
          THEN FailsAfterDescriptor(service, suggestion)
          ELSE Fails(suggestion) /\ UNCHANGED descriptors
    BY <1>1 DEF VerifyFails
  <1>4. suggestion \in AllSuggestions
    BY <1>1, SuggestionsAre
  <1>5. CASE run.cmd \in {"setup", "enable"}
    BY <1>1, <1>2, <1>3, <1>4, <1>5, AfterDescriptorOnly
  <1>6. CASE run.cmd \notin {"setup", "enable"}
    <2>1. descriptors' \subseteq Launchers /\ run.cmd # "none"
      BY <1>1, <1>3, <1>6 DEF LifecycleInv, Typed, DiskTyped, Commands
    <2>2. run.cmd \in Stopping => suggestion \notin {"disable", "terminal"}
      BY <1>1 DEF VerifyFails, AtAny, At, Suggestions, StopThen, Stopping
    <2>3. QED
      BY <1>1, <1>2, <1>3, <1>4, <1>6, <2>1, <2>2, CutShort DEF Fails
  <1>7. QED
    BY <1>5, <1>6

\* What the stops have behind them once the service is proven stopped.
LEMMA ServiceIsStopped ==
  ASSUME LifecycleInv, run.cmd \in Stopping, run.at > 2
  PROVE  ~ service.enabled /\ service.activity = "inactive" /\ ~ service.socket
  BY DEF LifecycleInv, StopProgress, Stopping

LEMMA DisableIsProvenAt ==
  ASSUME LifecycleInv, run.cmd = "disable", run.at > 2, service' = service,
         report'.cmd = run.cmd
  PROVE  StopsAreReal'
  BY ServiceIsStopped DEF StopsAreReal, UninstallLeavesNothing, DisableIsTrue, Stopping

\* Any other stage that fails leaves everything as it was.
LEMMA StageFailsKeeps ==
  ASSUME LifecycleInv, StageFails
  PROVE  LifecycleInv'
  <1>1. /\ StageFault /\ UNCHANGED <<disk, descriptors, service>>
        /\ run.cmd # "none" /\ Typed
        /\ Stage \notin {"disable", "verify_disabled"}
    BY DEF StageFails, LifecycleInv, Typed, RunTyped
  <1>2. DiskTyped' /\ ServiceTyped' /\ OneCodex' /\ InOrder'
    BY <1>1, ServiceStays DEF DiskTyped, Typed
  <1>3. LeavesResumable'
    <2>1. Evidence' = Evidence
      BY <1>1 DEF Evidence
    <2>2. QED
      BY <1>1, <2>1, FaultTells DEF LifecycleInv, LeavesResumable, Resumes
  <1>4. Final => StopsAreReal'
    <2>1. CASE run.cmd = "disable"
      <3>1. run.at = 3
        BY <1>1, <2>1, DisableStagesAre
      <3>2. QED
        BY <1>1, <2>1, <3>1, FaultTells, DisableIsProvenAt
    <2>2. CASE At("uninstall", "binary_remove")
      <3>1. run.cmd = "uninstall" /\ run.at = 10
        BY <1>1, <2>2, UninstallStagesAre DEF At
      <3>2. /\ disk.config = None /\ disk.unit = None /\ disk.manifest = None
            /\ disk.artifacts["plugin"] = 0 /\ disk.artifacts["marketplace"] = 0
            /\ disk.artifacts["projection"] = 0
        BY <3>1 DEF LifecycleInv, StopProgress
      <3>3. ~ service.enabled /\ service.activity = "inactive" /\ ~ service.socket
        BY <3>1, ServiceIsStopped DEF Stopping
      <3>4. QED
        BY <1>1, <3>1, <3>2, <3>3, FaultTells
        DEF StopsAreReal, UninstallLeavesNothing, DisableIsTrue, Artifacts
    <2>3. QED
      BY <2>1, <2>2 DEF Final
  <1>5. QED
    BY <1>1, <1>2, <1>3, <1>4, FaultKeeps

LEMMA NoDescriptorIdentityKeeps ==
  ASSUME LifecycleInv, NoDescriptorIdentity
  PROVE  LifecycleInv'
  <1>1. /\ run.cmd \in Stopping /\ Stage = "descriptor_remove" /\ Typed
        /\ run' = Idle /\ UNCHANGED <<disk, descriptors, service, world>>
        /\ Tells("failed", IF run.cmd = "disable" THEN "disable" ELSE "status")
    BY DEF NoDescriptorIdentity, AtAny, At, Fails, Stopping, LifecycleInv
  <1>2. run.cmd = "disable" => StopsAreReal'
    BY <1>1, DisableStagesAre, ToldOf, DisableIsProvenAt
  <1>3. ServiceTyped' /\ OneCodex' /\ InOrder' /\ descriptors' \subseteq Launchers
    BY <1>1, ServiceStays DEF Typed, DiskTyped
  <1>4. QED
    BY <1>1, <1>2, <1>3, CutShort DEF Stopping, AllSuggestions, Commands

\* The other failures leave the disk and, but for its enablement, the service.
LEMMA FailuresKeep ==
  ASSUME LifecycleInv,
         Killed \/ DisableFails \/ SwitchFails \/ PublishFails
  PROVE  LifecycleInv'
  <1>1. run.cmd # "none" /\ run.cmd \in Commands
    <2>1. CASE Killed
      BY <2>1 DEF Killed, LifecycleInv, Typed, RunTyped
    <2>2. CASE DisableFails \/ SwitchFails \/ PublishFails
      BY <2>2 DEF DisableFails, SwitchFails, PublishFails, AtAny, At, Commands
    <2>3. QED
      BY <2>1, <2>2
  <1>2. /\ disk' = disk /\ world' = world
        /\ service' \in {service, [service EXCEPT !.enabled = FALSE]}
    BY DEF Killed, DisableFails, SwitchFails, PublishFails, StageFault, Fails
  <1>3. descriptors' \subseteq Launchers
    <2>1. CASE Killed \/ DisableFails \/ SwitchFails
      BY <2>1 DEF Killed, DisableFails, SwitchFails, LifecycleInv, Typed, DiskTyped
    <2>2. CASE PublishFails
      BY <2>2 DEF PublishFails, PublishTarget, LifecycleInv, Typed, DiskTyped, RunTyped
    <2>3. QED
      BY <2>1, <2>2
  <1>4. /\ run' = Idle
        /\ \E outcome \in {"failed", "killed"}, suggestion \in AllSuggestions :
             /\ Tells(outcome, suggestion)
             /\ run.cmd \in Stopping => suggestion \notin {"disable", "terminal"}
    <2>1. CASE Killed
      BY <2>1 DEF Killed, AllSuggestions
    <2>2. CASE DisableFails
      BY <2>2 DEF DisableFails, AtAny, At, StopThen, Fails, AllSuggestions
    <2>3. CASE SwitchFails \/ PublishFails
      <3>1. run.cmd \notin Stopping /\ StageFault
        BY <2>3 DEF SwitchFails, PublishFails, AtAny, At, Stopping
      <3>2. QED
        BY <1>1, <3>1, SuggestionsAre DEF StageFault, Fails
    <2>4. QED
      BY <2>1, <2>2, <2>3
  <1>5. ServiceTyped' /\ OneCodex' /\ InOrder'
    BY <1>2, ServiceStays
  <1>6. QED
    BY <1>1, <1>2, <1>3, <1>4, <1>5, CutShort

-----------------------------------------------------------------------------
(* Stages over files.                                                      *)

\* The configuration and the manifest stay, and with them what they say.
LEMMA SameEvidence ==
  ASSUME disk'.config = disk.config, disk'.manifest = disk.manifest
  PROVE  /\ StatusCodex' = StatusCodex
         /\ Evidence' = "contradictory" <=> Evidence = "contradictory"
         /\ Evidence' = "coherent" <=> Evidence = "coherent"
         /\ Evidence' = "manifest_only" <=> Evidence = "manifest_only"
  <1>1. StatusCodex' = StatusCodex
    BY DEF StatusCodex
  <1>2. QED
    BY <1>1, EvidenceIs

LEMMA WriteArtifactKeeps ==
  ASSUME LifecycleInv, WriteArtifact
  PROVE  LifecycleInv'
  <1>1. /\ run.cmd \in {"setup", "update"} /\ Stage \in Artifacts /\ Concludes
        /\ disk' = [disk EXCEPT !.artifacts[Stage] = run.release]
        /\ UNCHANGED <<descriptors, service>>
    BY DEF WriteArtifact
  <1>2. /\ Stage = "binary" <=> run.at = 1
        /\ Stage = "projection" <=> run.at = 3
        /\ Stage = "marketplace" <=> run.at = 4
        /\ Stage = "plugin" <=> run.at = 5
        /\ run.at \in {1, 3, 4, 5} /\ run.at # Len(Stages(run.cmd))
    <2>1. Typed
      BY DEF LifecycleInv
    <2>2. CASE run.cmd = "setup"
      BY <1>1, <2>1, <2>2, SetupStagesAre DEF Artifacts
    <2>3. CASE run.cmd = "update"
      BY <1>1, <2>1, <2>3, UpdateStagesAre DEF Artifacts
    <2>4. QED
      BY <1>1, <2>2, <2>3
  <1>3. run.release \in Releases /\ run.release # 0
    BY DEF LifecycleInv, Typed, RunTyped, Releases
  <1>4. /\ disk'.config = disk.config /\ disk'.manifest = disk.manifest
        /\ disk'.unit = disk.unit
        /\ \A a \in Artifacts :
             disk'.artifacts[a] = IF a = Stage THEN run.release ELSE disk.artifacts[a]
        /\ DiskTyped'
    BY <1>1, <1>3 DEF LifecycleInv, Typed, DiskTyped
  <1>5. ServiceTyped'
    BY <1>1 DEF LifecycleInv, Typed, ServiceTyped
  <1>6. OneCodex'
    BY <1>1, <1>4, SameEvidence DEF LifecycleInv, OneCodex
  <1>7. InOrder'
    BY <1>1, <1>2, <1>3, <1>4, SameEvidence DEF LifecycleInv, InOrder, Written, Artifacts
  <1>8. CASE Proceed
    <2>1. /\ SameCommand /\ run'.at = run.at + 1 /\ world' = world
          /\ RunTyped' /\ Reported' /\ StopsAreReal'
      BY <1>1, <1>2, <1>8, Continues
    <2>2. WorldTyped'
      BY <2>1 DEF LifecycleInv, Typed, WorldTyped
    <2>3. Resumes(run.cmd, run.release, run.codex, run.accepted)'
      BY <1>1, <1>4, <2>1, SameEvidence DEF LifecycleInv, Resumes, SameCommand, Permitted
    <2>4. Written'
      BY <1>1, <1>2, <1>4, <2>1 DEF LifecycleInv, Written, SameCommand, Artifacts
    <2>5. SetupProgress' /\ UpdateProgress' /\ StopProgress'
      BY <1>1, <1>2, <1>4, <2>1, SameEvidence
      DEF LifecycleInv, SetupProgress, UpdateProgress, StopProgress, SameCommand, Permitted,
          Stopping
    <2>6. QED
      BY <1>4, <1>5, <1>6, <1>7, <2>1, <2>2, <2>3, <2>4, <2>5 DEF LifecycleInv, Typed
  <1>9. CASE StageFault
    <2>1. LeavesResumable'
      BY <1>1, <1>4, <1>9, FaultTells, SameEvidence
      DEF LifecycleInv, LeavesResumable, Resumes, Permitted
    <2>2. QED
      BY <1>1, <1>4, <1>5, <1>6, <1>7, <1>9, <2>1, FaultKeeps DEF Final, At
  <1>10. QED
    BY <1>1, <1>8, <1>9 DEF Concludes

\* Without the plugin nothing is out of order.
LEMMA PluginLostKeeps ==
  ASSUME LifecycleInv, PluginLost
  PROVE  LifecycleInv'
  <1>1. /\ run.cmd \in {"setup", "update"} /\ StageFault
        /\ disk' = [disk EXCEPT !.artifacts["plugin"] = 0]
        /\ UNCHANGED <<descriptors, service>>
    BY DEF PluginLost, AtAny, At
  <1>2. /\ disk'.config = disk.config /\ disk'.manifest = disk.manifest
        /\ disk'.unit = disk.unit
        /\ \A a \in Artifacts :
             disk'.artifacts[a] = IF a = "plugin" THEN 0 ELSE disk.artifacts[a]
        /\ DiskTyped'
    BY <1>1 DEF LifecycleInv, Typed, DiskTyped
  <1>3. ServiceTyped' /\ OneCodex'
    BY <1>1, <1>2, SameEvidence DEF LifecycleInv, Typed, ServiceTyped, OneCodex
  <1>4. InOrder'
    BY <1>1, <1>2, SameEvidence DEF LifecycleInv, InOrder, Artifacts
  <1>5. LeavesResumable'
    BY <1>1, <1>2, FaultTells, SameEvidence
    DEF LifecycleInv, LeavesResumable, Resumes, Permitted
  <1>6. QED
    BY <1>1, <1>2, <1>3, <1>4, <1>5, FaultKeeps DEF Final, At

LEMMA WriteConfigurationKeeps ==
  ASSUME LifecycleInv, WriteConfiguration
  PROVE  LifecycleInv'
  <1>1. /\ run.cmd \in {"setup", "update"} /\ Stage = "configuration" /\ Concludes
        /\ disk' = [disk EXCEPT !.config = run.codex]
        /\ UNCHANGED <<descriptors, service>>
    BY DEF WriteConfiguration, AtAny, At
  <1>2. run.at = 2 /\ run.at # Len(Stages(run.cmd))
    <2>1. Typed
      BY DEF LifecycleInv
    <2>2. CASE run.cmd = "setup"
      BY <1>1, <2>1, <2>2, SetupStagesAre
    <2>3. CASE run.cmd = "update"
      BY <1>1, <2>1, <2>3, UpdateStagesAre
    <2>4. QED
      BY <1>1, <2>2, <2>3
  <1>4. run.codex \in Codexes /\ run.codex # None
    BY <1>1, InstallationAssumption DEF LifecycleInv, Typed, RunTyped
  <1>5. /\ disk'.config = run.codex /\ disk'.manifest = disk.manifest
        /\ disk'.unit = disk.unit /\ disk'.artifacts = disk.artifacts
        /\ DiskTyped'
    BY <1>1, <1>4 DEF LifecycleInv, Typed, DiskTyped
  <1>6. ServiceTyped'
    BY <1>1 DEF LifecycleInv, Typed, ServiceTyped
  <1>7. StatusCodex' = run.codex
    BY <1>4, <1>5 DEF StatusCodex
  <1>8. Evidence # "contradictory"
    BY <1>1, <1>2 DEF LifecycleInv, Resumes, UpdateProgress, Permitted
  <1>9. Evidence' # "contradictory" => StatusCodex \in {None, run.codex}
    <2>1. CASE run.cmd = "setup"
      BY <2>1 DEF LifecycleInv, SetupProgress
    <2>2. CASE run.cmd = "update"
      <3>1. disk.manifest # None
        BY <2>2 DEF LifecycleInv, Resumes
      <3>2. StatusCodex = disk.manifest.codex
        BY <1>8, <3>1, EvidenceIs DEF StatusCodex
      <3>3. Evidence' # "contradictory" => disk.manifest.codex = run.codex
        BY <1>4, <1>5, <3>1, EvidenceIs
      <3>4. QED
        BY <3>2, <3>3
    <2>3. QED
      BY <1>1, <2>1, <2>2
  <1>10. OneCodex'
    BY <1>1, <1>5, <1>7, <1>8, <1>9, NothingNamed DEF LifecycleInv, OneCodex
  <1>11. InOrder'
    BY <1>1, <1>4, <1>5, <1>7 DEF LifecycleInv, InOrder
  <1>12. run.cmd = "setup" => Evidence' # "contradictory"
    <2>1. ASSUME run.cmd = "setup", disk.manifest # None PROVE disk.manifest.codex = run.codex
      <3>1. StatusCodex \in {None, run.codex}
        BY <2>1 DEF LifecycleInv, SetupProgress
      <3>2. QED
        BY <1>8, <2>1, <3>1, EvidenceIs, ManifestFields DEF StatusCodex
    <2>2. QED
      BY <1>5, <2>1, EvidenceIs
  <1>13. CASE Proceed
    <2>1. /\ SameCommand /\ run'.at = 3 /\ world' = world
          /\ RunTyped' /\ Reported' /\ StopsAreReal'
      BY <1>1, <1>2, <1>13, Continues
    <2>2. WorldTyped'
      BY <2>1 DEF LifecycleInv, Typed, WorldTyped
    <2>3. Resumes(run.cmd, run.release, run.codex, run.accepted)'
      BY <1>1, <1>4, <1>5, <1>12, <2>1, EvidenceIs
      DEF LifecycleInv, Resumes, SameCommand, Permitted
    <2>4. Written'
      BY <1>1, <1>2, <1>5, <2>1 DEF LifecycleInv, Written, SameCommand
    <2>5. SetupProgress' /\ UpdateProgress' /\ StopProgress'
      BY <1>1, <1>2, <1>5, <1>7, <2>1
      DEF LifecycleInv, SetupProgress, UpdateProgress, StopProgress, SameCommand, Stopping
    <2>6. QED
      BY <1>5, <1>6, <1>10, <1>11, <2>1, <2>2, <2>3, <2>4, <2>5 DEF LifecycleInv, Typed
  <1>14. CASE StageFault
    <2>1. LeavesResumable'
      BY <1>1, <1>4, <1>5, <1>12, <1>14, FaultTells, EvidenceIs
      DEF LifecycleInv, LeavesResumable, Resumes, Permitted
    <2>2. QED
      BY <1>1, <1>5, <1>6, <1>10, <1>11, <1>14, <2>1, FaultKeeps DEF Final, At
  <1>15. QED
    BY <1>1, <1>13, <1>14 DEF Concludes

LEMMA WriteUnitKeeps ==
  ASSUME LifecycleInv, WriteUnit
  PROVE  LifecycleInv'
  <1>1. /\ run.cmd \in {"setup", "update"} /\ Stage = "unit"
        /\ disk' = [disk EXCEPT !.unit = run.codex]
        /\ UNCHANGED service
    BY DEF WriteUnit, AtAny, At
  <1>2. /\ run.at = IF run.cmd = "setup" THEN 8 ELSE 7
        /\ run.at # Len(Stages(run.cmd))
    <2>1. Typed
      BY DEF LifecycleInv
    <2>2. CASE run.cmd = "setup"
      BY <1>1, <2>1, <2>2, SetupStagesAre
    <2>3. CASE run.cmd = "update"
      BY <1>1, <2>1, <2>3, UpdateStagesAre
    <2>4. QED
      BY <1>1, <2>2, <2>3
  <1>3. run.codex \in Codexes /\ run.codex # None
    BY <1>1, InstallationAssumption DEF LifecycleInv, Typed, RunTyped
  <1>4. /\ disk'.config = disk.config /\ disk'.manifest = disk.manifest
        /\ disk'.unit = run.codex /\ disk'.artifacts = disk.artifacts
        /\ descriptors' \subseteq Launchers => DiskTyped'
    BY <1>1, <1>3 DEF LifecycleInv, Typed, DiskTyped
  <1>5. ServiceTyped'
    BY <1>1 DEF LifecycleInv, Typed, ServiceTyped
  <1>6. StatusCodex = run.codex
    BY <1>1, <1>2, <1>3 DEF LifecycleInv, Written, StatusCodex
  <1>7. OneCodex' /\ InOrder'
    BY <1>1, <1>3, <1>4, <1>6, SameEvidence DEF LifecycleInv, OneCodex, InOrder
  <1>8. CASE Proceed /\ UNCHANGED descriptors
    <2>1. /\ SameCommand /\ run'.at = run.at + 1 /\ world' = world
          /\ RunTyped' /\ Reported' /\ StopsAreReal'
      BY <1>1, <1>2, <1>8, Continues
    <2>2. WorldTyped' /\ DiskTyped'
      BY <1>4, <1>8, <2>1 DEF LifecycleInv, Typed, WorldTyped, DiskTyped
    <2>3. Resumes(run.cmd, run.release, run.codex, run.accepted)'
      BY <1>1, <1>4, <2>1, SameEvidence DEF LifecycleInv, Resumes, SameCommand, Permitted
    <2>4. Written'
      BY <1>1, <1>2, <1>4, <2>1 DEF LifecycleInv, Written, SameCommand
    <2>5. SetupProgress' /\ UpdateProgress' /\ StopProgress'
      BY <1>1, <1>2, <1>4, <2>1, SameEvidence
      DEF LifecycleInv, SetupProgress, UpdateProgress, StopProgress, SameCommand, Permitted,
          Stopping
    <2>6. QED
      BY <1>5, <1>7, <2>1, <2>2, <2>3, <2>4, <2>5 DEF LifecycleInv, Typed
  <1>9. CASE StageFault /\ UNCHANGED descriptors
    <2>1. DiskTyped'
      BY <1>4, <1>9 DEF LifecycleInv, Typed, DiskTyped
    <2>2. LeavesResumable'
      BY <1>1, <1>4, <1>9, FaultTells, SameEvidence
      DEF LifecycleInv, LeavesResumable, Resumes, Permitted
    <2>3. QED
      BY <1>1, <1>5, <1>7, <1>9, <2>1, <2>2, FaultKeeps DEF Final, At
  <1>10. CASE run.cmd = "setup" /\ FaultAfterDescriptor
    <2>1. PICK suggestion \in Suggestions(run.cmd, Stage) :
            FailsAfterDescriptor(service', suggestion)
      BY <1>10 DEF FaultAfterDescriptor
    <2>2. suggestion \in AllSuggestions
      BY <1>10, <2>1, SuggestionsAre DEF Commands
    <2>3. DiskTyped'
      BY <1>4, <2>1, WithdrawsOnly
    <2>4. LeavesResumable'
      <3>1. \E told : Tells("failed", told)
        BY <2>1 DEF FailsAfterDescriptor, Fails
      <3>2. QED
        BY <1>1, <1>4, <1>10, <3>1, ToldOf, SameEvidence
        DEF LifecycleInv, LeavesResumable, Resumes
    <2>5. QED
      BY <1>5, <1>7, <1>10, <2>1, <2>2, <2>3, <2>4, AfterDescriptor
  <1>11. QED
    BY <1>8, <1>9, <1>10 DEF WriteUnit

LEMMA WriteManifestKeeps ==
  ASSUME LifecycleInv, WriteManifest
  PROVE  LifecycleInv'
  <1>1. /\ run.cmd \in {"setup", "update"} /\ Stage = "manifest" /\ Concludes
        /\ disk' = [disk EXCEPT !.manifest = [release |-> run.release, codex |-> run.codex,
                                              launcher |-> Attachment]]
        /\ UNCHANGED <<descriptors, service>>
    BY DEF WriteManifest, AtAny, At
  <1>2. /\ run.at = IF run.cmd = "setup" THEN 12 ELSE 11
        /\ run.at = Len(Stages(run.cmd))
    BY <1>1, SetupStagesAre, UpdateStagesAre DEF LifecycleInv
  <1>4. run.codex \in Codexes /\ run.codex # None /\ run.release \in Releases
    BY <1>1, InstallationAssumption DEF LifecycleInv, Typed, RunTyped
  <1>5. [release |-> run.release, codex |-> run.codex, launcher |-> Attachment]
          \in Manifests
    BY <1>4 DEF LifecycleInv, Typed, RunTyped, Attachment, Manifests
  <1>6. /\ disk'.config = disk.config /\ disk'.unit = disk.unit
        /\ disk'.artifacts = disk.artifacts
        /\ disk'.manifest # None /\ disk'.manifest.codex = run.codex
        /\ disk'.manifest.release = run.release
        /\ DiskTyped'
    BY <1>1, <1>5, InstallationAssumption DEF LifecycleInv, Typed, DiskTyped
  <1>7. disk.config = run.codex /\ disk.unit = run.codex
    BY <1>1, <1>2 DEF LifecycleInv, Written, SetupProgress, UpdateProgress
  <1>8. \A a \in Artifacts : disk.artifacts[a] = run.release
    BY <1>1, <1>2 DEF LifecycleInv, Written, Artifacts
  <1>9. StatusCodex = run.codex /\ StatusCodex' = run.codex
    BY <1>4, <1>6, <1>7 DEF StatusCodex
  <1>10. OneCodex'
    <2>1. CASE run.cmd = "setup"
      <3>1. Evidence # "contradictory"
        BY <2>1 DEF LifecycleInv, Resumes
      <3>2. QED
        BY <1>1, <1>6, <1>7, <1>9, <3>1 DEF LifecycleInv, OneCodex
    <2>2. CASE run.cmd = "update"
      BY <1>1, <1>2, <1>4, <1>6, <1>7, <1>9, <2>2 DEF LifecycleInv, OneCodex, UpdateProgress
    <2>3. QED
      BY <1>1, <2>1, <2>2
  <1>11. InOrder'
    BY <1>1, <1>4, <1>6, <1>9 DEF LifecycleInv, InOrder
  <1>12. ServiceTyped'
    BY <1>1 DEF LifecycleInv, Typed, ServiceTyped
  <1>13. CASE Proceed
    <2>1. /\ run' = Idle /\ Tells("ok", "none") /\ world' = world
      BY <1>1, <1>2, <1>13, Completes
    <2>2. /\ report'.outcome = "ok" /\ report'.cmd = run.cmd /\ report'.release = run.release
          /\ report'.suggestion = "none"
      BY <2>1 DEF Tells
    <2>3. Reported' /\ StopsAreReal'
      BY <1>1, <1>6, <1>7, <1>8, <2>1, <2>2
      DEF Reported, StopsAreReal, UninstallLeavesNothing, DisableIsTrue, Idle
    <2>4. WorldTyped'
      BY <2>1 DEF LifecycleInv, Typed, WorldTyped
    <2>5. QED
      BY <1>6, <1>10, <1>11, <1>12, <2>1, <2>2, <2>3, <2>4, IdleAgain DEF AllSuggestions
  <1>14. CASE StageFault
    <2>1. Evidence' = "coherent"
      BY <1>4, <1>6, <1>7, EvidenceIs
    <2>2. run.release >= run.release
      BY <1>4 DEF Releases
    <2>3. LeavesResumable'
      BY <1>1, <1>6, <1>14, <2>1, <2>2, FaultTells DEF LeavesResumable, Resumes, Permitted
    <2>4. QED
      BY <1>1, <1>6, <1>10, <1>11, <1>12, <1>14, <2>3, FaultKeeps DEF Final, At
  <1>15. QED
    BY <1>1, <1>13, <1>14 DEF Concludes

LEMMA RemoveUnitKeeps ==
  ASSUME LifecycleInv, RemoveUnit
  PROVE  LifecycleInv'
  <1>1. /\ run.cmd = "uninstall" /\ Stage = "unit_remove" /\ Proceed
        /\ disk' = [disk EXCEPT !.unit = None]
        /\ service' = [service EXCEPT !.loaded = None]
        /\ UNCHANGED descriptors
    BY DEF RemoveUnit, At
  <1>2. run.at = 4 /\ run.at # Len(Stages(run.cmd))
    BY <1>1, UninstallStagesAre DEF LifecycleInv
  <1>3. /\ SameCommand /\ run'.at = 5 /\ world' = world
        /\ RunTyped' /\ Reported' /\ StopsAreReal'
    BY <1>1, <1>2, Continues
  <1>4. ~ service.enabled /\ service.activity = "inactive" /\ ~ service.socket
    BY <1>1, <1>2, ServiceIsStopped DEF Stopping
  <1>5. /\ disk'.config = disk.config /\ disk'.manifest = disk.manifest
        /\ disk'.unit = None /\ disk'.artifacts = disk.artifacts
        /\ DiskTyped'
    BY <1>1 DEF LifecycleInv, Typed, DiskTyped
  <1>6. /\ service'.enabled = service.enabled /\ service'.activity = service.activity
        /\ service'.socket = service.socket /\ service'.process = service.process
        /\ service'.loaded = None
        /\ ServiceTyped' /\ WorldTyped'
    BY <1>1, <1>3 DEF LifecycleInv, Typed, ServiceTyped, WorldTyped
  <1>7. OneCodex' /\ InOrder'
    BY <1>4, <1>5, <1>6 DEF LifecycleInv, OneCodex, InOrder
  <1>8. Resumes(run.cmd, run.release, run.codex, run.accepted)'
    BY <1>1, <1>3, <1>5, SameEvidence DEF LifecycleInv, Resumes, SameCommand, Permitted
  <1>9. StopProgress'
    BY <1>1, <1>2, <1>3, <1>4, <1>5, <1>6, SameEvidence
    DEF LifecycleInv, StopProgress, SameCommand, Permitted, Stopping
  <1>10. Written' /\ SetupProgress' /\ UpdateProgress'
    BY <1>1, <1>3 DEF Written, SetupProgress, UpdateProgress, SameCommand
  <1>11. QED
    BY <1>3, <1>5, <1>6, <1>7, <1>8, <1>9, <1>10 DEF LifecycleInv, Typed

LEMMA RemoveUnitFailsKeeps ==
  ASSUME LifecycleInv, RemoveUnitFails
  PROVE  LifecycleInv'
  <1>1. /\ run.cmd = "uninstall" /\ Stage = "unit_remove" /\ StageFault
        /\ disk' \in {disk, [disk EXCEPT !.unit = None]}
        /\ service' \in {service, [service EXCEPT !.loaded = None]}
        /\ UNCHANGED descriptors
    BY DEF RemoveUnitFails, At
  <1>2. run.at = 4
    BY <1>1, UninstallStagesAre DEF LifecycleInv
  <1>3. ~ service.enabled /\ service.activity = "inactive" /\ ~ service.socket
    BY <1>1, <1>2, ServiceIsStopped DEF Stopping
  <1>4. /\ disk'.config = disk.config /\ disk'.manifest = disk.manifest
        /\ disk'.unit \in {disk.unit, None} /\ disk'.artifacts = disk.artifacts
        /\ DiskTyped'
    BY <1>1 DEF LifecycleInv, Typed, DiskTyped
  <1>5. /\ service'.enabled = service.enabled /\ service'.activity = service.activity
        /\ service'.socket = service.socket /\ service'.process = service.process
        /\ service'.loaded \in {service.loaded, None}
        /\ ServiceTyped'
    BY <1>1 DEF LifecycleInv, Typed, ServiceTyped
  <1>6. OneCodex' /\ InOrder'
    BY <1>3, <1>4, <1>5, SameEvidence DEF LifecycleInv, OneCodex, InOrder
  <1>7. LeavesResumable'
    BY <1>1, <1>4, FaultTells, SameEvidence
    DEF LifecycleInv, LeavesResumable, Resumes, Permitted
  <1>8. QED
    BY <1>1, <1>4, <1>5, <1>6, <1>7, FaultKeeps DEF Final, At

\* The plugin goes before its marketplace, the binary last of all.
LEMMA RemoveArtifactKeeps ==
  ASSUME LifecycleInv, RemoveArtifact
  PROVE  LifecycleInv'
  <1>1. PICK a \in Artifacts : /\ At("uninstall", Removal[a])
                               /\ disk' = [disk EXCEPT !.artifacts[a] = 0]
    BY DEF RemoveArtifact
  <1>2. /\ run.cmd = "uninstall" /\ Stage = Removal[a]
        /\ Proceed \/ (Stage # "binary_remove" /\ StageFault)
        /\ UNCHANGED <<descriptors, service>>
    BY <1>1 DEF RemoveArtifact, At
  <1>3. /\ a = "plugin" => run.at = 5
        /\ a = "marketplace" => run.at = 6
        /\ a = "projection" => run.at = 7
        /\ a = "binary" => run.at = 10
        /\ run.at > 2 /\ Len(Stages(run.cmd)) = 10
    BY <1>1, <1>2, UninstallStagesAre DEF LifecycleInv, Removal, Artifacts
  <1>4. ~ service.enabled /\ service.activity = "inactive" /\ ~ service.socket
    BY <1>2, <1>3, ServiceIsStopped DEF Stopping
  <1>5. /\ disk'.config = disk.config /\ disk'.manifest = disk.manifest
        /\ disk'.unit = disk.unit
        /\ \A b \in Artifacts : disk'.artifacts[b] = IF b = a THEN 0 ELSE disk.artifacts[b]
        /\ DiskTyped'
    <2>1. disk' = [disk EXCEPT !.artifacts[a] = 0] /\ UNCHANGED descriptors
      BY <1>1, <1>2
    <2>2. DiskTyped
      BY DEF LifecycleInv, Typed
    <2>3. QED
      BY <2>1, <2>2 DEF DiskTyped
  <1>6. ServiceTyped' /\ WorldTyped'
    BY <1>2, FaultTells DEF LifecycleInv, Typed, ServiceTyped, WorldTyped, Proceed
  <1>7. OneCodex'
    BY <1>2, <1>5, SameEvidence DEF LifecycleInv, OneCodex
  <1>8. InOrder'
    BY <1>2, <1>3, <1>5, SameEvidence
    DEF LifecycleInv, InOrder, StopProgress, Artifacts
  <1>9. CASE a # "binary" /\ Proceed
    <2>1. /\ SameCommand /\ run'.at = run.at + 1 /\ world' = world
          /\ RunTyped' /\ Reported' /\ StopsAreReal'
      <3>1. run.at # Len(Stages(run.cmd))
        BY <1>3, <1>9 DEF Artifacts
      <3>2. QED
        BY <1>2, <1>9, <3>1, Continues
    <2>2. Resumes(run.cmd, run.release, run.codex, run.accepted)'
      BY <1>2, <1>5, <2>1, SameEvidence DEF LifecycleInv, Resumes, SameCommand, Permitted
    <2>3. StopProgress'
      <3>1. run.at \in {5, 6, 7}
        BY <1>3, <1>9 DEF Artifacts
      <3>2. /\ Evidence' \in Permitted /\ disk'.manifest # None
            /\ disk'.unit = None /\ service'.loaded = None
        BY <1>2, <1>5, <3>1, SameEvidence DEF LifecycleInv, StopProgress, Permitted
      <3>3. CASE a = "plugin"
        BY <1>2, <1>3, <1>4, <1>5, <2>1, <3>2, <3>3
        DEF LifecycleInv, StopProgress, SameCommand, Stopping, Artifacts
      <3>4. CASE a = "marketplace"
        BY <1>2, <1>3, <1>4, <1>5, <2>1, <3>2, <3>4
        DEF LifecycleInv, StopProgress, SameCommand, Stopping, Artifacts
      <3>5. CASE a = "projection"
        BY <1>2, <1>3, <1>4, <1>5, <2>1, <3>2, <3>5
        DEF LifecycleInv, StopProgress, SameCommand, Stopping, Artifacts
      <3>6. QED
        BY <1>9, <3>3, <3>4, <3>5 DEF Artifacts
    <2>4. Written' /\ SetupProgress' /\ UpdateProgress'
      BY <1>2, <2>1 DEF Written, SetupProgress, UpdateProgress, SameCommand
    <2>5. QED
      BY <1>5, <1>6, <1>7, <1>8, <2>1, <2>2, <2>3, <2>4 DEF LifecycleInv, Typed
  <1>10. CASE a = "binary" /\ Proceed
    <2>1. run' = Idle /\ Tells("ok", "none")
      BY <1>3, <1>10, Completes
    <2>2. /\ report'.outcome = "ok" /\ report'.cmd = "uninstall"
          /\ report'.suggestion = "none"
      BY <1>2, <2>1 DEF Tells
    <2>3. disk' = [config |-> None, unit |-> None, manifest |-> None,
                   artifacts |-> [b \in Artifacts |-> 0]]
      <3>1. /\ disk.config = None /\ disk.unit = None /\ disk.manifest = None
            /\ disk.artifacts["plugin"] = 0 /\ disk.artifacts["marketplace"] = 0
            /\ disk.artifacts["projection"] = 0
        BY <1>2, <1>3, <1>10 DEF LifecycleInv, StopProgress
      <3>2. \A b \in Artifacts : disk'.artifacts[b] = 0
        BY <1>5, <1>10, <3>1 DEF Artifacts
      <3>3. disk'.artifacts = [b \in Artifacts |-> 0]
        BY <1>5, <3>2 DEF DiskTyped
      <3>4. QED
        BY <1>5, <3>1, <3>3 DEF DiskTyped
    <2>4. Reported'
      BY <2>1, <2>2 DEF Reported, Idle
    <2>5. StopsAreReal'
      BY <1>2, <1>4, <2>3 DEF StopsAreReal, UninstallLeavesNothing, DisableIsTrue
    <2>6. QED
      BY <1>5, <1>6, <1>7, <1>8, <2>1, <2>2, <2>4, <2>5, IdleAgain DEF AllSuggestions
  <1>11. CASE StageFault /\ Stage # "binary_remove"
    <2>1. LeavesResumable'
      BY <1>2, <1>5, <1>11, FaultTells, SameEvidence
      DEF LifecycleInv, LeavesResumable, Resumes, Permitted
    <2>2. QED
      BY <1>2, <1>5, <1>6, <1>7, <1>8, <1>11, <2>1, FaultKeeps DEF Final, At
  <1>12. QED
    BY <1>2, <1>9, <1>10, <1>11

LEMMA RemoveConfigurationKeeps ==
  ASSUME LifecycleInv, RemoveConfiguration
  PROVE  LifecycleInv'
  <1>1. /\ run.cmd = "uninstall" /\ Stage = "configuration_remove" /\ Concludes
        /\ disk' = [disk EXCEPT !.config = None]
        /\ UNCHANGED <<descriptors, service>>
    BY DEF RemoveConfiguration, At
  <1>2. run.at = 8 /\ run.at # Len(Stages(run.cmd))
    BY <1>1, UninstallStagesAre DEF LifecycleInv
  <1>4. /\ ~ service.enabled /\ service.activity = "inactive" /\ ~ service.socket
        /\ disk.unit = None /\ service.loaded = None /\ disk.manifest # None
    BY <1>1, <1>2, ServiceIsStopped DEF LifecycleInv, StopProgress, Stopping
  <1>5. /\ disk'.config = None /\ disk'.manifest = disk.manifest
        /\ disk'.unit = disk.unit /\ disk'.artifacts = disk.artifacts
        /\ DiskTyped'
    BY <1>1 DEF LifecycleInv, Typed, DiskTyped
  <1>6. ServiceTyped'
    BY <1>1 DEF LifecycleInv, Typed, ServiceTyped
  <1>7. OneCodex' /\ InOrder'
    BY <1>1, <1>4, <1>5 DEF LifecycleInv, OneCodex, InOrder
  <1>8. Evidence' = "manifest_only"
    BY <1>4, <1>5, EvidenceIs
  <1>9. CASE Proceed
    <2>1. /\ SameCommand /\ run'.at = 9 /\ world' = world
          /\ RunTyped' /\ Reported' /\ StopsAreReal'
      BY <1>1, <1>2, <1>9, Continues
    <2>2. WorldTyped'
      BY <2>1 DEF LifecycleInv, Typed, WorldTyped
    <2>3. Resumes(run.cmd, run.release, run.codex, run.accepted)'
      BY <1>1, <1>8, <2>1 DEF Resumes, SameCommand, Permitted
    <2>4. StopProgress'
      BY <1>1, <1>2, <1>4, <1>5, <1>8, <2>1
      DEF LifecycleInv, StopProgress, SameCommand, Permitted, Stopping
    <2>5. Written' /\ SetupProgress' /\ UpdateProgress'
      BY <1>1, <2>1 DEF Written, SetupProgress, UpdateProgress, SameCommand
    <2>6. QED
      BY <1>5, <1>6, <1>7, <2>1, <2>2, <2>3, <2>4, <2>5 DEF LifecycleInv, Typed
  <1>10. CASE StageFault
    <2>1. LeavesResumable'
      BY <1>1, <1>8, <1>10, FaultTells DEF LeavesResumable, Resumes, Permitted
    <2>2. QED
      BY <1>1, <1>5, <1>6, <1>7, <1>10, <2>1, FaultKeeps DEF Final, At
  <1>11. QED
    BY <1>1, <1>9, <1>10 DEF Concludes

LEMMA RemoveManifestKeeps ==
  ASSUME LifecycleInv, RemoveManifest
  PROVE  LifecycleInv'
  <1>1. /\ run.cmd = "uninstall" /\ Stage = "manifest_remove" /\ Proceed
        /\ disk' = [disk EXCEPT !.manifest = None]
        /\ UNCHANGED <<descriptors, service>>
    BY DEF RemoveManifest, At
  <1>2. run.at = 9 /\ run.at # Len(Stages(run.cmd))
    BY <1>1, UninstallStagesAre DEF LifecycleInv
  <1>3. /\ SameCommand /\ run'.at = 10 /\ world' = world
        /\ RunTyped' /\ Reported' /\ StopsAreReal'
    BY <1>1, <1>2, Continues
  <1>4. /\ ~ service.enabled /\ service.activity = "inactive" /\ ~ service.socket
        /\ disk.unit = None /\ service.loaded = None /\ disk.config = None
    BY <1>1, <1>2, ServiceIsStopped DEF LifecycleInv, StopProgress, Stopping
  <1>5. /\ disk'.config = disk.config /\ disk'.manifest = None
        /\ disk'.unit = disk.unit /\ disk'.artifacts = disk.artifacts
        /\ DiskTyped'
    BY <1>1 DEF LifecycleInv, Typed, DiskTyped
  <1>6. ServiceTyped' /\ WorldTyped'
    BY <1>1, <1>3 DEF LifecycleInv, Typed, ServiceTyped, WorldTyped
  <1>7. OneCodex' /\ InOrder'
    BY <1>1, <1>4, <1>5 DEF LifecycleInv, OneCodex, InOrder
  <1>8. Resumes(run.cmd, run.release, run.codex, run.accepted)'
    BY <1>1, <1>3, <1>5 DEF Resumes, SameCommand
  <1>9. StopProgress'
    BY <1>1, <1>2, <1>3, <1>4, <1>5
    DEF LifecycleInv, StopProgress, SameCommand, Stopping
  <1>10. Written' /\ SetupProgress' /\ UpdateProgress'
    BY <1>1, <1>3 DEF Written, SetupProgress, UpdateProgress, SameCommand
  <1>11. QED
    BY <1>3, <1>5, <1>6, <1>7, <1>8, <1>9, <1>10 DEF LifecycleInv, Typed

LEMMA DataRootStaysKeeps ==
  ASSUME LifecycleInv, DataRootStays
  PROVE  LifecycleInv'
  <1>1. /\ run.cmd = "uninstall" /\ Stage = "manifest_remove"
        /\ run' = Idle /\ Tells("failed", "terminal") /\ world' = world
        /\ UNCHANGED <<descriptors, service>>
    BY DEF DataRootStays, At, Fails
  <1>2. PICK binary \in {0, disk.artifacts["binary"]} :
          disk' = [disk EXCEPT !.manifest = None, !.artifacts["binary"] = binary]
    BY DEF DataRootStays
  <1>3. run.at = 9
    BY <1>1, UninstallStagesAre DEF LifecycleInv
  <1>4. /\ ~ service.enabled /\ service.activity = "inactive" /\ ~ service.socket
        /\ disk.unit = None /\ service.loaded = None /\ disk.config = None
        /\ disk.artifacts["plugin"] = 0 /\ disk.artifacts["marketplace"] = 0
        /\ disk.artifacts["projection"] = 0
    BY <1>1, <1>3, ServiceIsStopped DEF LifecycleInv, StopProgress, Stopping
  <1>5. /\ disk'.config = None /\ disk'.manifest = None /\ disk'.unit = None
        /\ \A a \in Artifacts \ {"binary"} : disk'.artifacts[a] = disk.artifacts[a]
        /\ DiskTyped'
    BY <1>1, <1>2, <1>4 DEF LifecycleInv, Typed, DiskTyped, Artifacts
  <1>6. ServiceTyped'
    BY <1>1 DEF LifecycleInv, Typed, ServiceTyped
  <1>7. OneCodex' /\ InOrder'
    BY <1>1, <1>4, <1>5 DEF OneCodex, InOrder, Artifacts
  <1>8. LeavesResumable'
    BY <1>1, <1>5, ToldOf DEF LeavesResumable, Resumes
  <1>9. StopsAreReal'
    BY <1>1, <1>4, <1>5, ToldOf
    DEF StopsAreReal, UninstallLeavesNothing, DisableIsTrue, Artifacts
  <1>10. QED
    BY <1>1, <1>5, <1>6, <1>7, <1>8, <1>9, EndsShort DEF AllSuggestions

-----------------------------------------------------------------------------
(* Stages over the descriptor and the service.                             *)

\* What a stage that writes no file of the product leaves as it was.
LEMMA DiskStays ==
  ASSUME LifecycleInv, disk' = disk, world' = world, descriptors' \subseteq Launchers,
         SameCommand, run.cmd \in {"setup", "update"} => run.at > 5
  PROVE  /\ DiskTyped' /\ WorldTyped'
         /\ Resumes(run.cmd, run.release, run.codex, run.accepted)' /\ Written'
         /\ Evidence' = Evidence /\ StatusCodex' = StatusCodex
  <1>1. Evidence' = Evidence /\ StatusCodex' = StatusCodex
    BY DEF Evidence, StatusCodex
  <1>2. DiskTyped' /\ WorldTyped'
    BY DEF LifecycleInv, Typed, DiskTyped, WorldTyped
  <1>3. Resumes(run.cmd, run.release, run.codex, run.accepted)'
    BY <1>1 DEF LifecycleInv, Resumes, SameCommand
  <1>4. Written'
    <2>1. ASSUME run.cmd \in {"setup", "update"}
          PROVE  /\ disk.artifacts["binary"] = run.release /\ disk.config = run.codex
                 /\ disk.artifacts["projection"] = run.release
                 /\ disk.artifacts["marketplace"] = run.release
                 /\ disk.artifacts["plugin"] = run.release
      <3>1. run.at \in Nat /\ run.at > 5
        BY <2>1 DEF LifecycleInv, Typed, RunTyped
      <3>2. run.at > 1 /\ run.at > 2 /\ run.at > 3 /\ run.at > 4 /\ run.at > 5
        BY <3>1
      <3>3. QED
        BY <2>1, <3>2 DEF LifecycleInv, Written
    <2>2. QED
      BY <2>1 DEF Written, SameCommand
  <1>5. QED
    BY <1>1, <1>2, <1>3, <1>4

LEMMA PublishDescriptorKeeps ==
  ASSUME LifecycleInv, PublishDescriptor
  PROVE  LifecycleInv'
  <1>1. /\ run.cmd \in {"setup", "enable", "update"} /\ Stage = "descriptor"
        /\ descriptors' = descriptors \union ({PublishTarget} \ {None})
        /\ UNCHANGED <<disk, service, world, report>>
    BY DEF PublishDescriptor, AtAny, At
  <1>2. PICK changed \in BOOLEAN : run' = [run EXCEPT !.at = run.at + 1, !.changed = changed]
    BY DEF PublishDescriptor
  <1>3. Typed
    BY DEF LifecycleInv
  <1>4. /\ run.cmd = "setup" => run.at = 6
        /\ run.cmd = "update" => run.at = 6
        /\ run.cmd = "enable" => run.at = 1
        /\ run.at # Len(Stages(run.cmd))
    <2>1. CASE run.cmd = "setup"
      BY <1>1, <1>3, <2>1, SetupStagesAre
    <2>2. CASE run.cmd = "update"
      BY <1>1, <1>3, <2>2, UpdateStagesAre
    <2>3. CASE run.cmd = "enable"
      BY <1>1, <1>3, <2>3, EnableStagesAre
    <2>4. QED
      BY <1>1, <2>1, <2>2, <2>3
  <1>5. run.at + 1 \in 1 .. Len(Stages(run.cmd))
    BY <1>1, <1>3, <1>4, LengthsAre
  <1>6. SameCommand /\ run'.at = run.at + 1 /\ RunTyped' /\ Reported' /\ StopsAreReal'
    BY <1>1, <1>2, <1>5, GoesOn
  <1>7. descriptors' \subseteq Launchers
    BY <1>1 DEF PublishTarget, LifecycleInv, Typed, DiskTyped, RunTyped
  <1>8. /\ DiskTyped' /\ WorldTyped'
        /\ Resumes(run.cmd, run.release, run.codex, run.accepted)' /\ Written'
        /\ Evidence' = Evidence /\ StatusCodex' = StatusCodex
    BY <1>1, <1>4, <1>6, <1>7, DiskStays
  <1>9. ServiceTyped' /\ OneCodex' /\ InOrder'
    BY <1>1, ServiceStays
  <1>10. SetupProgress'
    BY <1>1, <1>4, <1>6, <1>8 DEF LifecycleInv, SetupProgress, SameCommand, PublishTarget
  <1>11. UpdateProgress' /\ StopProgress'
    BY <1>1, <1>4, <1>6, <1>8
    DEF LifecycleInv, UpdateProgress, StopProgress, SameCommand, Stopping
  <1>12. QED
    BY <1>6, <1>8, <1>9, <1>10, <1>11 DEF LifecycleInv, Typed

LEMMA SwitchDescriptorKeeps ==
  ASSUME LifecycleInv, SwitchDescriptor
  PROVE  LifecycleInv'
  <1>1. /\ run.cmd = "setup" /\ Stage = "descriptor_switch"
        /\ descriptors' \subseteq Launchers
        /\ UNCHANGED <<disk, service, world, report>>
        /\ \E changed \in BOOLEAN :
             run' = [run EXCEPT !.at = run.at + 1, !.changed = changed]
    BY DEF SwitchDescriptor, At, LifecycleInv, Typed, DiskTyped, RunTyped
  <1>2. run.at = 7 /\ 8 \in 1 .. Len(Stages(run.cmd)) /\ run.at + 1 = 8
    <2>1. run.at = 7 /\ Len(Stages(run.cmd)) = 12
      BY <1>1, SetupStagesAre DEF LifecycleInv
    <2>2. 8 \in 1 .. 12
      OBVIOUS
    <2>3. QED
      BY <2>1, <2>2
  <1>3. /\ SameCommand /\ run'.at = 8 /\ world' = world
        /\ RunTyped' /\ Reported' /\ StopsAreReal'
    BY <1>1, <1>2, GoesOn
  <1>4. /\ DiskTyped' /\ WorldTyped'
        /\ Resumes(run.cmd, run.release, run.codex, run.accepted)' /\ Written'
        /\ Evidence' = Evidence /\ StatusCodex' = StatusCodex
    BY <1>1, <1>2, <1>3, DiskStays
  <1>5. ServiceTyped' /\ OneCodex' /\ InOrder'
    BY <1>1, ServiceStays
  <1>6. SetupProgress' /\ UpdateProgress' /\ StopProgress'
    BY <1>1, <1>3, <1>4
    DEF LifecycleInv, SetupProgress, UpdateProgress, StopProgress, SameCommand, Stopping
  <1>7. QED
    BY <1>3, <1>4, <1>5, <1>6 DEF LifecycleInv, Typed

LEMMA RemoveDescriptorKeeps ==
  ASSUME LifecycleInv, RemoveDescriptor
  PROVE  LifecycleInv'
  <1>1. /\ run.cmd \in Stopping /\ Stage = "descriptor_remove" /\ Concludes
        /\ descriptors' \subseteq Launchers /\ Permits(run.cmd)
        /\ UNCHANGED <<disk, service>>
    BY DEF RemoveDescriptor, AtAny, At, LifecycleInv, Typed, DiskTyped, Stopping
  <1>2. ServiceTyped' /\ OneCodex' /\ InOrder'
    BY <1>1, ServiceStays
  <1>3. Typed
    BY DEF LifecycleInv
  <1>4. CASE run.cmd = "disable" /\ Proceed
    <2>1. run.at = Len(Stages(run.cmd))
      BY <1>1, <1>3, <1>4, DisableStagesAre
    <2>2. run' = Idle /\ Tells("ok", "none") /\ world' = world
      BY <1>4, <2>1, Completes
    <2>3. report'.outcome = "ok" /\ report'.cmd = "disable" /\ report'.suggestion = "none"
      BY <1>4, <2>2 DEF Tells
    <2>4. disk.manifest # None /\ disk.manifest.launcher \notin descriptors'
      BY <1>1, <1>4, EvidenceIs DEF RemoveDescriptor, Permits
    <2>5. Reported' /\ StopsAreReal'
      <3>1. run.at > 2
        BY <1>1, <1>3, <1>4, DisableStagesAre
      <3>2. StopsAreReal'
        BY <1>1, <1>4, <2>3, <3>1, DisableIsProvenAt
      <3>3. QED
        BY <1>1, <2>2, <2>3, <2>4, <3>2 DEF Reported, Idle
    <2>6. DiskTyped' /\ WorldTyped'
      BY <1>1, <2>2 DEF LifecycleInv, Typed, DiskTyped, WorldTyped
    <2>7. QED
      BY <1>2, <2>2, <2>3, <2>5, <2>6, IdleAgain DEF AllSuggestions
  <1>5. CASE run.cmd = "uninstall" /\ Proceed
    <2>1. run.at = 3 /\ run.at # Len(Stages(run.cmd))
      BY <1>1, <1>3, <1>5, UninstallStagesAre
    <2>2. /\ SameCommand /\ run'.at = 4 /\ world' = world
          /\ RunTyped' /\ Reported' /\ StopsAreReal'
      BY <1>5, <2>1, <1>1, Continues
    <2>3. /\ DiskTyped' /\ WorldTyped'
          /\ Resumes(run.cmd, run.release, run.codex, run.accepted)' /\ Written'
          /\ Evidence' = Evidence /\ StatusCodex' = StatusCodex
      BY <1>1, <1>5, <2>2, DiskStays
    <2>4. Evidence \in Permitted /\ disk.manifest # None
      BY <1>1, <1>5, EvidenceIs DEF Permits, Permitted
    <2>5. SetupProgress' /\ UpdateProgress' /\ StopProgress'
      BY <1>1, <1>5, <2>1, <2>2, <2>3, <2>4
      DEF LifecycleInv, SetupProgress, UpdateProgress, StopProgress, SameCommand, Stopping
    <2>6. QED
      BY <1>2, <2>2, <2>3, <2>5 DEF LifecycleInv, Typed
  <1>6. CASE StageFault
    <2>1. DiskTyped'
      BY <1>1 DEF LifecycleInv, Typed, DiskTyped
    <2>2. LeavesResumable'
      <3>1. Evidence' = Evidence
        BY <1>1 DEF Evidence
      <3>2. QED
        BY <1>1, <1>6, <3>1, FaultTells DEF LifecycleInv, LeavesResumable, Resumes
    <2>3. Final => StopsAreReal'
      <3>1. run.cmd = "disable" => run.at > 2
        BY <1>1, <1>3, DisableStagesAre
      <3>2. QED
        BY <1>1, <1>6, <3>1, FaultTells, DisableIsProvenAt DEF Final, At
    <2>4. QED
      BY <1>1, <1>2, <1>6, <2>1, <2>2, <2>3, FaultKeeps DEF Stopping
  <1>7. QED
    BY <1>1, <1>4, <1>5, <1>6 DEF Stopping, Concludes

LEMMA ReloadKeeps ==
  ASSUME LifecycleInv, Reload
  PROVE  LifecycleInv'
  <1>1. /\ run.cmd \in {"setup", "update"} /\ Stage = "reload" /\ Proceed
        /\ service' = Reloaded
        /\ UNCHANGED <<disk, descriptors>>
        /\ At("setup", "reload") \/ At("update", "reload")
    BY DEF Reload, AtAny, At
  <1>2. /\ run.at = IF run.cmd = "setup" THEN 9 ELSE 8
        /\ run.at # Len(Stages(run.cmd))
    <2>1. Typed
      BY DEF LifecycleInv
    <2>2. CASE run.cmd = "setup"
      BY <1>1, <2>1, <2>2, SetupStagesAre
    <2>3. CASE run.cmd = "update"
      BY <1>1, <2>1, <2>3, UpdateStagesAre
    <2>4. QED
      BY <1>1, <2>2, <2>3
  <1>3. /\ SameCommand /\ run'.at = run.at + 1 /\ world' = world
        /\ RunTyped' /\ Reported' /\ StopsAreReal'
    BY <1>1, <1>2, Continues
  <1>4. /\ DiskTyped' /\ WorldTyped'
        /\ Resumes(run.cmd, run.release, run.codex, run.accepted)' /\ Written'
        /\ Evidence' = Evidence /\ StatusCodex' = StatusCodex
    <2>1. descriptors' \subseteq Launchers
      BY <1>1 DEF LifecycleInv, Typed, DiskTyped
    <2>2. QED
      BY <1>1, <1>2, <1>3, <2>1, DiskStays
  <1>5. /\ disk.unit = run.codex /\ run.codex \in Codexes /\ run.codex # None
    BY <1>1, <1>2, InstallationAssumption
    DEF LifecycleInv, SetupProgress, UpdateProgress, Typed, RunTyped
  <1>6. /\ service'.enabled = service.enabled /\ service'.activity = service.activity
        /\ service'.socket = service.socket /\ service'.process = service.process
        /\ service'.loaded = disk.unit
        /\ ServiceTyped'
    BY <1>1, <1>5 DEF Reloaded, LifecycleInv, Typed, ServiceTyped
  <1>7. OneCodex' /\ InOrder'
    BY <1>1, ReloadLeaves
  <1>8. SetupProgress'
    BY <1>1, <1>2, <1>3, <1>4 DEF LifecycleInv, SetupProgress, SameCommand
  <1>9. UpdateProgress'
    BY <1>1, <1>2, <1>3, <1>4, <1>5, <1>6 DEF LifecycleInv, UpdateProgress, SameCommand
  <1>10. StopProgress'
    BY <1>1, <1>3 DEF StopProgress, SameCommand, Stopping
  <1>11. QED
    BY <1>3, <1>4, <1>6, <1>7, <1>8, <1>9, <1>10 DEF LifecycleInv, Typed

LEMMA ReloadFailsKeeps ==
  ASSUME LifecycleInv, ReloadFails
  PROVE  LifecycleInv'
  <1>1. /\ At("update", "reload") /\ run.cmd = "update" /\ StageFault
        /\ service' \in {service, Reloaded}
        /\ UNCHANGED <<disk, descriptors>>
    BY DEF ReloadFails, At
  <1>2. ServiceTyped' /\ OneCodex' /\ InOrder'
    BY <1>1, ReloadLeaves
  <1>3. DiskTyped'
    BY <1>1 DEF LifecycleInv, Typed, DiskTyped
  <1>4. LeavesResumable'
    <2>1. Evidence' = Evidence
      BY <1>1 DEF Evidence
    <2>2. QED
      BY <1>1, <2>1, FaultTells DEF LifecycleInv, LeavesResumable, Resumes
  <1>5. QED
    BY <1>1, <1>2, <1>3, <1>4, FaultKeeps DEF Final, At

\* `systemctl enable --now' starts the executable of the unit file, or leaves the one
\* that runs.
LEMMA EnableNowKeeps ==
  ASSUME LifecycleInv, EnableNow
  PROVE  LifecycleInv'
  <1>1. /\ run.cmd \in {"setup", "enable"} /\ Stage = "enable" /\ Proceed
        /\ service' = [Started(service) EXCEPT !.loaded = disk.unit]
        /\ UNCHANGED <<disk, descriptors>>
        /\ At("setup", "enable") \/ At("enable", "enable")
    BY DEF EnableNow, AtAny, At
  <1>2. /\ run.at = IF run.cmd = "setup" THEN 10 ELSE 2
        /\ run.at # Len(Stages(run.cmd))
    <2>1. Typed
      BY DEF LifecycleInv
    <2>2. CASE run.cmd = "setup"
      BY <1>1, <2>1, <2>2, SetupStagesAre
    <2>3. CASE run.cmd = "enable"
      BY <1>1, <2>1, <2>3, EnableStagesAre
    <2>4. QED
      BY <1>1, <2>2, <2>3
  <1>3. /\ SameCommand /\ run'.at = run.at + 1 /\ world' = world
        /\ RunTyped' /\ Reported' /\ StopsAreReal'
    BY <1>1, <1>2, Continues
  <1>4. /\ DiskTyped' /\ WorldTyped'
        /\ Resumes(run.cmd, run.release, run.codex, run.accepted)' /\ Written'
        /\ Evidence' = Evidence /\ StatusCodex' = StatusCodex
    <2>1. descriptors' \subseteq Launchers
      BY <1>1 DEF LifecycleInv, Typed, DiskTyped
    <2>2. QED
      BY <1>1, <1>2, <1>3, <2>1, DiskStays
  <1>5. /\ disk.unit \in Codexes /\ disk.unit # None
        /\ Evidence # "contradictory" /\ disk.unit = StatusCodex
    BY <1>1, UnitWritten
  <1>6. /\ service'.activity = "active" /\ service'.loaded = disk.unit
        /\ service'.process = IF service.activity = "active" THEN service.process
                              ELSE [codex |-> disk.unit, version |-> world.version[disk.unit]]
        /\ service' \in [enabled : BOOLEAN, activity : {"active", "inactive", "unproven"},
                         socket : BOOLEAN, loaded : Codexes \union {None},
                         process : [codex : Codexes \union {None}, version : Nat]]
    <2>1. world.version[disk.unit] \in Nat
      BY <1>5 DEF LifecycleInv, Typed, WorldTyped
    <2>2. QED
      BY <1>1, <1>5, <2>1 DEF LifecycleInv, Typed, ServiceTyped, Started
  <1>7. service'.process.codex = StatusCodex /\ ServiceTyped'
    BY <1>5, <1>6 DEF LifecycleInv, OneCodex, ServiceTyped
  <1>8. OneCodex' /\ InOrder'
    BY <1>1, <1>4, <1>5, <1>6, <1>7 DEF LifecycleInv, OneCodex, InOrder
  <1>9. SetupProgress' /\ UpdateProgress' /\ StopProgress'
    BY <1>1, <1>2, <1>3, <1>4
    DEF LifecycleInv, SetupProgress, UpdateProgress, StopProgress, SameCommand, Stopping
  <1>10. QED
    BY <1>3, <1>4, <1>7, <1>8, <1>9 DEF LifecycleInv, Typed

LEMMA VerifyKeeps ==
  ASSUME LifecycleInv, Verify
  PROVE  LifecycleInv'
  <1>1. /\ Proceed /\ UNCHANGED <<disk, descriptors, service>>
        /\ \/ run.cmd \in {"setup", "enable"} /\ Stage = "verify"
           \/ run.cmd \in Stopping /\ Stage = "verify_disabled" /\ VerifiedDisabled
           \/ run.cmd = "update" /\ Stage = "verify"
    BY DEF Verify, AtAny, At, Stopping
  <1>2. ServiceTyped' /\ OneCodex' /\ InOrder'
    BY <1>1, ServiceStays
  <1>3. Typed
    BY DEF LifecycleInv
  <1>4. CASE run.cmd = "enable"
    <2>1. run.at = Len(Stages(run.cmd))
      BY <1>1, <1>3, <1>4, EnableStagesAre DEF Stopping
    <2>2. run' = Idle /\ Tells("ok", "none") /\ world' = world
      BY <1>1, <2>1, Completes
    <2>3. report'.outcome = "ok" /\ report'.cmd = "enable" /\ report'.suggestion = "none"
      BY <1>4, <2>2 DEF Tells
    <2>4. /\ disk.manifest # None
          /\ disk.config = disk.manifest.codex /\ disk.unit = disk.manifest.codex
      BY <1>4, EvidenceIs DEF LifecycleInv, Resumes
    <2>5. Reported' /\ StopsAreReal'
      BY <1>1, <2>2, <2>3, <2>4
      DEF Reported, StopsAreReal, UninstallLeavesNothing, DisableIsTrue, Idle
    <2>6. DiskTyped' /\ WorldTyped'
      BY <1>1, <2>2 DEF LifecycleInv, Typed, DiskTyped, WorldTyped
    <2>7. QED
      BY <1>2, <2>2, <2>3, <2>5, <2>6, IdleAgain DEF AllSuggestions
  <1>5. CASE run.cmd # "enable"
    <2>1. /\ run.cmd = "setup" => run.at = 11
          /\ run.cmd = "update" => run.at = 10
          /\ run.cmd \in Stopping => run.at = 2
          /\ run.at # Len(Stages(run.cmd))
      <3>1. CASE run.cmd = "setup"
        BY <1>1, <1>3, <3>1, SetupStagesAre DEF Stopping
      <3>2. CASE run.cmd = "update"
        BY <1>1, <1>3, <3>2, UpdateStagesAre DEF Stopping
      <3>3. CASE run.cmd = "disable"
        BY <1>1, <1>3, <3>3, DisableStagesAre
      <3>4. CASE run.cmd = "uninstall"
        BY <1>1, <1>3, <3>4, UninstallStagesAre
      <3>5. QED
        BY <1>1, <1>5, <3>1, <3>2, <3>3, <3>4 DEF Stopping
    <2>2. run.cmd # "none"
      BY <1>1 DEF Stopping
    <2>3. /\ SameCommand /\ run'.at = run.at + 1 /\ world' = world
          /\ RunTyped' /\ Reported' /\ StopsAreReal'
      BY <1>1, <2>1, <2>2, Continues
    <2>4. /\ DiskTyped' /\ WorldTyped'
          /\ Resumes(run.cmd, run.release, run.codex, run.accepted)' /\ Written'
          /\ Evidence' = Evidence /\ StatusCodex' = StatusCodex
      <3>1. descriptors' \subseteq Launchers
        BY <1>1 DEF LifecycleInv, Typed, DiskTyped
      <3>2. QED
        BY <1>1, <2>1, <2>3, <3>1, DiskStays
    <2>5. SetupProgress' /\ UpdateProgress'
      BY <1>1, <2>1, <2>3, <2>4 DEF LifecycleInv, SetupProgress, UpdateProgress, SameCommand
    <2>6. StopProgress'
      <3>1. run.cmd \in Stopping =>
              ~ service.enabled /\ service.activity = "inactive" /\ ~ service.socket
        BY <1>1 DEF VerifiedDisabled, Enablement, Stopping
      <3>2. QED
        BY <1>1, <2>1, <2>3, <3>1 DEF StopProgress, SameCommand, Stopping
    <2>7. QED
      BY <1>2, <2>3, <2>4, <2>5, <2>6 DEF LifecycleInv, Typed
  <1>6. QED
    BY <1>4, <1>5

\* What service-apply finds.
LEMMA ApplyFinds ==
  ASSUME LifecycleInv, run.cmd = "update", run.at = 9
  PROVE  /\ run.codex \in Codexes /\ run.codex # None
         /\ disk.config = run.codex /\ disk.unit = run.codex /\ service.loaded = run.codex
         /\ StatusCodex = run.codex
         /\ ~ run.active => service.activity = "inactive"
         /\ run.active => run.enabled
         /\ run.active /\ ~ run.restart => run.codex = disk.manifest.codex
  <1>1. run.codex \in Codexes /\ run.codex # None
    BY InstallationAssumption DEF LifecycleInv, Typed, RunTyped
  <1>2. disk.config = run.codex
    BY DEF LifecycleInv, Written
  <1>3. QED
    BY <1>1, <1>2 DEF LifecycleInv, UpdateProgress, StatusCodex

\* What it makes of the service: the new executable runs, or the old one is the same.
LEMMA AppliedIs ==
  ASSUME LifecycleInv, run.cmd = "update", run.at = 9
  PROVE  /\ Applied \in [enabled : BOOLEAN, activity : {"active", "inactive", "unproven"},
                         socket : BOOLEAN, loaded : Codexes \union {None},
                         process : [codex : Codexes \union {None}, version : Nat]]
         /\ Applied.activity = "active" <=> Applied.process.codex \in Codexes
         /\ Applied.loaded = run.codex
         /\ Applied.activity = "active" =>
              \/ Applied.process.codex = run.codex
              \/ Applied = service /\ run.active /\ ~ run.restart
  <1>1. /\ run.codex \in Codexes /\ run.codex # None
        /\ disk.unit = run.codex /\ service.loaded = run.codex
        /\ ~ run.active => service.activity = "inactive"
        /\ run.active => run.enabled
    BY ApplyFinds
  <1>2. world.version[run.codex] \in Nat
    BY <1>1 DEF LifecycleInv, Typed, WorldTyped
  <1>3. CASE run.enabled /\ run.active /\ run.restart
    <2>1. Applied = [Started(Stopped(service)) EXCEPT !.enabled = service.enabled,
                        !.process = [codex |-> service.loaded,
                                     version |-> world.version[service.loaded]]]
      BY <1>3 DEF Applied
    <2>2. QED
      BY <1>1, <1>2, <2>1 DEF Started, Stopped, LifecycleInv, Typed, ServiceTyped
  <1>4. CASE run.enabled /\ ~ run.active
    <2>1. Applied = [Started(service) EXCEPT !.loaded = disk.unit]
      BY <1>4 DEF Applied
    <2>2. QED
      BY <1>1, <1>2, <1>4, <2>1 DEF Started, LifecycleInv, Typed, ServiceTyped
  <1>5. CASE ~ (run.enabled /\ run.active /\ run.restart) /\ ~ (run.enabled /\ ~ run.active)
    <2>1. Applied = service
      BY <1>5 DEF Applied
    <2>2. service.activity = "active" => run.active /\ ~ run.restart
      BY <1>1, <1>5
    <2>3. QED
      BY <1>1, <2>1, <2>2 DEF LifecycleInv, Typed, ServiceTyped
  <1>6. QED
    BY <1>3, <1>4, <1>5

LEMMA ApplyKeeps ==
  ASSUME LifecycleInv, Apply
  PROVE  LifecycleInv'
  <1>1. /\ run.cmd = "update" /\ Stage = "apply" /\ Proceed
        /\ UNCHANGED <<disk, descriptors>>
    BY DEF Apply, At
  <1>2. run.at = 9 /\ run.at # Len(Stages(run.cmd))
    BY <1>1, UpdateStagesAre DEF LifecycleInv
  <1>3. /\ SameCommand /\ run'.at = 10 /\ world' = world
        /\ RunTyped' /\ Reported' /\ StopsAreReal'
    BY <1>1, <1>2, Continues
  <1>4. /\ DiskTyped' /\ WorldTyped'
        /\ Resumes(run.cmd, run.release, run.codex, run.accepted)' /\ Written'
        /\ Evidence' = Evidence /\ StatusCodex' = StatusCodex
    <2>1. descriptors' \subseteq Launchers
      BY <1>1 DEF LifecycleInv, Typed, DiskTyped
    <2>2. QED
      BY <1>1, <1>2, <1>3, <2>1, DiskStays
  <1>5. /\ run.codex \in Codexes /\ run.codex # None
        /\ disk.config = run.codex /\ disk.unit = run.codex /\ service.loaded = run.codex
        /\ StatusCodex = run.codex
        /\ ~ run.active => service.activity = "inactive"
        /\ run.active => run.enabled
        /\ run.active /\ ~ run.restart => run.codex = disk.manifest.codex
    BY <1>1, <1>2, ApplyFinds
  <1>6. service' = Applied
    BY DEF Apply
  <1>7. /\ ServiceTyped' /\ service'.loaded = run.codex
        /\ service'.activity = "active" =>
             \/ service'.process.codex = run.codex
             \/ service' = service /\ run.active /\ ~ run.restart
    BY <1>1, <1>2, <1>6, AppliedIs DEF ServiceTyped
  <1>8. OneCodex'
    BY <1>1, <1>4, <1>5, <1>7 DEF LifecycleInv, OneCodex
  <1>9. InOrder'
    BY <1>1, <1>4, <1>5, <1>7 DEF LifecycleInv, InOrder
  <1>10. service'.activity = "active" => service'.process.codex = run.codex
    <2>1. ASSUME service'.activity = "active", service' = service, run.active, ~ run.restart
          PROVE service.process.codex = run.codex
      <3>1. Evidence # "contradictory"
        BY <1>5, <2>1, EvidenceIs
      <3>2. QED
        BY <1>5, <2>1, <3>1 DEF LifecycleInv, OneCodex
    <2>2. QED
      BY <1>7, <2>1
  <1>11. UpdateProgress'
    BY <1>1, <1>2, <1>3, <1>4, <1>5, <1>7, <1>10 DEF UpdateProgress, SameCommand
  <1>12. SetupProgress' /\ StopProgress'
    BY <1>1, <1>3 DEF SetupProgress, StopProgress, SameCommand, Stopping
  <1>13. QED
    BY <1>3, <1>4, <1>7, <1>8, <1>9, <1>11, <1>12 DEF LifecycleInv, Typed

\* The service is left alone, stopped, or failed with the new executable.
LEMMA ApplyFailsKeeps ==
  ASSUME LifecycleInv, ApplyFails
  PROVE  LifecycleInv'
  <1>1. /\ run.cmd = "update" /\ Stage = "apply" /\ StageFault
        /\ UNCHANGED <<disk, descriptors>>
    BY DEF ApplyFails, At
  <1>2. run.at = 9
    BY <1>1, UpdateStagesAre DEF LifecycleInv
  <1>3. /\ run.codex \in Codexes /\ run.codex # None /\ disk.unit = run.codex
        /\ service.loaded = run.codex /\ StatusCodex = run.codex
    BY <1>1, <1>2, ApplyFinds
  <1>4. /\ NoProcess \in [codex : Codexes \union {None}, version : Nat]
        /\ NoProcess.codex \notin Codexes
    BY InstallationAssumption DEF NoProcess
  <1>5. Evidence' = Evidence /\ StatusCodex' = StatusCodex
    BY <1>1 DEF Evidence, StatusCodex
  <1>6. ServiceTyped' /\ OneCodex' /\ InOrder'
    <2>1. CASE service' = service
      BY <1>1, <2>1, ServiceStays
    <2>2. CASE service' = Stopped(service)
      <3>1. /\ service'.activity = "inactive" /\ service'.loaded = run.codex
            /\ ServiceTyped'
        BY <1>3, <1>4, <2>2 DEF Stopped, LifecycleInv, Typed, ServiceTyped
      <3>2. QED
        BY <1>1, <1>3, <1>5, <3>1 DEF LifecycleInv, OneCodex, InOrder
    <2>3. ASSUME NEW socket \in BOOLEAN, service' = Failed(Applied, socket)
          PROVE  ServiceTyped' /\ OneCodex' /\ InOrder'
      <3>1. /\ service'.activity = "unproven" /\ service'.loaded = run.codex
            /\ ServiceTyped'
        BY <1>1, <1>2, <1>4, <2>3, AppliedIs DEF Failed, ServiceTyped
      <3>2. QED
        BY <1>1, <1>3, <1>5, <3>1 DEF LifecycleInv, OneCodex, InOrder
    <2>4. QED
      BY <2>1, <2>2, <2>3 DEF ApplyFails
  <1>7. DiskTyped'
    BY <1>1 DEF LifecycleInv, Typed, DiskTyped
  <1>8. LeavesResumable'
    BY <1>1, <1>5, FaultTells DEF LifecycleInv, LeavesResumable, Resumes
  <1>9. QED
    BY <1>1, <1>6, <1>7, <1>8, FaultKeeps DEF Final, At

\* The service stops and is disabled, or has failed and only is disabled.
LEMMA DisableNowKeeps ==
  ASSUME LifecycleInv, DisableNow \/ SocketStays
  PROVE  LifecycleInv'
  <1>1. /\ run.cmd \in Stopping /\ Stage = "disable" /\ disk.unit # None
        /\ UNCHANGED <<disk, descriptors>>
    BY DEF DisableNow, SocketStays, AtAny, At, Stopping
  <1>2. Typed
    BY DEF LifecycleInv
  <1>3. run.at = 1 /\ run.at # Len(Stages(run.cmd)) /\ run.cmd # "none"
    <2>1. CASE run.cmd = "disable"
      BY <1>1, <1>2, <2>1, DisableStagesAre
    <2>2. CASE run.cmd = "uninstall"
      BY <1>1, <1>2, <2>2, UninstallStagesAre
    <2>3. QED
      BY <1>1, <2>1, <2>2 DEF Stopping
  <1>4. /\ SameCommand /\ run'.at = 2 /\ world' = world
        /\ RunTyped' /\ Reported' /\ StopsAreReal'
    <2>1. CASE DisableNow
      BY <1>3, <2>1, Continues DEF DisableNow
    <2>2. CASE SocketStays
      <3>1. run.at + 1 \in 1 .. Len(Stages(run.cmd)) /\ run.at + 1 = 2
        <4>1. Len(Stages(run.cmd)) \in Nat /\ run.at \in 1 .. Len(Stages(run.cmd))
          BY <1>2, <1>3, LengthsAre
        <4>2. \A l \in Nat : 1 \in 1 .. l /\ 1 # l => 2 \in 1 .. l
          OBVIOUS
        <4>3. 2 \in 1 .. Len(Stages(run.cmd))
          BY <1>3, <4>1, <4>2
        <4>4. QED
          BY <1>3, <4>3
      <3>2. QED
        BY <1>3, <2>2, <3>1, GoesOn DEF SocketStays
    <2>3. QED
      BY <2>1, <2>2
  <1>5. /\ DiskTyped' /\ WorldTyped'
        /\ Resumes(run.cmd, run.release, run.codex, run.accepted)' /\ Written'
        /\ Evidence' = Evidence /\ StatusCodex' = StatusCodex
    <2>1. descriptors' \subseteq Launchers /\ run.cmd \notin {"setup", "update"}
      BY <1>1 DEF LifecycleInv, Typed, DiskTyped, Stopping
    <2>2. QED
      BY <1>1, <1>4, <2>1, DiskStays
  <1>6. /\ service'.loaded = service.loaded
        /\ \/ service'.activity = "inactive"
           \/ service'.activity = service.activity /\ service'.process = service.process
        /\ ServiceTyped'
    <2>1. NoProcess \in [codex : Codexes \union {None}, version : Nat]
          /\ NoProcess.codex \notin Codexes
      BY InstallationAssumption DEF NoProcess
    <2>2. CASE service' = [service EXCEPT !.enabled = FALSE]
      BY <2>2 DEF LifecycleInv, Typed, ServiceTyped
    <2>3. CASE service' = [Stopped(service) EXCEPT !.enabled = FALSE]
      BY <2>1, <2>3 DEF Stopped, LifecycleInv, Typed, ServiceTyped
    <2>4. CASE service' = [Stopped(service) EXCEPT !.enabled = FALSE, !.socket = TRUE]
      BY <2>1, <2>4 DEF Stopped, LifecycleInv, Typed, ServiceTyped
    <2>5. QED
      BY <2>2, <2>3, <2>4 DEF DisableNow, SocketStays
  <1>7. StatusCodex # None
    BY <1>1, NothingNamed
  <1>8. OneCodex' /\ InOrder'
    BY <1>1, <1>5, <1>6, <1>7 DEF LifecycleInv, OneCodex, InOrder
  <1>9. SetupProgress' /\ UpdateProgress' /\ StopProgress'
    BY <1>1, <1>4 DEF SetupProgress, UpdateProgress, StopProgress, SameCommand, Stopping
  <1>10. QED
    BY <1>4, <1>5, <1>6, <1>8, <1>9 DEF LifecycleInv, Typed

LEMMA DisableUnneededKeeps ==
  ASSUME LifecycleInv, DisableUnneeded
  PROVE  LifecycleInv'
  <1>1. /\ run.cmd = "uninstall" /\ Stage = "disable" /\ disk.unit = None
        /\ service.activity = "inactive" /\ ~ service.socket
        /\ run' = [run EXCEPT !.at = run.at + 2]
        /\ UNCHANGED <<disk, descriptors, service, world, report>>
    BY DEF DisableUnneeded, At
  <1>2. run.at = 1 /\ 3 \in 1 .. Len(Stages(run.cmd)) /\ run.at + 2 = 3
    <2>1. run.at = 1 /\ Len(Stages(run.cmd)) = 10
      BY <1>1, UninstallStagesAre DEF LifecycleInv
    <2>2. 3 \in 1 .. 10
      OBVIOUS
    <2>3. QED
      BY <2>1, <2>2
  <1>3. /\ SameCommand /\ run'.at = 3
        /\ RunTyped' /\ Reported' /\ StopsAreReal'
    BY <1>1, <1>2, GoesOn
  <1>4. /\ DiskTyped' /\ WorldTyped'
        /\ Resumes(run.cmd, run.release, run.codex, run.accepted)' /\ Written'
        /\ Evidence' = Evidence /\ StatusCodex' = StatusCodex
    <2>1. descriptors' \subseteq Launchers /\ run.cmd \notin {"setup", "update"}
      BY <1>1 DEF LifecycleInv, Typed, DiskTyped
    <2>2. QED
      BY <1>1, <1>3, <2>1, DiskStays
  <1>5. ServiceTyped' /\ OneCodex' /\ InOrder'
    BY <1>1, ServiceStays
  <1>6. ~ service.enabled
    BY <1>1 DEF LifecycleInv, InOrder
  <1>7. SetupProgress' /\ UpdateProgress' /\ StopProgress'
    BY <1>1, <1>3, <1>6 DEF SetupProgress, UpdateProgress, StopProgress, SameCommand, Stopping
  <1>8. QED
    BY <1>3, <1>4, <1>5, <1>7 DEF LifecycleInv, Typed

-----------------------------------------------------------------------------
(* The invariant.                                                          *)

LEMMA LifecycleInvInit ==
  ASSUME Init
  PROVE  LifecycleInv
  <1>1. /\ disk.config = None /\ disk.unit = None /\ disk.manifest = None
        /\ \A a \in Artifacts : disk.artifacts[a] = 0
        /\ service.loaded = None /\ service.activity = "inactive" /\ ~ service.socket
        /\ ~ service.enabled /\ service.process = NoProcess
        /\ run = Idle /\ report.outcome = "none" /\ report.suggestion = "none"
    BY DEF Init
  <1>2. 1 \in Releases
    BY InstallationAssumption DEF Releases
  <1>3. DiskTyped
    BY DEF Init, DiskTyped
  <1>4. ServiceTyped
    <2>1. NoProcess \in [codex : Codexes \union {None}, version : Nat]
          /\ NoProcess.codex \notin Codexes
      BY InstallationAssumption DEF NoProcess
    <2>2. QED
      BY <2>1 DEF Init, ServiceTyped
  <1>5. WorldTyped
    BY DEF Init, WorldTyped
  <1>6. RunTyped
    <2>1. Len(Stages("none")) = 1
      BY DEF Stages
    <2>2. Idle \in [cmd : Commands \union {"none"}, at : Nat, release : Releases,
                     codex : Codexes \union {None}, version : Nat,
                     target : Launchers \union {None}, previous : Launchers \union {None},
                     changed : BOOLEAN, enabled : BOOLEAN, active : BOOLEAN,
                     restart : BOOLEAN, accepted : BOOLEAN]
      BY <1>2 DEF Idle
    <2>3. /\ Idle.cmd = "none" /\ Idle.at \in 1 .. Len(Stages(Idle.cmd))
          /\ "none" \in AllSuggestions
      BY <2>1 DEF Idle, AllSuggestions
    <2>4. QED
      BY <1>1, <2>2, <2>3 DEF RunTyped
  <1>7. OneCodex /\ InOrder
    BY <1>1 DEF OneCodex, InOrder, Artifacts
  <1>8. /\ Resumes(run.cmd, run.release, run.codex, run.accepted)
        /\ Written /\ SetupProgress /\ UpdateProgress /\ StopProgress
    BY <1>1 DEF Idle, Resumes, Written, SetupProgress, UpdateProgress, StopProgress, Stopping
  <1>9. Reported /\ StopsAreReal
    BY <1>1 DEF Reported, StopsAreReal, UninstallLeavesNothing, DisableIsTrue, Idle
  <1>10. QED
    BY <1>3, <1>4, <1>5, <1>6, <1>7, <1>8, <1>9 DEF LifecycleInv, Typed

LEMMA LifecycleInvStep ==
  ASSUME LifecycleInv, [Next]_vars
  PROVE  LifecycleInv'
  <1>1. CASE Begins
    BY <1>1, BeginsKeep
  <1>2. CASE FileStages
    BY <1>2, WriteArtifactKeeps, PluginLostKeeps, RemoveArtifactKeeps, WriteConfigurationKeeps,
       RemoveConfigurationKeeps, WriteUnitKeeps, RemoveUnitKeeps, RemoveUnitFailsKeeps,
       WriteManifestKeeps, RemoveManifestKeeps, DataRootStaysKeeps
    DEF FileStages
  <1>3. CASE DescriptorStages
    BY <1>3, PublishDescriptorKeeps, SwitchDescriptorKeeps, RemoveDescriptorKeeps,
       NoDescriptorIdentityKeeps, FailuresKeep
    DEF DescriptorStages
  <1>4. CASE ServiceStages
    BY <1>4, ReloadKeeps, ReloadFailsKeeps, EnableNowKeeps, StartFailsKeeps, VerifyKeeps,
        VerifyFailsKeeps,
       ApplyKeeps, ApplyFailsKeeps, DisableNowKeeps, DisableUnneededKeeps, FailuresKeep
    DEF ServiceStages
  <1>5. CASE StageFails \/ Killed
    BY <1>5, StageFailsKeeps, FailuresKeep
  <1>6. CASE Surroundings
    BY <1>6, SurroundingsKeep
  <1>7. CASE UNCHANGED vars
    <2>1. /\ UNCHANGED <<disk, descriptors, service, run, report>> /\ WorldTyped'
      BY <1>7 DEF vars, LifecycleInv, Typed, WorldTyped
    <2>2. QED
      BY <2>1, OnlyTheWorld
  <1>8. QED
    BY <1>1, <1>2, <1>3, <1>4, <1>5, <1>6, <1>7 DEF Next

\* The invariant that the theorems below rest on: what the files on disk, the service
\* and the command in progress owe to each other, at every stage of every command.
THEOREM LifecycleInvariant == Spec => []LifecycleInv
  <1>1. Init => LifecycleInv
    BY LifecycleInvInit
  <1>2. LifecycleInv /\ [Next]_vars => LifecycleInv'
    BY LifecycleInvStep
  <1>3. QED
    BY <1>1, <1>2, PTL DEF Spec

-----------------------------------------------------------------------------
(* What follows of it.                                                     *)

\* Every variable has its type, a command is at one of its stages, and a service is
\* active exactly while its process runs.
THEOREM LifecycleTyping == Spec => []LifecycleTypeOK
  <1>1. LifecycleInv => LifecycleTypeOK
    BY DEF LifecycleInv, Typed, DiskTyped, ServiceTyped, RunTyped, LifecycleTypeOK
  <1>2. QED
    BY <1>1, LifecycleInvariant, PTL

\* A setup, enable or update that reports success leaves manifest, configuration, unit
\* and running service with one Codex executable.
THEOREM SuccessIsDeployed == Spec => []Deployed
  <1>1. LifecycleInv => Deployed
    <2>1. SUFFICES ASSUME LifecycleInv, report.outcome \in {"ok", "current"},
                          report.cmd \in {"setup", "enable", "update"}
                   PROVE  /\ disk.manifest # None
                          /\ disk.config = disk.manifest.codex
                          /\ disk.unit = disk.manifest.codex
                          /\ service.activity = "active" =>
                               service.process.codex = disk.manifest.codex
      BY DEF Deployed
    <2>2. /\ disk.manifest # None
          /\ disk.config = disk.manifest.codex /\ disk.unit = disk.manifest.codex
      BY <2>1 DEF LifecycleInv, Reported
    <2>3. Evidence # "contradictory" /\ StatusCodex = disk.manifest.codex
      BY <2>1, <2>2, EvidenceIs, ManifestFields DEF StatusCodex
    <2>4. QED
      BY <2>1, <2>2, <2>3 DEF LifecycleInv, OneCodex
  <1>2. QED
    BY <1>1, LifecycleInvariant, PTL

\* An uninstall that reports success leaves nothing installed and nothing running, and
\* one that says not to run it again at most the binary.
THEOREM UninstallIsComplete == Spec => []UninstallLeavesNothing
  <1>1. LifecycleInv => UninstallLeavesNothing
    BY DEF LifecycleInv, StopsAreReal
  <1>2. QED
    BY <1>1, LifecycleInvariant, PTL

\* A disable that says that the service is stopped is right, also one that then fails.
THEOREM DisableIsProven == Spec => []DisableIsTrue
  <1>1. LifecycleInv => DisableIsTrue
    BY DEF LifecycleInv, StopsAreReal
  <1>2. QED
    BY <1>1, LifecycleInvariant, PTL

\* A command that a failed stage or a kill cut short is accepted when it is run again,
\* whatever happened to the service, to PATH and to the Codex executables meanwhile.
THEOREM InterruptionIsResumable == Spec => []InterruptedMayResume
  <1>1. LifecycleInv => InterruptedMayResume
    <2>1. SUFFICES ASSUME LifecycleInv, report.outcome \in {"failed", "killed"},
                          report.accepted,
                          report.cmd = "update" => report.codex = disk.manifest.codex,
                          report.cmd = "uninstall" => disk.manifest # None
                   PROVE  Accepts(report.cmd, report.release)
      BY DEF InterruptedMayResume
    <2>2. /\ report.cmd \in Commands
          /\ Resumes(report.cmd, report.release, report.codex, report.accepted)
      BY <2>1 DEF LifecycleInv, Reported
    <2>3. CASE report.cmd = "setup"
      <3>1. Evidence # "contradictory"
        BY <2>2, <2>3 DEF Resumes
      <3>2. disk.manifest = None => disk.unit \in {None, SetupCodex}
        BY <2>1, <3>1 DEF LifecycleInv, OneCodex, StatusCodex, SetupCodex
      <3>3. SetupMatches(report.release)
        BY <2>2, <2>3, <3>2 DEF Resumes, SetupMatches
      <3>4. QED
        BY <2>3, <3>1, <3>3 DEF Accepts, Permits
    <2>4. CASE report.cmd = "enable"
      BY <2>2, <2>4 DEF Resumes, Accepts, Permits
    <2>5. CASE report.cmd = "update"
      BY <2>1, <2>2, <2>5 DEF Resumes, Accepts, Permits, Permitted
    <2>6. CASE report.cmd \in Stopping
      BY <2>1, <2>2, <2>6 DEF Resumes, Accepts, Permits, Permitted, Stopping
    <2>7. QED
      BY <2>2, <2>3, <2>4, <2>5, <2>6 DEF Commands, Stopping
  <1>2. QED
    BY <1>1, LifecycleInvariant, PTL

\* After a setup or an update that reports success, a report of the same release has
\* nothing to object to on disk.
THEOREM SuccessIsFaultless == Spec => []AppliedIsFaultless
  <1>1. LifecycleInv => AppliedIsFaultless
    <2>1. SUFFICES ASSUME LifecycleInv, report.outcome = "ok",
                          report.cmd \in {"setup", "update"}
                   PROVE  Problems(report.release, {})
                            \subseteq ServiceProblems({}) \union AppServerProblems({})
                                      \union DesktopProblems({})
      BY DEF AppliedIsFaultless
    <2>2. /\ disk.manifest # None
          /\ disk.config = disk.manifest.codex /\ disk.unit = disk.manifest.codex
          /\ disk.manifest.release = report.release
          /\ \A a \in Artifacts : disk.artifacts[a] = report.release
      BY <2>1 DEF LifecycleInv, Reported
    <2>3. /\ disk.config # None /\ Evidence = "coherent" /\ report.release # 0
      BY <2>1, <2>2, ManifestFields, EvidenceIs DEF Releases
    <2>4. ~ InstalledFault(report.release)
      BY <2>2, <2>3 DEF InstalledFault, Artifacts
    <2>5. Projection = "ready" /\ NativeRegistration({}) = "ready"
      BY <2>2, <2>3 DEF Projection, NativeRegistration, Artifacts
    <2>6. QED
      BY <2>4, <2>5 DEF Problems
  <1>2. QED
    BY <1>1, LifecycleInvariant, PTL

\* Without problems, an installation that is not disabled is enabled, active and answers.
LEMMA NoProblemsNotDisabled ==
  ASSUME NEW program, NEW missed, Problems(program, missed) = {},
         Evidence # "first_install", ~ Disabled(missed)
  PROVE  /\ Enabled(missed) = "yes" /\ Active(missed) = "yes" /\ service.socket
         /\ AppServerHealth(missed) = "healthy"
         /\ Projection = "ready" /\ NativeRegistration(missed) = "ready"
         /\ Attached => Descriptor(missed) = "expected"
  <1>1. /\ Enabled(missed) \in {"unknown", "yes", "no"}
        /\ Active(missed) \in {"unknown", "yes", "no"}
        /\ AppServerHealth(missed) \in {"unverified", "healthy", "unhealthy"}
        /\ Descriptor(missed) \in {"unverified", "expected", "not_ready"}
        /\ Projection \in {"could_not_verify", "ready", "fault"}
        /\ NativeRegistration(missed) \in {"could_not_verify", "ready", "fault"}
    BY DEF Enabled, Active, AppServerHealth, Descriptor, Projection, NativeRegistration
  <1>2. Enabled(missed) = "yes" /\ Active(missed) = "yes" /\ service.socket
    BY <1>1, NoProblems DEF Disabled
  <1>3. /\ disk.manifest # None /\ disk.config # None /\ StatusCodex # None
        /\ "version" \notin missed
    <2>1. disk.manifest # None /\ disk.config # None
      BY NoProblems, NoInstalledFault
    <2>2. StatusCodex # None
      BY <2>1 DEF StatusCodex
    <2>3. QED
      BY <2>1, <2>2, NoProblems
  <1>4. AppServerHealth(missed) = "healthy"
    BY <1>2, <1>3, NoProblems DEF AppServerHealth
  <1>5. Projection = "ready" /\ NativeRegistration(missed) = "ready"
    BY <1>1, <1>3, NoProblems DEF NativeRegistration
  <1>6. Attached => Descriptor(missed) = "expected"
    BY <1>1, <1>2, NoProblems
  <1>7. QED
    BY <1>2, <1>4, <1>5, <1>6

\* A report that reads "healthy" is true of what it does not look at.
THEOREM HealthyReportIsTrue == Spec => []HealthyIsReal
  <1>1. LifecycleInv => HealthyIsReal
    <2>1. SUFFICES ASSUME LifecycleInv, NEW program \in Releases,
                          StatusState(program, {}) = "healthy"
                   PROVE  /\ disk.manifest # None
                          /\ service.process.codex = disk.manifest.codex
                          /\ service.loaded = disk.manifest.codex
                          /\ disk.artifacts["marketplace"] # 0
                          /\ Attached => DesktopIntegration({}) = "ready"
                          /\ \A cmd \in Commands : Accepts(cmd, program)
      BY DEF HealthyIsReal
    <2>2. /\ Problems(program, {}) = {} /\ Evidence # "first_install"
          /\ ~ Disabled({}) /\ ~ InstalledFault(program)
      BY <2>1, HealthyFacts, NoProblems
    <2>3. /\ disk.manifest # None /\ disk.config = disk.manifest.codex
          /\ disk.config # None /\ disk.unit = disk.manifest.codex
          /\ disk.manifest.release = program
          /\ Evidence = "coherent" /\ StatusCodex = disk.manifest.codex
      BY <2>2, NoInstalledFault
    <2>4. /\ Enabled({}) = "yes" /\ Active({}) = "yes" /\ service.socket
          /\ AppServerHealth({}) = "healthy" /\ NativeRegistration({}) = "ready"
          /\ Attached => Descriptor({}) = "expected"
      BY <2>2, NoProblemsNotDisabled
    <2>5. service.activity = "active"
      BY <2>4 DEF Active
    <2>6. service.process.codex = disk.manifest.codex /\ service.loaded = disk.manifest.codex
      BY <2>1, <2>3, <2>5 DEF LifecycleInv, OneCodex
    <2>7. disk.artifacts["marketplace"] # 0
      <3>1. disk.artifacts["plugin"] = program /\ program # 0
        BY <2>1, <2>3, <2>4 DEF NativeRegistration, Releases
      <3>2. QED
        BY <2>1, <3>1 DEF LifecycleInv, InOrder
    <2>8. Attached => DesktopIntegration({}) = "ready"
      BY <2>4 DEF DesktopIntegration
    <2>9. ASSUME NEW cmd \in Commands PROVE Accepts(cmd, program)
      <3>1. program >= disk.manifest.release
        BY <2>1, <2>3 DEF Releases
      <3>2. QED
        BY <2>3, <3>1 DEF Accepts, Permits, SetupMatches, Commands
    <2>10. QED
      BY <2>3, <2>6, <2>7, <2>8, <2>9
  <1>2. QED
    BY <1>1, LifecycleInvariant, PTL

\* A report that reads "unhealthy" names a problem, whichever questions got no answer
\* and whatever the state of the installation.
THEOREM UnhealthyHasProblem ==
  ASSUME NEW program, NEW missed, Problems(program, missed) = {}
  PROVE  StatusState(program, missed) # "unhealthy"
  <1>1. CASE Evidence = "first_install" \/ Disabled(missed)
    BY <1>1 DEF StatusState
  <1>2. CASE Evidence # "first_install" /\ ~ Disabled(missed)
    <2>1. /\ Enabled(missed) = "yes" /\ Active(missed) = "yes"
          /\ AppServerHealth(missed) = "healthy"
          /\ Projection = "ready" /\ NativeRegistration(missed) = "ready"
      BY <1>2, NoProblemsNotDisabled
    <2>2. CliIntegration(missed) = "ready"
      BY <1>2, <2>1 DEF CliIntegration, SharedFault, SharedUnverified
    <2>3. QED
      BY <1>2, <2>2 DEF StatusState
  <1>3. QED
    BY <1>1, <1>2

\* The report advises only commands that are accepted, calls nothing "not installed"
\* that has something running, and names a problem whenever it reads "unhealthy".
THEOREM AdviceIsAccepted == Spec => []StatusAdviceHolds
  <1>1. LifecycleInv => StatusAdviceHolds
    <2>1. SUFFICES ASSUME LifecycleInv PROVE StatusAdviceHolds
      OBVIOUS
    <2>2. ASSUME NEW program \in Releases, StatusAdvice(program, {}) \in Commands
          PROVE  Accepts(StatusAdvice(program, {}), program)
      <3>1. StatusState(program, {}) \in {"not_installed", "disabled", "healthy", "unhealthy"}
        BY DEF StatusState
      <3>2. CASE StatusState(program, {}) = "not_installed"
        <4>1. Evidence = "first_install" /\ StatusAdvice(program, {}) = "setup"
          BY <3>2 DEF StatusState, StatusAdvice
        <4>2. /\ disk.manifest = None /\ disk.unit = None
              /\ \A a \in Artifacts : disk.artifacts[a] = 0
          BY <4>1 DEF Evidence
        <4>3. QED
          BY <4>1, <4>2 DEF Accepts, Permits, SetupMatches
      <3>3. CASE StatusState(program, {}) = "disabled"
        <4>1. /\ Evidence # "first_install" /\ Problems(program, {}) = {}
              /\ StatusAdvice(program, {}) = "enable"
          BY <3>3 DEF StatusState, StatusAdvice
        <4>2. Evidence = "coherent" /\ disk.unit = disk.config
          BY <4>1, NoProblems, NoInstalledFault
        <4>3. QED
          BY <4>1, <4>2 DEF Accepts, Permits
      <3>4. CASE StatusState(program, {}) \in {"healthy", "unhealthy"}
        BY <2>2, <3>4 DEF StatusAdvice, Commands
      <3>5. QED
        BY <3>1, <3>2, <3>3, <3>4
    <2>3. Evidence = "first_install" => service.activity = "inactive" /\ ~ service.socket
      <3>1. Evidence = "first_install" => StatusCodex = None
        BY DEF Evidence, StatusCodex
      <3>2. QED
        BY <2>1, <3>1, NothingNamed
    <2>4. QED
      BY <2>2, <2>3, UnhealthyHasProblem DEF StatusAdviceHolds
  <1>2. QED
    BY <1>1, LifecycleInvariant, PTL

\* A descriptor that Desktop clients follow to the socket goes only when the service is
\* proven stopped, or when setup leaves another one.
THEOREM DescriptorsGoLast == Spec => DescriptorOutlivesService
  <1> DEFINE Allowed(launcher) ==
        \/ service.activity = "inactive" /\ ~ service.socket
        \/ run.cmd = "setup" /\ {run.target, run.previous} \intersect descriptors' # {}
        \/ At("setup", "descriptor_switch") /\ run.changed /\ report'.outcome = "failed"
  <1>1. ASSUME LifecycleInv, Next, NEW launcher \in descriptors \ descriptors'
        PROVE  Allowed(launcher)
    <2>1. \/ SwitchDescriptor \/ SwitchFails \/ RemoveDescriptor \/ WriteUnit
          \/ StartFails \/ VerifyFails
      BY <1>1
      DEF Next, Begins, FileStages, DescriptorStages, ServiceStages, Surroundings,
          BeginSetup, BeginUpdate, BeginEnable, BeginStop, Begin, SetupRejected,
          UpdateRejected, UpdateIsCurrent, EnableRejected, StopRejected, Rejects, EndsAtOnce,
          WriteArtifact, PluginLost, RemoveArtifact, WriteConfiguration, RemoveConfiguration,
          RemoveUnit, RemoveUnitFails, WriteManifest, RemoveManifest, DataRootStays,
          PublishDescriptor, PublishFails, NoDescriptorIdentity, Reload, ReloadFails,
          EnableNow, Verify, Apply, ApplyFails, DisableNow, SocketStays,
          DisableUnneeded, DisableFails, StageFails, Killed, ServiceFails, ServiceRestarts,
          UserStops, PathChanges, CodexUpgrades
    <2>2. CASE SwitchDescriptor
      <3>1. /\ run.cmd = "setup" /\ Stage = "descriptor_switch"
            /\ descriptors' = descriptors \ LeftLauncher
        BY <2>2 DEF SwitchDescriptor, At
      <3>2. run.at = 7
        BY <1>1, <3>1, SetupStagesAre DEF LifecycleInv
      <3>3. run.target # None
        BY <1>1, <3>1 DEF LeftLauncher
      <3>4. run.target \in descriptors /\ run.target \notin LeftLauncher
        BY <1>1, <3>1, <3>2, <3>3 DEF LifecycleInv, SetupProgress, LeftLauncher
      <3>5. QED
        BY <3>1, <3>4
    <2>3. CASE SwitchFails
      <3>1. /\ At("setup", "descriptor_switch") /\ StageFault
            /\ LeftLauncher # {} /\ LeftLauncher \subseteq descriptors
            /\ ~ run.changed => descriptors' \in {descriptors \ removed :
                                                    removed \in SUBSET LeftLauncher}
        BY <1>1, <2>3 DEF SwitchFails
      <3>2. CASE run.changed
        BY <3>1, <3>2, FaultTells
      <3>3. CASE ~ run.changed
        <4>1. run.cmd = "setup" /\ run.at = 7
          BY <1>1, <3>1, SetupStagesAre DEF At, LifecycleInv
        <4>2. run.target # None /\ run.target \notin LeftLauncher
          BY <3>1 DEF LeftLauncher
        <4>3. run.target \in descriptors
          BY <1>1, <4>1, <4>2 DEF LifecycleInv, SetupProgress
        <4>4. run.target \in descriptors'
          BY <3>1, <3>3, <4>2, <4>3
        <4>5. QED
          BY <4>1, <4>4
      <3>4. QED
        BY <3>2, <3>3
    <2>4. CASE RemoveDescriptor
      <3>1. run.cmd \in Stopping /\ Stage = "descriptor_remove" /\ Typed
        BY <1>1, <2>4 DEF RemoveDescriptor, AtAny, At, Stopping, LifecycleInv
      <3>2. run.at = 3
        <4>1. CASE run.cmd = "disable"
          BY <3>1, <4>1, DisableStagesAre
        <4>2. CASE run.cmd = "uninstall"
          BY <3>1, <4>2, UninstallStagesAre
        <4>3. QED
          BY <3>1, <4>1, <4>2 DEF Stopping
      <3>3. QED
        BY <1>1, <3>1, <3>2 DEF LifecycleInv, StopProgress
    <2>5. CASE StartFails
      <3>1. MayCleanUp(service')
        BY <1>1, <2>5 DEF StartFails, FaultAfterDescriptor, FailsAfterDescriptor
      <3>2. service' \in EnableOutcomes \union {service, Reloaded}
        BY <2>5 DEF StartFails
      <3>3. CASE service' \in {service, [service EXCEPT !.enabled = TRUE], Reloaded}
        BY <1>1, <3>1, <3>3 DEF Reloaded, MayCleanUp, LifecycleInv, Typed, ServiceTyped
      <3>4. ASSUME NEW socket \in BOOLEAN,
                   service' = Failed([service EXCEPT !.enabled = TRUE, !.loaded = disk.unit],
                                     socket)
            PROVE FALSE
        <4>1. service'.activity = "unproven"
          BY <1>1, <3>4 DEF Failed, LifecycleInv, Typed, ServiceTyped
        <4>2. QED
          BY <3>1, <4>1 DEF MayCleanUp
      <3>5. QED
        BY <3>2, <3>3, <3>4 DEF EnableOutcomes
    <2>6. CASE VerifyFails
      BY <1>1, <2>6 DEF VerifyFails, FailsAfterDescriptor, MayCleanUp
    <2>7. CASE WriteUnit
      BY <1>1, <2>7 DEF WriteUnit, FaultAfterDescriptor, FailsAfterDescriptor, MayCleanUp
    <2>8. QED
      BY <2>1, <2>2, <2>3, <2>4, <2>5, <2>6, <2>7
  <1>2. LifecycleInv /\ [Next]_vars =>
          [\A launcher \in descriptors \ descriptors' :
             \/ service.activity = "inactive" /\ ~ service.socket
             \/ run.cmd = "setup"
                /\ {run.target, run.previous} \intersect descriptors' # {}
             \/ At("setup", "descriptor_switch") /\ run.changed
                /\ report'.outcome = "failed"]_vars
    BY <1>1
  <1>3. QED
    BY <1>2, LifecycleInvariant, PTL DEF Spec, DescriptorOutlivesService

\* What is true next to the findings.  A setup that fails and tells the user to run
\* update is right when there is a manifest, that is, in all but a first setup.
SuggestedUpdateAccepted ==
  report.outcome = "failed" /\ report.cmd = "setup" /\ report.suggestion = "update"
    /\ disk.manifest # None => Accepts("update", report.release)

\* A disable that reports success leaves no descriptor of the launcher that the
\* manifest names; what it may leave is another launcher's.
AttachmentWithdrawn ==
  report.outcome = "ok" /\ report.cmd = "disable" =>
    disk.manifest # None /\ disk.manifest.launcher \notin descriptors

\* Both of it, whatever happened to the service, PATH and the executables meanwhile.
THEOREM WhatTheFindingsLeave == Spec => [](SuggestedUpdateAccepted /\ AttachmentWithdrawn)
  <1>1. LifecycleInv => SuggestedUpdateAccepted /\ AttachmentWithdrawn
    <2>1. ASSUME LifecycleInv, report.outcome = "failed", report.cmd = "setup",
                 disk.manifest # None
          PROVE  Accepts("update", report.release)
      <3>1. Evidence # "contradictory" /\ disk.manifest.release = report.release
        BY <2>1 DEF LifecycleInv, Reported, Resumes
      <3>2. Evidence \in Permitted
        BY <2>1, <3>1, EvidenceIs DEF Permitted
      <3>3. report.release >= disk.manifest.release
        BY <2>1, <3>1, ManifestFields DEF Releases
      <3>4. QED
        BY <3>2, <3>3 DEF Accepts, Permits, Permitted
    <2>2. QED
      BY <2>1 DEF SuggestedUpdateAccepted, LifecycleInv, Reported, AttachmentWithdrawn
  <1>2. QED
    BY <1>1, LifecycleInvariant, PTL
=============================================================================
