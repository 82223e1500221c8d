-------------------------------- MODULE Status --------------------------------
(***************************************************************************)
(* The status report (src/install/status.rs) as functions of what is       *)
(* installed and running: `codex-session-control status' prints it, and    *)
(* update reads it to find that there is nothing to do.                    *)
(*                                                                         *)
(* A report is made by a program of some release, which need not be the    *)
(* installed one.  It asks others: Codex for its version and its plugins,  *)
(* systemctl, the app-server, the file system.  `missed' is the set of     *)
(* questions that got no usable answer.                                    *)
(***************************************************************************)
EXTENDS Installation

Questions == {"version", "plugins", "enablement", "activity", "server", "descriptor"}

-----------------------------------------------------------------------------
(* What is observed.                                                       *)

\* The configuration's Codex, else the manifest's.
StatusCodex ==
  IF disk.config # None THEN disk.config
  ELSE IF disk.manifest # None THEN disk.manifest.codex ELSE None

Projection ==
  IF disk.manifest = None \/ disk.artifacts["projection"] = 0 THEN "could_not_verify"
  ELSE IF disk.artifacts["projection"] = disk.manifest.release THEN "ready" ELSE "fault"

\* `codex plugin list'; a registration is looked at only together with the manifest.
NativeRegistration(missed) ==
  IF disk.manifest = None \/ "plugins" \in missed THEN "could_not_verify"
  ELSE IF disk.artifacts["plugin"] = disk.manifest.release THEN "ready" ELSE "fault"

Enabled(missed) ==
  IF "enablement" \in missed THEN "unknown"
  ELSE IF Enablement = "enabled" THEN "yes" ELSE "no"

\* A unit that failed or waits for its restart is neither active nor inactive.
Active(missed) ==
  IF "activity" \in missed \/ service.activity = "unproven" THEN "unknown"
  ELSE IF service.activity = "active" THEN "yes" ELSE "no"

\* The handshake with the service, whose version must be that of the Codex on disk.
AppServerHealth(missed) ==
  IF Active(missed) # "yes" \/ ~ service.socket \/ StatusCodex = None \/ "version" \in missed
  THEN "unverified"
  ELSE IF "server" \notin missed /\ service.process.version = world.version[StatusCodex]
       THEN "healthy" ELSE "unhealthy"

Attached == disk.manifest # None /\ disk.manifest.launcher # None

Descriptor(missed) ==
  IF "descriptor" \in missed THEN "unverified"
  ELSE IF disk.manifest.launcher \in descriptors THEN "expected" ELSE "not_ready"

-----------------------------------------------------------------------------
(* Problems, in the order in which they are looked for.                    *)

\* A mistake: the unit file is not compared with the manifest.
InstalledFaultButUnit(program) ==
  \/ Evidence \in {"contradictory", "partial"}
  \/ Evidence # "first_install" /\ None \in {disk.manifest, disk.config}
  \/ /\ disk.manifest # None
     /\ \/ disk.artifacts["binary"] # disk.manifest.release
        \/ disk.manifest.release # program

\* A mistake: a configuration that contradicts the manifest is let through.
InstalledFaultOfFiles(program) ==
  \/ Evidence = "partial"
  \/ Evidence # "first_install" /\ None \in {disk.manifest, disk.config}
  \/ /\ disk.manifest # None
     /\ \/ disk.artifacts["binary"] # disk.manifest.release
        \/ disk.unit # disk.manifest.codex
        \/ disk.manifest.release # program

\* The evidence, the hashes of the binary and of the unit file, and the release of
\* the program that asks.
InstalledFault(program) ==
  \/ Evidence \in {"contradictory", "partial"}
  \/ Evidence # "first_install" /\ None \in {disk.manifest, disk.config}
  \/ /\ disk.manifest # None
     /\ \/ disk.artifacts["binary"] # disk.manifest.release
        \/ disk.unit # disk.manifest.codex
        \/ disk.manifest.release # program

ServiceProblems(missed) ==
  {problem \in {"enablement_not_verified", "activity_not_verified", "configured_but_stopped",
                "socket_missing", "socket_unsafe"} :
     CASE problem = "enablement_not_verified" -> Enabled(missed) = "unknown"
       [] problem = "activity_not_verified" ->
            Active(missed) = "unknown" \/ (Enabled(missed) = "no" /\ Active(missed) = "yes")
       [] problem = "configured_but_stopped" -> Enabled(missed) = "yes" /\ Active(missed) = "no"
       [] problem = "socket_missing" -> Enabled(missed) = "yes" /\ ~ service.socket
       [] problem = "socket_unsafe" ->
            Enabled(missed) = "no" /\ Active(missed) = "no" /\ service.socket}

AppServerProblems(missed) ==
  {problem \in {"app_server_unavailable", "app_server_not_verified"} :
     CASE problem = "app_server_unavailable" -> AppServerHealth(missed) = "unhealthy"
       [] problem = "app_server_not_verified" ->
            /\ Active(missed) = "yes" /\ service.socket
            /\ StatusCodex = None \/ "version" \in missed}

\* A descriptor that is absent is a fault only while the service is to be used.
DesktopProblems(missed) ==
  {problem \in {"desktop_descriptor_fault", "desktop_not_verified"} :
     /\ Attached
     /\ CASE problem = "desktop_descriptor_fault" ->
               /\ Descriptor(missed) = "not_ready"
               /\ Enabled(missed) = "yes" /\ Active(missed) = "yes"
          [] problem = "desktop_not_verified" -> Descriptor(missed) = "unverified"}

Problems(program, missed) ==
  {problem \in {"installed_state_not_verified", "projection_fault", "projection_not_verified",
                "native_fault", "native_not_verified"} :
     CASE problem = "installed_state_not_verified" -> InstalledFault(program)
       [] problem = "projection_fault" -> Projection = "fault"
       [] problem = "projection_not_verified" ->
            disk.manifest # None /\ Projection = "could_not_verify"
       [] problem = "native_fault" -> NativeRegistration(missed) = "fault"
       [] problem = "native_not_verified" ->
            \/ StatusCodex # None /\ "version" \in missed
            \/ disk.manifest # None /\ "plugins" \in missed}
  \union ServiceProblems(missed) \union AppServerProblems(missed)
  \union DesktopProblems(missed)

-----------------------------------------------------------------------------
(* The report.                                                             *)

SharedFault(missed) ==
  \/ <<Enabled(missed), Active(missed)>> \in {<<"yes", "no">>, <<"no", "yes">>}
  \/ AppServerHealth(missed) = "unhealthy"

SharedUnverified(missed) ==
  \/ "unknown" \in {Enabled(missed), Active(missed)}
  \/ Active(missed) = "yes" /\ AppServerHealth(missed) = "unverified"

Disabled(missed) == Enabled(missed) = "no" /\ Active(missed) = "no" /\ ~ service.socket

CliIntegration(missed) ==
  LET integrations == {Projection, NativeRegistration(missed)} IN
  IF SharedFault(missed) \/ "fault" \in integrations THEN "unhealthy"
  ELSE IF SharedUnverified(missed) \/ "could_not_verify" \in integrations
       THEN "could_not_verify"
       ELSE IF Disabled(missed) THEN "unavailable" ELSE "ready"

\* Of a launcher that the manifest names; without one it is not looked at further.
DesktopIntegration(missed) ==
  LET faulty == \/ Descriptor(missed) = "not_ready"
                \/ "no" \in {Enabled(missed), Active(missed)}
                \/ ~ service.socket
                \/ AppServerHealth(missed) = "unhealthy"
      unverified == \/ Descriptor(missed) = "unverified"
                    \/ "unknown" \in {Enabled(missed), Active(missed)}
                    \/ AppServerHealth(missed) = "unverified"
  IN IF faulty THEN IF Disabled(missed) THEN "unavailable" ELSE "unhealthy"
     ELSE IF unverified THEN IF SharedFault(missed) THEN "unhealthy" ELSE "could_not_verify"
          ELSE "ready"

StatusState(program, missed) ==
  LET problems == Problems(program, missed) IN
  IF Evidence = "first_install" THEN "not_installed"
  ELSE IF problems = {} /\ Disabled(missed) THEN "disabled"
       ELSE IF problems = {} /\ CliIntegration(missed) = "ready"
            THEN "healthy" ELSE "unhealthy"

\* The command that the report tells the user to run.
StatusAdvice(program, missed) ==
  LET state == StatusState(program, missed)
      problems == Problems(program, missed)
  IN CASE state = "disabled" -> "enable"
       [] state = "not_installed" -> "setup"
       [] state = "healthy" -> "none"
       [] state = "unhealthy" ->
            IF problems = {} THEN "none"
            ELSE IF problems \subseteq
                      {"configured_but_stopped", "socket_missing", "app_server_unavailable"}
                 THEN "logs" ELSE "status"
===============================================================================
