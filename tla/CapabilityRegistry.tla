------------------------- MODULE CapabilityRegistry -------------------------
(***************************************************************************)
(* The capabilities of src/main/permissions/capability-registry.ts, and    *)
(* the part of permission-engine.ts that is a function of its arguments.   *)
(***************************************************************************)
EXTENDS ToolProtocol

Policy == {"DENY", "ASK", "ALLOW_SESSION", "ALLOW_PROJECT", "ALWAYS_ALLOW"}

\* No policy is set: the next layer decides.
Unset == "unset"

Preset == {"SAFE", "ASK", "FULL_ACCESS"}

capabilities(ids, risk, policy, destructive) ==
  [id : ids, risk : {risk}, defaultPolicy : {policy}, isDestructive : {destructive}]

BrowserCapabilities ==
  capabilities({"browser.app.open", "browser.app.focus", "browser.app.close",
                "browser.web.read", "browser.web.navigate", "browser.web.media_control"},
               "LOW", "ALWAYS_ALLOW", FALSE)
  \union capabilities({"browser.web.interact", "browser.web.download"}, "MEDIUM", "ASK", FALSE)
  \union capabilities({"browser.web.upload"}, "HIGH", "ASK", FALSE)

TerminalCapabilities ==
  capabilities({"terminal.read_only"}, "LOW", "ALWAYS_ALLOW", FALSE)
  \union capabilities({"terminal.build", "terminal.test", "terminal.lint"}, "LOW", "ASK", FALSE)
  \union capabilities({"terminal.process_start", "terminal.process_stop"}, "MEDIUM", "ASK", FALSE)
  \union capabilities({"terminal.network", "terminal.download", "terminal.package_install",
                       "terminal.environment_access"}, "HIGH", "ASK", FALSE)
  \union capabilities({"terminal.modify_files"}, "HIGH", "ASK", TRUE)
  \union capabilities({"terminal.shell", "terminal.outside_project"}, "CRITICAL", "DENY", TRUE)

GitCapabilities ==
  capabilities({"git.status", "git.diff", "git.log", "git.show", "git.branch_info"},
               "LOW", "ALWAYS_ALLOW", FALSE)
  \union capabilities({"git.stage", "git.unstage"}, "MEDIUM", "ASK", FALSE)
  \union capabilities({"git.commit"}, "HIGH", "ASK", FALSE)

FilesystemCapabilities ==
  capabilities({"project.read"}, "LOW", "ALWAYS_ALLOW", FALSE)
  \union capabilities({"project.modify"}, "HIGH", "ASK", FALSE)
  \union capabilities({"project.create", "project.rename"}, "MEDIUM", "ASK", FALSE)
  \union capabilities({"project.delete"}, "CRITICAL", "ASK", TRUE)

Registry == BrowserCapabilities \union TerminalCapabilities \union GitCapabilities
            \union FilesystemCapabilities

KnownCapability == {c.id : c \in Registry}

isKnownCapability(id) == id \in KnownCapability

getCapability(id) == CHOOSE c \in Registry : c.id = id

-----------------------------------------------------------------------------
(* Presets *)

\* What a preset makes of a capability.  LOW is allowed even where the capability
\* asks by default.
resolveFromPreset(id, preset) ==
  LET cap == getCapability(id)
      harmless == cap.risk = "LOW" /\ ~cap.isDestructive
  IN  IF cap.defaultPolicy = "DENY" THEN "DENY"
      ELSE CASE preset = "FULL_ACCESS" ->
                  IF cap.risk = "CRITICAL" THEN cap.defaultPolicy ELSE "ALWAYS_ALLOW"
             [] preset # "FULL_ACCESS" /\ harmless -> "ALWAYS_ALLOW"
             [] preset = "SAFE" /\ ~harmless /\ (cap.risk = "CRITICAL" \/ cap.isDestructive) ->
                  "DENY"
             [] OTHER -> "ASK"

policyToDecision(policy) == IF policy \in {"DENY", "ASK"} THEN policy ELSE "ALLOW"

-----------------------------------------------------------------------------
(* What a command of the agent needs, by the risk command-policy finds in it *)

HardBlocked == {"shell_interpreter", "source_write_bypass", "git", "remote_execution",
                "destructive"}

CommandRiskClass == HardBlocked \union {"read_only", "verification", "package_install",
                                        "network", "mutation", "project_script", "unknown"}

\* No capability: CommandManager blocks the command whatever the user allows.
NoCapability == "none"

\* A verification command and a script are told apart by their name.
terminalRiskToCapability(risk) ==
  CASE risk \in HardBlocked -> {NoCapability}
    [] risk = "read_only" -> {"terminal.read_only"}
    [] risk = "verification" -> {"terminal.build", "terminal.test", "terminal.lint"}
    [] risk = "package_install" -> {"terminal.package_install"}
    [] risk = "network" -> {"terminal.network"}
    [] risk = "mutation" -> {"terminal.modify_files"}
    [] risk = "project_script" -> {"terminal.build", "terminal.test", "terminal.lint",
                                   "terminal.shell"}
    [] risk = "unknown" -> {"terminal.shell"}

=============================================================================
