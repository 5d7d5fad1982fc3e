------------------------ MODULE ProjectRegistration -------------------------
(***************************************************************************)
(* Registering a project: project add loads areaflow.yaml, and one         *)
(* transaction replaces the project's connections and permissions, its     *)
(* scheduling policy and its active configuration.  Permission checks read *)
(* the permission rows; the permission doctor, the generated write         *)
(* readiness and the engine preview read the active configuration first    *)
(* and the rows after it.                                                  *)
(*                                                                         *)
(* A path is a sequence of names.  A pattern is a path, with or without    *)
(* a trailing two-star; "*" is the empty path with it.  Capabilities and   *)
(* commands are patterns of one name.                                      *)
(***************************************************************************)
EXTENDS Naturals, Sequences, FiniteSets

CONSTANTS
    Registrars,        \* processes that run project add
    Readers,           \* processes that evaluate the configuration
    ConfigFiles,       \* what areaflow.yaml may contain
    Paths,             \* the paths asked about
    StatusPath,        \* .areaflow/status.json
    Generated,         \* the directories of managed generated files
    Dangerous,         \* patterns every project has to forbid
    AppMetadata,       \* .areamatrix/**, which the doctor wants forbidden too
    RiskyCommands,     \* commands every project has to forbid
    Command,           \* the command of the engine preview
    MaxRegistrations,  \* bound on the registrations
    Unset              \* no step, nothing read, no configuration

VARIABLES
    project,        \* the projects row and its lock: [known, holder]
    connections,    \* project_connections, by the registration that inserted them
    permissions,    \* project_permissions
    policy,         \* project_scheduling_policies, one row for each project
    configs,        \* project_configs
    registrar,      \* the registration each process is at
    reader,         \* the evaluation each process is at
    registrations   \* registrations so far

registrationVars ==
    <<project, connections, permissions, policy, configs, registrar, reader, registrations>>

-----------------------------------------------------------------------------
(* The configuration file *)
OrElse(value, default) == IF value = "" THEN default ELSE value

Validate(file) == file.complete

NormalizeOwnership(file) ==
    [file EXCEPT !.mode = OrElse(@, "import"), !.owner = OrElse(@, "project")]

NormalizeScheduling(file) ==
    [file EXCEPT !.needs = IF @ = {} THEN {"read_project"} ELSE @]

NormalizeProfile(profile) ==
    [profile EXCEPT !.provider = OrElse(@, profile.id), !.secret = OrElse(@, "none")]

NormalizeEngines(file) ==
    LET named == SelectSeq(file.profiles, LAMBDA p : p.id # "")
    IN  [file EXCEPT !.profiles = [i \in DOMAIN named |-> NormalizeProfile(named[i])],
                     !.default = IF named = <<>> THEN @ ELSE OrElse(@, named[1].id)]

NormalizeStatusExport(file) ==
    [file EXCEPT !.status = IF file.exported /\ @ = <<>> THEN StatusPath ELSE @]

NormalizeMigration(file) == [file EXCEPT !.phase = OrElse(@, "import")]

ValidateNormalized(file) ==
    /\ file.mode \in {"import", "mirror", "shadow", "cutover", "archived"}
    /\ file.owner \in {"project", "areaflow", "external"}
    /\ file.phase \in {"import", "mirror", "shadow", "cutover", "authoring_cutover", "execution_beta",
                       "execution_cutover", "archive", "shim_retirement"}

Normalized(file) ==
    NormalizeMigration(NormalizeStatusExport(NormalizeEngines(NormalizeScheduling(
        NormalizeOwnership(file)))))

(* The configuration a file loads as, if it is valid. *)
LoadConfig(file) == {c \in {Normalized(file)} : Validate(file) /\ ValidateNormalized(c)}

-----------------------------------------------------------------------------
(* Permissions *)
Name(n) == [at |-> <<n>>, tree |-> FALSE]

IsUnder(path, at) == Len(path) >= Len(at) /\ SubSeq(path, 1, Len(at)) = at

globMatch(pattern, path) ==
    IF pattern.tree THEN IsUnder(path, pattern.at) ELSE path = pattern.at

(* A pattern taken as a path. *)
AsPath(pattern) == IF pattern.tree THEN Append(pattern.at, "**") ELSE pattern.at

isManagedGeneratedPath(path) == \E at \in Generated : IsUnder(path, at) /\ path # at

shouldAllowGeneratedWritePath(config, pattern) ==
    "write_generated" \in config.granted /\ isManagedGeneratedPath(AsPath(pattern))

Row(effect, capability, type, pattern) ==
    [effect |-> effect, capability |-> capability, type |-> type, pattern |-> pattern]

insertPermissions(config) ==
    {Row("allow", c, "capability", Name(c)) : c \in config.granted}
    \cup {Row("deny", c, "capability", Name(c)) : c \in config.refused}
    \cup {Row("allow", "read_project", "path", p) : p \in config.read}
    \cup {Row("allow", "write_status", "path", p) : p \in config.write}
    \cup {Row("allow", "write_generated", "path", p) :
            p \in {q \in config.write : shouldAllowGeneratedWritePath(config, q)}}
    \cup {Row("deny", "*", "path", p) : p \in config.forbidden}
    \cup {Row("allow", "run_commands", "command", Name(c)) : c \in config.allowed}
    \cup {Row("deny", "run_commands", "command", Name(c)) : c \in config.denied}

(* A row that denies the path ends the search. *)
CanWritePath(rows, capability, path) ==
    /\ ~\E r \in rows : r.effect = "deny" /\ r.type = "path" /\ globMatch(r.pattern, path)
    /\ \E r \in rows : r.effect = "allow" /\ r.type = "capability" /\ r.capability = capability
    /\ \E r \in rows : /\ r.effect = "allow" /\ r.type = "path" /\ r.capability = capability
                       /\ globMatch(r.pattern, path)

CommandPermission(rows, command) ==
    [denied |-> \E r \in rows : r.effect = "deny" /\ r.type = "command" /\ globMatch(r.pattern, <<command>>),
     capability |-> Row("allow", "run_commands", "capability", Name("run_commands")) \in rows,
     command |-> \E r \in rows : r.effect = "allow" /\ r.type = "command"
                                 /\ globMatch(r.pattern, <<command>>)]

CanRunCommand(rows, command) ==
    LET permission == CommandPermission(rows, command)
    IN  ~permission.denied /\ permission.capability /\ permission.command

-----------------------------------------------------------------------------
(* The evaluations.  Each is a function of the configuration and of the rows. *)
hasPermission(rows, effect, capability, type, pattern) ==
    Row(effect, capability, type, pattern) \in rows

hasCapability(rows, capability) ==
    hasPermission(rows, "allow", capability, "capability", Name(capability))

pathMatchesAny(path, patterns) == \E p \in patterns : globMatch(p, path)

Exactly(path) == [at |-> path, tree |-> FALSE]

Passes(condition) == IF condition THEN "pass" ELSE "fail"

Warns(condition) == IF condition THEN "warn" ELSE "pass"

exportPath(config) == IF config.status = <<>> THEN StatusPath ELSE config.status

checkStatusExportPolicy(config, rows) ==
    Passes(/\ Exactly(exportPath(config)) \in config.write
           /\ hasPermission(rows, "allow", "write_status", "path", Exactly(exportPath(config)))
           /\ hasCapability(rows, "write_status")
           /\ ~pathMatchesAny(exportPath(config), config.forbidden))

checkDangerousWriteDenied(config, rows) ==
    Passes(\A p \in Dangerous \cup {AppMetadata} :
               p \in config.forbidden \/ hasPermission(rows, "deny", "*", "path", p))

checkCommandPolicy(config, rows) ==
    IF \E c \in RiskyCommands :
         c \notin config.denied /\ ~hasPermission(rows, "deny", "run_commands", "command", Name(c))
    THEN "fail"
    ELSE Warns("run_commands" \in config.granted \/ hasCapability(rows, "run_commands"))

HighRisk == {"write_workflow", "write_code", "run_commands", "manage_git", "network", "use_secrets",
             "execute_agents"}

checkDefaultReadOnly(config) ==
    Warns(config.granted \cap (HighRisk \cup {"write_generated"}) # {})

checkSecretPolicy(config) == Warns("use_secrets" \in config.granted)

checkNetworkPolicy(config) == Warns("network" \in config.granted)

checkGitPolicy(config) == Warns("manage_git" \in config.granted)

checkWorkerCapabilityPolicy(config) ==
    Warns(~({"read_project", "write_artifacts"} \subseteq config.needs))

worst(statuses) ==
    CHOOSE s \in statuses : \/ s = "fail"
                            \/ s = "warn" /\ "fail" \notin statuses
                            \/ statuses = {"pass"}

(* Without a configuration the doctor fails. *)
BuildPermissionPolicyDoctor(config, rows) ==
    IF config = Unset THEN "fail"
    ELSE worst({checkDefaultReadOnly(config), checkStatusExportPolicy(config, rows),
                checkDangerousWriteDenied(config, rows), checkCommandPolicy(config, rows),
                checkSecretPolicy(config), checkNetworkPolicy(config),
                checkWorkerCapabilityPolicy(config), checkGitPolicy(config)})

generatedCapabilityAllowed(config, rows, capability) ==
    /\ capability \in config.granted
    /\ hasCapability(rows, capability)
    /\ ~hasPermission(rows, "deny", capability, "capability", Name(capability))

addGeneratedCapabilityItem(config, rows) ==
    \A c \in {"read_project", "write_artifacts", "write_generated"} :
        generatedCapabilityAllowed(config, rows, c)

Tree(at) == [at |-> at, tree |-> TRUE]


addGeneratedPrefixPathItem(config, rows) ==
    \A at \in Generated :
        /\ Tree(at) \in config.write
        /\ hasPermission(rows, "allow", "write_generated", "path", Tree(at))
        /\ ~pathMatchesAny(AsPath(Tree(at)), config.forbidden)
        /\ ~hasPermission(rows, "deny", "*", "path", Tree(at))

addGeneratedDangerousDenyItem(config) == Dangerous \subseteq config.forbidden

addGeneratedHighRiskClosedItem(config, rows) ==
    \A c \in HighRisk : c \notin config.granted /\ ~hasCapability(rows, c)

(* Ready for review, or not. *)
BuildGeneratedWriteReadiness(config, rows) ==
    IF /\ config # Unset
       /\ addGeneratedCapabilityItem(config, rows)
       /\ addGeneratedPrefixPathItem(config, rows)
       /\ addGeneratedDangerousDenyItem(config)
       /\ addGeneratedHighRiskClosedItem(config, rows)
    THEN "ready" ELSE "blocked"

engineReadinessFromProfile(profile) == profile.enabled /\ profile.secret = "none"

codexPreviewEngineReadiness(config) ==
    LET id       == OrElse(OrElse(config.engine, config.default), "codex-cli")
        profiles == SelectSeq(config.profiles, LAMBDA p : p.id = id)
    IN  /\ profiles # <<>>
        /\ profiles[1].provider = "codex-cli"
        /\ engineReadinessFromProfile(profiles[1])

codexPreviewRequiredCapabilities(config) ==
    {"read_project", "write_artifacts", "execute_agents", "run_commands"} \cup config.needs

codexPreviewPaths(config, rows) ==
    /\ \A p \in config.read :
         "read_project" \in config.granted /\ hasPermission(rows, "allow", "read_project", "path", p)
    /\ \A p \in config.forbidden : hasPermission(rows, "deny", "*", "path", p)
    /\ "write_artifacts" \in config.granted \/ hasCapability(rows, "write_artifacts")

(* The command's permission comes from a query of its own. *)
BuildCodexCLIAdapterPreview(config, rows, permission) ==
    IF /\ config # Unset
       /\ \A c \in codexPreviewRequiredCapabilities(config) :
            c \in config.granted \/ hasCapability(rows, c)
       /\ codexPreviewEngineReadiness(config)
       /\ permission.capability /\ permission.command /\ ~permission.denied
       /\ codexPreviewPaths(config, rows)
    THEN "needs_approval" ELSE "blocked"

-----------------------------------------------------------------------------
(* A registration *)
Quiet == [step |-> Unset, id |-> 0, config |-> Unset,
          deleted |-> [connections |-> {}, permissions |-> {}, configs |-> {}]]

Evaluations == {"doctor", "generated", "codex"}

Nothing == [step |-> Unset, kind |-> Unset, config |-> Unset, rows |-> {}, from |-> {},
            whole |-> TRUE, command |-> Unset, result |-> Unset]

RegistrationInit ==
    /\ project = [known |-> FALSE, holder |-> Unset]
    /\ connections = {}
    /\ permissions = {}
    /\ policy = Unset
    /\ configs = {}
    /\ registrar = [p \in Registrars |-> Quiet]
    /\ reader = [q \in Readers |-> Nothing]
    /\ registrations = 0

Doing(p, step) == registrar[p].step = step

Advance(p, step) == registrar' = [registrar EXCEPT ![p].step = step]

(* A configuration that does not load ends the command before the store. *)
AddProject(p) ==
    /\ Doing(p, Unset)
    /\ registrations < MaxRegistrations
    /\ \E file \in ConfigFiles : \E config \in LoadConfig(file) :
         registrar' = [registrar EXCEPT ![p] = [Quiet EXCEPT !.step = "project", !.id = registrations + 1,
                                                             !.config = config]]
    /\ registrations' = registrations + 1
    /\ UNCHANGED <<project, connections, permissions, policy, configs, reader>>

(* The upsert locks the project's row until the transaction ends. *)
UpsertProject(p) ==
    /\ Doing(p, "project")
    /\ project.holder = Unset
    /\ project' = [project EXCEPT !.holder = p]
    /\ Advance(p, "connections")
    /\ UNCHANGED <<connections, permissions, policy, configs, reader, registrations>>

ReplaceConnections(p) ==
    /\ Doing(p, "connections")
    /\ registrar' = [registrar EXCEPT ![p].step = "permissions", ![p].deleted.connections = connections]
    /\ UNCHANGED <<project, connections, permissions, policy, configs, reader, registrations>>

(* Variant: the rows are deleted outside the transaction. *)
ReplacePermissionsAtOnce(p) ==
    /\ Doing(p, "permissions")
    /\ permissions' = {}
    /\ Advance(p, "policy")
    /\ UNCHANGED <<project, connections, policy, configs, reader, registrations>>

ReplacePermissions(p) ==
    /\ Doing(p, "permissions")
    /\ registrar' = [registrar EXCEPT ![p].step = "policy", ![p].deleted.permissions = permissions]
    /\ UNCHANGED <<project, connections, permissions, policy, configs, reader, registrations>>

upsertSchedulingPolicy(p) ==
    /\ Doing(p, "policy")
    /\ Advance(p, "snapshot")
    /\ UNCHANGED <<project, connections, permissions, policy, configs, reader, registrations>>

Active == {c \in configs : c.active}

insertProjectConfigSnapshot(p) ==
    /\ Doing(p, "snapshot")
    /\ registrar' = [registrar EXCEPT ![p].step = "commit", ![p].deleted.configs = Active]
    /\ UNCHANGED <<project, connections, permissions, policy, configs, reader, registrations>>

Inserted(config, id) == {[id |-> id, row |-> row] : row \in insertPermissions(config)}

(* The connections, artifact_store only if the file names one. *)
Connected(config, id) ==
    {[id |-> id, type |-> "local_path"]}
    \cup {[id |-> id, type |-> t] : t \in IF config.store THEN {"artifact_store"} ELSE {}}

CommitRegistration(p) ==
    LET r == registrar[p]
    IN  /\ Doing(p, "commit")
        /\ Active \subseteq r.deleted.configs  \* the index on active configurations
        /\ project' = [known |-> TRUE, holder |-> Unset]
        /\ connections' = (connections \ r.deleted.connections) \cup Connected(r.config, r.id)
        /\ permissions' = (permissions \ r.deleted.permissions) \cup Inserted(r.config, r.id)
        /\ policy' = [id |-> r.id, needs |-> r.config.needs]
        /\ configs' = (configs \ r.deleted.configs)
                       \cup {[c EXCEPT !.active = FALSE] : c \in r.deleted.configs}
                       \cup {[id |-> r.id, config |-> r.config, active |-> TRUE]}
        /\ registrar' = [registrar EXCEPT ![p] = Quiet]
        /\ UNCHANGED <<reader, registrations>>

(* A statement fails or the process dies: the transaction is rolled back. *)
AbandonRegistration(p) ==
    /\ ~Doing(p, Unset)
    /\ registrar' = [registrar EXCEPT ![p] = Quiet]
    /\ project' = [project EXCEPT !.holder = IF @ = p THEN Unset ELSE @]
    /\ UNCHANGED <<connections, permissions, policy, configs, reader, registrations>>

-----------------------------------------------------------------------------
(* An evaluation: one query for the configuration, one for the rows and,   *)
(* for the engine preview, one for the command.                            *)
ActiveProjectConfig == IF Active = {} THEN Unset ELSE (CHOOSE c \in Active : TRUE).config

projectPermissionRows == {x.row : x \in permissions}

(* Which registrations have committed, to tell whether one came between. *)
Committed == {c.id : c \in configs}

ReadConfig(q) ==
    /\ reader[q].step = Unset
    /\ reader[q].kind = Unset
    /\ \E kind \in Evaluations :
         reader' = [reader EXCEPT ![q] = [Nothing EXCEPT !.step = "rows", !.kind = kind,
                                                         !.config = ActiveProjectConfig, !.from = Committed]]
    /\ UNCHANGED <<project, connections, permissions, policy, configs, registrar, registrations>>

ReadRows(q) ==
    LET e == reader[q]
    IN  /\ e.step = "rows"
        /\ reader' = [reader EXCEPT ![q] =
             [e EXCEPT !.step = IF e.kind = "codex" THEN "command" ELSE Unset,
                       !.rows = projectPermissionRows, !.whole = e.from = Committed,
                       !.result =
                          IF e.kind = "doctor" THEN BuildPermissionPolicyDoctor(e.config, projectPermissionRows)
                          ELSE IF e.kind = "generated"
                          THEN BuildGeneratedWriteReadiness(e.config, projectPermissionRows)
                          ELSE Unset]]
        /\ UNCHANGED <<project, connections, permissions, policy, configs, registrar, registrations>>

ReadCommand(q) ==
    LET e == reader[q]
        permission == CommandPermission(projectPermissionRows, Command)
    IN  /\ e.step = "command"
        /\ reader' = [reader EXCEPT ![q] =
             [e EXCEPT !.step = Unset, !.command = permission, !.whole = @ /\ e.from = Committed,
                       !.result = BuildCodexCLIAdapterPreview(e.config, e.rows, permission)]]
        /\ UNCHANGED <<project, connections, permissions, policy, configs, registrar, registrations>>

(* The caller has the answer. *)
Answered(q) ==
    /\ reader[q].result # Unset
    /\ reader' = [reader EXCEPT ![q] = Nothing]
    /\ UNCHANGED <<project, connections, permissions, policy, configs, registrar, registrations>>

RegistrationNext ==
    \/ \E p \in Registrars :
         \/ AddProject(p) \/ UpsertProject(p) \/ ReplaceConnections(p) \/ ReplacePermissions(p)
         \/ upsertSchedulingPolicy(p) \/ insertProjectConfigSnapshot(p) \/ CommitRegistration(p)
         \/ AbandonRegistration(p)
    \/ \E q \in Readers : ReadConfig(q) \/ ReadRows(q) \/ ReadCommand(q) \/ Answered(q)

-----------------------------------------------------------------------------
(* The state's types: what is stored of a configuration is what the file's *)
(* defaults and checks leave (LoadConfig), and only the process that waits *)
(* for nothing holds the project's row.                                    *)
RegistrationTypeOK ==
    /\ project.known \in BOOLEAN /\ project.holder \in Registrars \cup {Unset}
    /\ registrations \in 0..MaxRegistrations
    /\ \A c \in configs : /\ c.id \in 1..MaxRegistrations /\ c.active \in BOOLEAN
                          /\ ValidateNormalized(c.config)
                          /\ c.config.needs # {} /\ c.config.mode # ""
                          /\ c.config.exported => c.config.status # <<>>
                          /\ \A i \in DOMAIN c.config.profiles : c.config.profiles[i].provider # ""
    /\ \A p \in Registrars : project.holder = p <=> ~(Doing(p, Unset) \/ Doing(p, "project"))

(* One registration at a time replaces everything (UpsertFromConfig): the  *)
(* connections, the permission rows, the scheduling policy and the active  *)
(* configuration are those of one and the same areaflow.yaml, whichever    *)
(* registrations ran at the same time or failed half way.                  *)
RegistrationIsWhole ==
    IF Active = {}
    THEN ~project.known /\ connections = {} /\ permissions = {} /\ policy = Unset
    ELSE \E c \in Active : /\ Active = {c}
                          /\ connections = Connected(c.config, c.id)
                          /\ permissions = Inserted(c.config, c.id)
                          /\ policy = [id |-> c.id, needs |-> c.config.needs]

Forbids(config, path) == pathMatchesAny(path, config.forbidden)

(* What the permission checks answer from the rows (CanWritePath,          *)
(* CanRunCommand) is what the active configuration says: a capability that *)
(* is granted, on a path its own list covers and no forbidden path does;   *)
(* generated files need a pattern within their directories; no path is     *)
(* ever granted for source or workflow writes.                             *)
PermissionsFollowConfig ==
    \A c \in Active :
        LET rows == projectPermissionRows
            config == c.config
            May(capability, path) == CanWritePath(rows, capability, path)
        IN  /\ \A path \in Paths :
                 /\ May("write_status", path) <=>
                      /\ "write_status" \in config.granted /\ ~Forbids(config, path)
                      /\ pathMatchesAny(path, config.write)
                 /\ May("write_generated", path) <=>
                      /\ "write_generated" \in config.granted /\ ~Forbids(config, path)
                      /\ \E w \in config.write : isManagedGeneratedPath(AsPath(w)) /\ globMatch(w, path)
                 /\ ~May("write_code", path) /\ ~May("write_workflow", path)
            /\ \A command \in RiskyCommands \cup {Command} :
                 CanRunCommand(rows, command) <=>
                    "run_commands" \in config.granted /\ command \in config.allowed \ config.denied

Answers(q, kind, results) == reader[q].kind = kind /\ reader[q].result \in results

(* The permission doctor (BuildPermissionPolicyDoctor) does not fail       *)
(* unless the status file may be written and nothing that is dangerous may *)
(* be; when it passes, no command may run and no generated file be         *)
(* written.  A registration that commits between its two queries is the    *)
(* only exception.                                                         *)
DoctorIsGrounded ==
    \A q \in Readers :
        LET e == reader[q]
        IN  /\ Answers(q, "doctor", {"pass", "warn"}) /\ e.whole =>
                 /\ CanWritePath(e.rows, "write_status", exportPath(e.config))
                 /\ \A p \in Dangerous \cup {AppMetadata} :
                      ~CanWritePath(e.rows, "write_status", AsPath(p))
                 /\ \A command \in RiskyCommands : ~CanRunCommand(e.rows, command)
            /\ Answers(q, "doctor", {"pass"}) /\ e.whole =>
                 /\ ~CanRunCommand(e.rows, Command)
                 /\ \A path \in Paths : ~CanWritePath(e.rows, "write_generated", path)

(* The forbidden patterns below a directory. *)
Narrower(config, at) == {p \in config.forbidden : IsUnder(p.at, at) /\ p.at # at}

(* Generated writes that are ready for review (BuildGeneratedWriteReadiness) *)
(* may be made: every path in the directories may be written unless a      *)
(* narrower pattern forbids it, and no command may run.  What needs only   *)
(* the rows holds even if a registration commits between the two queries.  *)
ReadinessIsGrounded ==
    \A q \in Readers :
        LET e == reader[q]
        IN  Answers(q, "generated", {"ready"}) =>
               /\ ~CanRunCommand(e.rows, Command)
               /\ e.whole => \A path \in Paths, at \in Generated :
                    IsUnder(path, at) /\ (\A p \in Narrower(e.config, at) : ~globMatch(p, path))
                       => CanWritePath(e.rows, "write_generated", path)

(* An engine preview that only waits for approval                          *)
(* (BuildCodexCLIAdapterPreview) shows a command that may run and no path  *)
(* as forbidden that the rows do not deny, even if a registration commits  *)
(* between its three queries.                                              *)
PreviewIsGrounded ==
    \A q \in Readers :
        LET e == reader[q]
        IN  Answers(q, "codex", {"needs_approval"}) =>
               /\ e.command.command /\ ~e.command.denied
               /\ \A path \in Paths : Forbids(e.config, path) =>
                    ~CanWritePath(e.rows, "write_status", path)
               /\ e.whole => CanRunCommand(e.rows, Command)

(* What is registered is one areaflow.yaml, and the permission checks answer
   what it says (UpsertFromConfig, CanWritePath, CanRunCommand).           *)
RegistrationIsSound ==
    RegistrationTypeOK /\ RegistrationIsWhole /\ PermissionsFollowConfig


=============================================================================
