---------------------------- MODULE ConfigUpdate ----------------------------
(***************************************************************************)
(* How a node gets its configuration: nodeletd reports its status to       *)
(* Sunpike, receives the Host object, writes kube_sunpike.env and          *)
(* config_sunpike.yaml and exits, and systemd starts it with the new       *)
(* files.  Without Sunpike, nodeletctl puts config_sunpike.yaml there and  *)
(* nodeletd derives kube_resmgr.env from it.  The scripts of the phases    *)
(* read kube.env, a symbolic link to one of the two.  The "phases"         *)
(* commands run the same phases by hand.                                   *)
(***************************************************************************)
EXTENDS Naturals

CONSTANTS
    DisableSunpike,  \* the values of the option of that name
    MaxSpecs,        \* configurations
    MaxKills,        \* kills and stops of nodeletd
    MaxErrors,       \* writes of files that fail
    MaxChanges       \* changes of the configuration

ASSUME ConfigAssumption ==
    /\ DisableSunpike \subseteq BOOLEAN /\ DisableSunpike # {}
    /\ MaxSpecs \in Nat \ {0} /\ MaxKills \in Nat /\ MaxErrors \in Nat
    /\ MaxChanges \in Nat

VARIABLES
    disabled,        \* config.DisableSunpike
    spec,            \* Spec of the Host object, NoSpec while it is empty
    yaml,            \* config_sunpike.yaml
    env,             \* kube_sunpike.env
    resmgr,          \* kube_resmgr.env
    link,            \* where kube.env points to
    pc,              \* where nodeletd is
    back,            \* where it goes on after an update
    cfg,             \* the configuration it runs with
    recv,            \* the configuration it is writing
    cmd,             \* where a "phases" command is
    kills, errors, changes,
    reverted         \* an earlier configuration came back

daemon == <<pc, back, cfg, recv>>
files == <<yaml, env, resmgr, link>>
bounds == <<kills, errors, changes, reverted>>
vars == <<disabled, spec, files, daemon, cmd, bounds>>

\* The contents of a file, and of a configuration.
Specs == 1..MaxSpecs
Absent == 0
NoSpec == 0
Default == 0             \* KubeServiceState is "ignore", and the role "none"
Empty == MaxSpecs + 1    \* truncated: only the header, or the first lines
Bad == MaxSpecs + 2      \* no YAML
Contents == 0..Bad

\* "stopped" by systemctl; "down" until systemd restarts it.
Up == {"update", "env", "envLines", "yaml", "yamlLines", "resmgr", "resmgrLines",
       "unlink", "link", "loop", "acting"}

TypeOK ==
    /\ disabled \in DisableSunpike /\ spec \in {NoSpec} \cup Specs
    /\ yaml \in Contents
    /\ env \in Contents \ {Bad} /\ resmgr \in Contents \ {Bad}
    /\ link \in {"absent", "resmgr", "sunpike"}
    /\ pc \in Up \cup {"stopped", "down"} /\ back \in {"unlink", "loop"}
    /\ cfg \in {Default} \cup Specs /\ recv \in Contents \ {Bad}
    /\ cmd \in {"none", "complete", "acting", "slipped"}
    /\ kills \in 0..MaxKills /\ errors \in 0..MaxErrors
    /\ changes \in 0..MaxChanges /\ reverted \in BOOLEAN

Init ==
    /\ disabled \in DisableSunpike /\ spec = NoSpec
    /\ yaml = Absent /\ env = Absent /\ resmgr = Absent /\ link = "absent"
    /\ pc = "stopped" /\ back = "loop" /\ cfg = Default /\ recv = Absent
    /\ cmd = "none" /\ kills = 0 /\ errors = 0 /\ changes = 0 /\ reverted = FALSE

----------------------------------------------------------------------------
(* Start of nodeletd.                                                      *)

\* Mutation: no defaults.
Mut_Load(content) == content

\* DefaultConfig, overridden by the files.
Load(content) == IF content \in Specs THEN content ELSE Default

\* Complete and CreateNodeletFromConfig.
Boot ==
    /\ pc = "down" /\ yaml # Bad
    /\ cfg' = Load(yaml)
    /\ pc' = "update" /\ back' = "unlink"
    /\ UNCHANGED <<recv, disabled, spec, files, cmd, bounds>>

\* A file that is no YAML ends nodeletd, and systemd starts it again.
BootFails ==
    /\ pc = "down" /\ yaml = Bad
    /\ UNCHANGED vars

\* setKubeEnvSymlink, in two steps.
RemoveSymlink ==
    /\ pc = "unlink"
    /\ link' = "absent" /\ pc' = "link"
    /\ UNCHANGED <<back, cfg, recv, disabled, spec, yaml, env, resmgr, cmd, bounds>>

\* Mutation: the test of the error of Stat is reversed.
Mut_SetKubeEnvSymlink ==
    /\ pc = "link"
    /\ link' = IF disabled \/ env # Absent THEN "resmgr" ELSE "sunpike"
    /\ pc' = "loop"
    /\ UNCHANGED <<back, cfg, recv, disabled, spec, yaml, env, resmgr, cmd, bounds>>

SetKubeEnvSymlink ==
    /\ pc = "link"
    /\ link' = IF disabled \/ env = Absent THEN "resmgr" ELSE "sunpike"
    /\ pc' = "loop"
    /\ UNCHANGED <<back, cfg, recv, disabled, spec, yaml, env, resmgr, cmd, bounds>>

----------------------------------------------------------------------------
(* The loop, and the update at its end.                                    *)

\* What the service state of the default configuration makes Reconcile do.
Acts(c) == c # Default

Reconcile ==
    /\ pc = "loop"
    /\ pc' = IF Acts(cfg) THEN "acting" ELSE "update"
    /\ back' = "loop"
    /\ UNCHANGED <<cfg, recv, disabled, spec, files, cmd, bounds>>

\* The phases that Reconcile runs have run.
PhasesRan ==
    /\ pc = "acting" /\ pc' = "update"
    /\ UNCHANGED <<back, cfg, recv, disabled, spec, files, cmd, bounds>>

\* Sunpike cannot be reached.
UpdateFails ==
    /\ pc = "update" /\ ~disabled
    /\ pc' = back
    /\ UNCHANGED <<back, cfg, recv, disabled, spec, files, cmd, bounds>>

\* Mutation: Hosts are compared, which lose the types of their fields.
Mut_Unchanged(host) == host # host

\* The Host object says the same as config_sunpike.yaml.
Unchanged(host) == env # Absent /\ yaml = host

\* Update, and the tests of handleConfigUpdate.
Update ==
    /\ pc = "update" /\ ~disabled
    /\ IF spec = NoSpec \/ Unchanged(spec)
       THEN pc' = back /\ UNCHANGED recv
       ELSE pc' = "env" /\ recv' = spec
    /\ UNCHANGED <<back, cfg, disabled, spec, files, cmd, bounds>>

\* Mutation: config_sunpike.yaml is written first.
Mut_TruncateKubeEnv ==
    /\ pc = "env"
    /\ yaml' = recv
    /\ env' = Empty /\ pc' = "envLines"
    /\ UNCHANGED <<back, cfg, recv, disabled, spec, resmgr, link, cmd, bounds>>

\* writeEnvMapToKubeEnvFile truncates the file and writes line after line.
TruncateKubeEnv ==
    /\ pc = "env"
    /\ env' = Empty /\ pc' = "envLines"
    /\ UNCHANGED <<back, cfg, recv, disabled, spec, yaml, resmgr, link, cmd, bounds>>

WriteKubeEnv ==
    /\ pc = "envLines"
    /\ env' = recv /\ pc' = "yaml"
    /\ UNCHANGED <<back, cfg, recv, disabled, spec, yaml, resmgr, link, cmd, bounds>>

\* The error is logged, and the other file is written all the same.
WriteKubeEnvFails ==
    /\ pc \in {"env", "envLines"} /\ errors < MaxErrors
    /\ errors' = errors + 1 /\ pc' = "yaml"
    /\ UNCHANGED <<back, cfg, recv, disabled, spec, files, cmd, kills, changes, reverted>>

TruncateNodeletConfig ==
    /\ pc = "yaml"
    /\ yaml' = Empty /\ pc' = "yamlLines"
    /\ UNCHANGED <<back, cfg, recv, disabled, spec, env, resmgr, link, cmd, bounds>>

\* Mutation: no exit.
Mut_WriteNodeletConfig ==
    /\ pc = "yamlLines"
    /\ yaml' = recv /\ pc' = back /\ recv' = Absent
    /\ UNCHANGED <<back, cfg, disabled, spec, env, resmgr, link, cmd, bounds>>

\* writeEnvMapToNodeletConfigFile, and os.Exit.
WriteNodeletConfig ==
    /\ pc = "yamlLines"
    /\ yaml' = recv /\ pc' = "down" /\ recv' = Absent
    /\ UNCHANGED <<back, cfg, disabled, spec, env, resmgr, link, cmd, bounds>>

WriteNodeletConfigFails ==
    /\ errors < MaxErrors /\ errors' = errors + 1
    /\ \/ pc = "yaml" /\ UNCHANGED yaml
       \/ pc = "yamlLines" /\ yaml' \in {Empty, Bad}
    /\ pc' = "down" /\ recv' = Absent
    /\ UNCHANGED <<back, cfg, disabled, spec, env, resmgr, link, cmd, kills, changes, reverted>>

\* Without Sunpike: fetchKubeEnvMapFromConfigFile, and kube_resmgr.env is
\* removed.  A file that is no YAML ends the update.
RemoveResmgrKubeEnv ==
    /\ pc = "update" /\ disabled
    /\ IF yaml = Bad
       THEN pc' = back /\ UNCHANGED <<recv, resmgr>>
       ELSE /\ recv' = (IF yaml = Absent THEN Empty ELSE yaml)
            /\ resmgr' = Absent /\ pc' = "resmgr"
    /\ UNCHANGED <<back, cfg, disabled, spec, yaml, env, link, cmd, bounds>>

WriteResmgrKubeEnv ==
    /\ \/ pc = "resmgr" /\ pc' = "resmgrLines" /\ resmgr' = Empty /\ UNCHANGED recv
       \/ pc = "resmgrLines" /\ pc' = back /\ resmgr' = recv /\ recv' = Absent
    /\ UNCHANGED <<back, cfg, disabled, spec, yaml, env, link, cmd, bounds>>

WriteResmgrKubeEnvFails ==
    /\ pc \in {"resmgr", "resmgrLines"} /\ errors < MaxErrors
    /\ errors' = errors + 1 /\ pc' = back /\ recv' = Absent
    /\ UNCHANGED <<back, cfg, disabled, spec, files, cmd, kills, changes, reverted>>

----------------------------------------------------------------------------
(* Commands by hand.                                                       *)

\* complete reads the configuration; without one it panics.
CommandCompletes ==
    /\ cmd = "none" /\ yaml # Bad
    /\ cmd' = "complete"
    /\ UNCHANGED <<disabled, spec, files, daemon, bounds>>

\* Mutation: both agents must run for the command to be refused.
Mut_ArePF9AgentsRunning(hostagent) == pc \in Up /\ hostagent

\* systemctl status fails for a service that waits to be restarted.
ArePF9AgentsRunning(hostagent) == pc \in Up \/ hostagent

\* validate.  A command that slips in before a restart is told apart.
CommandValidates ==
    /\ cmd = "complete"
    /\ \E hostagent \in BOOLEAN :
          cmd' = CASE ArePF9AgentsRunning(hostagent) -> "none"
                   [] pc = "down" -> "slipped"
                   [] OTHER -> "acting"
    /\ UNCHANGED <<disabled, spec, files, daemon, bounds>>

\* start, stop or restart, all phases or one, has ended.
CommandEnds ==
    /\ cmd \in {"acting", "slipped"} /\ cmd' = "none"
    /\ UNCHANGED <<disabled, spec, files, daemon, bounds>>

----------------------------------------------------------------------------
(* What happens beside them.                                               *)

\* A new Host object in Sunpike, or nodeletctl uploads config_sunpike.yaml.
NewSpec ==
    /\ changes < MaxChanges /\ changes' = changes + 1
    /\ \E v \in Specs \ {spec} :
          /\ spec' = v /\ reverted' = (reverted \/ v < spec)
          /\ yaml' = IF disabled THEN v ELSE yaml
    /\ UNCHANGED <<disabled, env, resmgr, link, daemon, cmd, kills, errors>>

\* SIGTERM is not caught: nodeletd ends wherever it is.
Dies(state) ==
    /\ pc \in Up /\ kills < MaxKills
    /\ kills' = kills + 1
    /\ pc' = state /\ back' = "loop" /\ cfg' = Default /\ recv' = Absent
    /\ UNCHANGED <<disabled, spec, files, cmd, errors, changes, reverted>>

Killed == Dies("down")
SystemctlStop == Dies("stopped")

\* Whoever stopped nodeletd for a command starts it when the command has ended.
SystemctlStart ==
    /\ pc = "stopped" /\ pc' = "down"
    /\ cmd \in {"none", "complete"}
    /\ UNCHANGED <<back, cfg, recv, disabled, spec, files, cmd, bounds>>

----------------------------------------------------------------------------
Step ==
    \/ Boot \/ BootFails \/ RemoveSymlink \/ SetKubeEnvSymlink \/ Reconcile \/ PhasesRan
    \/ Update \/ UpdateFails
    \/ TruncateKubeEnv \/ WriteKubeEnv \/ TruncateNodeletConfig \/ WriteNodeletConfig
    \/ RemoveResmgrKubeEnv \/ WriteResmgrKubeEnv

Next ==
    \/ Step
    \/ WriteKubeEnvFails \/ WriteNodeletConfigFails \/ WriteResmgrKubeEnvFails
    \/ CommandCompletes \/ CommandValidates \/ CommandEnds
    \/ NewSpec \/ Killed \/ SystemctlStop \/ SystemctlStart

\* nodeletd runs, systemd restarts it, and Sunpike can be reached again and again.
Spec == Init /\ [][Next]_vars /\ WF_vars(Step) /\ SF_vars(Update)

----------------------------------------------------------------------------
(* Properties.                                                             *)

\* What the scripts of a phase read.
KubeEnv == CASE link = "sunpike" -> env [] link = "resmgr" -> resmgr [] OTHER -> Absent

\* handleConfigUpdate compares config_sunpike.yaml, the file it writes last: when
\* that one says what Sunpike says, so does kube_sunpike.env, wherever nodeletd
\* died on the way.  The exceptions are a write that failed, and a death between
\* the writes followed by a return to the earlier configuration.
ComparedIsWrittenLast ==
    pc = "update" /\ ~disabled /\ spec # NoSpec /\ Unchanged(spec)
        => env = spec \/ errors > 0 \/ (kills > 0 /\ reverted)

\* nodeletd, which may start while its file is truncated, runs phases only with
\* a configuration that was written as a whole; the Go code and the scripts of a
\* phase work with the same one, unless nodeletd died or a write failed.
PhasesSeeOneConfig ==
    pc = "acting" => /\ cfg \in Specs
                     /\ ~disabled /\ errors = 0 /\ kills = 0 => KubeEnv = cfg

\* A new configuration is picked up by a restarted nodeletd and its scripts,
\* wherever nodeletd dies on the way, with the exceptions of ComparedIsWrittenLast.
ConfigIsPickedUp ==
    \A v \in Specs :
        spec = v ~> \/ KubeEnv = v /\ (cfg = v \/ disabled)
                    \/ spec # v \/ pc = "stopped"
                    \/ errors > 0 \/ (kills > 0 /\ reverted)

\* nodeletd does not restart for ever: what it wrote is what it compares.
RestartsEnd == <>[](pc # "yamlLines")

\* A command that found nodeletd stopped by systemctl does not run phases beside
\* it, as long as nodeletd is started again only after the command has ended
\* (SystemctlStart).  A command that slipped in before a restart may.
NeverBoth == ~(pc = "acting" /\ cmd = "acting")
=============================================================================
