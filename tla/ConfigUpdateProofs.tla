------------------------- MODULE ConfigUpdateProofs -------------------------
(***************************************************************************)
(* For every number of configurations, kills and failed writes: the file   *)
(* that is compared is the one that was written last, and the Go code and  *)
(* the scripts of a phase see one configuration.                           *)
(***************************************************************************)
EXTENDS ConfigUpdate, TLAPS

Writing == {"env", "envLines", "yaml", "yamlLines"}

\* recv is the configuration being written; kube_sunpike.env has it before the
\* other file is touched.
WritesInOrder ==
    /\ pc \in Writing => ~disabled /\ recv \in Specs
    /\ pc \in {"resmgr", "resmgrLines"} => disabled
    /\ pc \in {"yaml", "yamlLines"} /\ errors = 0 => env = recv

\* While the configurations only grow, a file that was overtaken by the other one
\* is older than what Sunpike says, also after a kill.
OlderIsNoticed ==
    ~disabled /\ ~reverted /\ errors = 0 =>
        /\ pc \in Writing => recv <= spec
        /\ pc \in Writing /\ yaml \in Specs => yaml < recv
        /\ yaml \in Specs => yaml <= spec /\ (env = yaml \/ yaml < spec)

\* Without kills the files differ only while they are being written, and nodeletd
\* has read what they say and linked kube.env to it.
FilesAgree ==
    ~disabled /\ kills = 0 /\ errors = 0 =>
        /\ pc \notin {"envLines", "yaml", "yamlLines"} => env = yaml
        /\ pc # "yamlLines" => yaml \in {Absent} \cup Specs
        /\ pc \in Up /\ pc # "yamlLines" => cfg = yaml
        /\ pc \in {"loop", "acting"} \/ (pc = "update" /\ back = "loop")
              => link = IF env = Absent THEN "resmgr" ELSE "sunpike"

\* A phase runs only with a configuration that is one.
WholeConfig == pc = "acting" => cfg # Default

\* nodeletd stays stopped until the command has ended.
CommandAlone == cmd = "acting" => pc = "stopped"

IInv ==
    /\ TypeOK /\ WritesInOrder /\ OlderIsNoticed /\ FilesAgree /\ WholeConfig
    /\ CommandAlone

USE ConfigAssumption DEF Specs, Absent, Default, NoSpec, Empty, Bad, Contents, Up, Writing

\* The invariant holds at the start: nodeletd is stopped and no file exists.
LEMMA InitIInv == Init => IInv
  <1> SUFFICES ASSUME Init PROVE IInv
      OBVIOUS
  <1> USE DEF Init
  <1>a. /\ 0 \in Contents \ {Bad} /\ 0 \in 0..MaxKills /\ 0 \in 0..MaxErrors
        /\ 0 \in 0..MaxChanges
      OBVIOUS
  <1>1. TypeOK
      BY <1>a DEF TypeOK
  <1>2. WritesInOrder /\ WholeConfig /\ CommandAlone
      BY DEF WritesInOrder, WholeConfig, CommandAlone
  <1>3. OlderIsNoticed
      BY DEF OlderIsNoticed
  <1>4. FilesAgree
      BY DEF FilesAgree
  <1>. QED
      BY <1>1, <1>2, <1>3, <1>4 DEF IInv

\* Every step of nodeletd, of a command, of Sunpike and of systemd preserves it.
LEMMA NextIInv == IInv /\ [Next]_vars => IInv'
  <1> SUFFICES ASSUME IInv, [Next]_vars PROVE IInv'
      OBVIOUS
  <1> USE DEF IInv, TypeOK, WritesInOrder, OlderIsNoticed, FilesAgree, WholeConfig,
             CommandAlone, vars, files, daemon, bounds
  <1>1. CASE Boot
      BY <1>1 DEF Boot, Load
  <1>2. CASE BootFails
      BY <1>2 DEF BootFails
  <1>3. CASE RemoveSymlink
      BY <1>3 DEF RemoveSymlink
  <1>4. CASE SetKubeEnvSymlink
      BY <1>4 DEF SetKubeEnvSymlink
  <1>5. CASE Reconcile
      BY <1>5 DEF Reconcile, Acts
  <1>6. CASE PhasesRan
      BY <1>6 DEF PhasesRan
  <1>7. CASE Update
      BY <1>7 DEF Update, Unchanged
  <1>8. CASE UpdateFails
      BY <1>8 DEF UpdateFails
  <1>9. CASE TruncateKubeEnv
      BY <1>9 DEF TruncateKubeEnv
  <1>10. CASE WriteKubeEnv
      BY <1>10 DEF WriteKubeEnv
  <1>11. CASE TruncateNodeletConfig
      BY <1>11 DEF TruncateNodeletConfig
  <1>12. CASE WriteNodeletConfig
      BY <1>12 DEF WriteNodeletConfig
  <1>13. CASE RemoveResmgrKubeEnv
    <2>a. recv' \in Contents \ {Bad} /\ resmgr' \in Contents \ {Bad}
        BY <1>13 DEF RemoveResmgrKubeEnv
    <2>b. pc' \in Up
        BY <1>13 DEF RemoveResmgrKubeEnv
    <2>1. TypeOK'
        BY <1>13, <2>a, <2>b DEF RemoveResmgrKubeEnv
    <2>2. WritesInOrder'
        BY <1>13 DEF RemoveResmgrKubeEnv
    <2>3. OlderIsNoticed'
        BY <1>13 DEF RemoveResmgrKubeEnv
    <2>4. FilesAgree'
        BY <1>13 DEF RemoveResmgrKubeEnv
    <2>5. WholeConfig' /\ CommandAlone'
        BY <1>13 DEF RemoveResmgrKubeEnv
    <2>. QED
        BY <2>1, <2>2, <2>3, <2>4, <2>5
  <1>14. CASE WriteResmgrKubeEnv
    <2>1. TypeOK'
        BY <1>14 DEF WriteResmgrKubeEnv
    <2>2. WritesInOrder'
        BY <1>14 DEF WriteResmgrKubeEnv
    <2>3. OlderIsNoticed'
        BY <1>14 DEF WriteResmgrKubeEnv
    <2>4. FilesAgree'
        BY <1>14 DEF WriteResmgrKubeEnv
    <2>5. WholeConfig' /\ CommandAlone'
        BY <1>14 DEF WriteResmgrKubeEnv
    <2>. QED
        BY <2>1, <2>2, <2>3, <2>4, <2>5
  <1>15. CASE WriteKubeEnvFails
      BY <1>15 DEF WriteKubeEnvFails
  <1>16. CASE WriteNodeletConfigFails
      BY <1>16 DEF WriteNodeletConfigFails
  <1>17. CASE WriteResmgrKubeEnvFails
      BY <1>17 DEF WriteResmgrKubeEnvFails
  <1>18. CASE CommandCompletes
      BY <1>18 DEF CommandCompletes
  <1>19. CASE CommandValidates
      BY <1>19 DEF CommandValidates, ArePF9AgentsRunning
  <1>20. CASE CommandEnds
      BY <1>20 DEF CommandEnds
  <1>21. CASE NewSpec
    <2>a. spec' \in Specs /\ yaml' \in Contents /\ changes' \in 0..MaxChanges
        BY <1>21 DEF NewSpec
    <2>b. reverted' \in BOOLEAN
        BY <1>21, Zenon DEF NewSpec
    <2>1. TypeOK'
        BY <1>21, <2>a, <2>b DEF NewSpec
    <2>2. WritesInOrder'
        BY <1>21 DEF NewSpec
    <2>3. OlderIsNoticed'
      <3>1. PICK v \in Specs \ {spec} :
                spec' = v /\ reverted' = (reverted \/ v < spec)
          BY <1>21, Zenon DEF NewSpec
      <3>2. ~reverted' => ~reverted /\ ~(v < spec)
          BY <3>1, Zenon
      <3>3. ~reverted' => ~reverted /\ spec < spec'
          BY <3>1, <3>2
      <3>4. ~disabled => yaml' = yaml
          BY <1>21 DEF NewSpec
      <3>5. UNCHANGED <<disabled, env, pc, recv, errors>>
          BY <1>21 DEF NewSpec
      <3>. QED
          BY <3>3, <3>4, <3>5, <2>a
    <2>4. FilesAgree'
        BY <1>21 DEF NewSpec
    <2>5. WholeConfig' /\ CommandAlone'
        BY <1>21 DEF NewSpec
    <2>. QED
        BY <2>1, <2>2, <2>3, <2>4, <2>5
  <1>22. CASE Killed
      BY <1>22 DEF Killed, Dies
  <1>23. CASE SystemctlStop
      BY <1>23 DEF SystemctlStop, Dies
  <1>24. CASE SystemctlStart
      BY <1>24 DEF SystemctlStart
  <1>25. CASE UNCHANGED vars
      BY <1>25
  <1>. QED
      BY <1>1, <1>2, <1>3, <1>4, <1>5, <1>6, <1>7, <1>8, <1>9, <1>10, <1>11, <1>12, <1>13, <1>14, <1>15, <1>16, <1>17, <1>18, <1>19, <1>20, <1>21, <1>22, <1>23, <1>24, <1>25 DEF Next, Step

----------------------------------------------------------------------------
\* Every state of nodeletd and of its files satisfies the invariant.
THEOREM Invariance == Spec => []IInv
  BY InitIInv, NextIInv, PTL DEF Spec

\* Every variable keeps its type, whatever is killed, fails or is written.
THEOREM TypeCorrect == Spec => []TypeOK
  <1>1. IInv => TypeOK
      BY DEF IInv
  <1>. QED
      BY <1>1, Invariance, PTL

\* The comparison with Sunpike says "unchanged" only of a kube_sunpike.env that
\* was written as well, wherever nodeletd was killed, unless a write failed or an
\* earlier configuration came back after a kill.
THEOREM ComparedLast == Spec => []ComparedIsWrittenLast
  <1>1. IInv => ComparedIsWrittenLast
    <2> SUFFICES ASSUME IInv, pc = "update", ~disabled, spec # NoSpec, Unchanged(spec),
                        errors = 0, kills = 0 \/ ~reverted
                 PROVE  env = spec
        BY DEF ComparedIsWrittenLast, IInv, TypeOK
    <2>1. yaml = spec /\ env # Absent
        BY DEF Unchanged
    <2>2. CASE kills = 0
        BY <2>1, <2>2 DEF IInv, FilesAgree
    <2>3. CASE ~reverted
        BY <2>1, <2>3 DEF IInv, TypeOK, OlderIsNoticed
    <2>. QED
        BY <2>2, <2>3
  <1>. QED
      BY <1>1, Invariance, PTL

\* Phases run only with a configuration that was written as a whole, also when
\* nodeletd starts on a truncated file, and the Go code of a phase and its scripts
\* work with the same one, as long as nodeletd was not killed and no write failed.
THEOREM OneConfig == Spec => []PhasesSeeOneConfig
  <1>1. IInv => PhasesSeeOneConfig
      BY DEF IInv, TypeOK, FilesAgree, WholeConfig, PhasesSeeOneConfig, KubeEnv
  <1>. QED
      BY <1>1, Invariance, PTL

\* A command that found nodeletd stopped by systemctl never runs phases beside
\* it, when nodeletd is started again only after the command has ended.
THEOREM CommandsAlone == Spec => []NeverBoth
  <1>1. IInv => NeverBoth
      BY DEF IInv, CommandAlone, NeverBoth
  <1>. QED
      BY <1>1, Invariance, PTL
=============================================================================
