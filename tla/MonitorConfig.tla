--------------------------- MODULE MonitorConfig ---------------------------
(***************************************************************************)
(* How the monitor settles on a deployment to watch and on its settings:   *)
(* flags, environment variables and a deployments file, field by field.    *)
(* An operator starts the monitor with any combination of them; the        *)
(* resolution either fails or yields a chain id, two addresses and the     *)
(* optional settings.                                                      *)
(***************************************************************************)
EXTENDS Integers

CONSTANTS
  ChainIds,  \* chains an operator may name
  Files      \* deployment files: [name, filed, chainId, registry, distributor], filed
             \* being the chain id a file in the default place is named after

Unset == "unset"
Bad == "bad"     \* a value that does not parse

\* A file has a name, and in it the script that deployed the contracts wrote
\* their chain and their addresses.
ConfigAssumption ==
  \A f \in Files : /\ f.name \notin {Unset, Bad} /\ f.chainId # 0
                   /\ f.registry = "file" /\ f.distributor = "file"

\* A field is unset, malformed, or an address known by where it came from.
FlagOrEnv(source) == {Unset, Bad, source}

Addressing ==
  [rpc : BOOLEAN,
   flagRegistry : FlagOrEnv("flag"), envRegistry : FlagOrEnv("env"),
   flagDistributor : FlagOrEnv("flag"), envDistributor : FlagOrEnv("env"),
   flagChain : ChainIds \cup {0}, envChain : ChainIds \cup {0},
   path : {Unset, Bad} \cup {f.name : f \in Files}]

\* A flag's number is parsed by the command line, which rejects a malformed one.
Settings ==
  [flagSeverity : FlagOrEnv("flag"), envSeverity : FlagOrEnv("env"),
   flagInterval : {Unset, "flag"}, envInterval : FlagOrEnv("env"),
   envThreshold : FlagOrEnv("env"), funders : FlagOrEnv("env")]

\* Addresses and settings do not interact, so one of the two varies.
Usual ==
  [flagSeverity |-> Unset, envSeverity |-> Unset, flagInterval |-> Unset, envInterval |-> Unset,
   envThreshold |-> Unset, funders |-> Unset]
Plain ==
  {w \in Addressing : /\ w.rpc /\ w.path = Unset
                     /\ w.flagRegistry = "flag" /\ w.envRegistry = Unset
                     /\ w.flagDistributor = "flag" /\ w.envDistributor = Unset
                     /\ w.flagChain # 0 /\ w.envChain = 0}
Inputs == [where : Addressing, how : {Usual}] \cup [where : Plain, how : Settings]

VARIABLES
  input,   \* where to look and how to run: flags, environment, path of the file
  config   \* what resolveConfig returned: fields, or ok = FALSE

vars == <<input, config>>

Pending ==
  [done |-> FALSE, ok |-> FALSE, chain |-> 0, registry |-> Unset, distributor |-> Unset,
   severity |-> Unset, interval |-> Unset, threshold |-> Unset, funders |-> Unset]
Failed == [Pending EXCEPT !.done = TRUE]

\* The ?? operator.
First(a, b) == IF a # Unset THEN a ELSE b
FirstChain(a, b) == IF a # 0 THEN a ELSE b

\* Without a path, the file named after the chain id.
ByChain(chain) == {f \in Files : f.filed = chain}

\* loadDeployment: an unreadable file counts as none.
Loaded(chain, path) ==
  IF path = Unset THEN ByChain(chain) ELSE {f \in Files : f.name = path}

\* Mutant: the environment is looked at first.
AddressEnvFirst(flag, env, file) == First(First(env, flag), file)

Address(flag, env, file) == First(First(flag, env), file)

Field(deployment, name) ==
  IF deployment = {} THEN Unset ELSE (CHOOSE f \in deployment : TRUE)[name]

\* The built-in thresholds, and the other defaults.
Default == "default"

\* numEnv, bigEnv, parseSeverity: what does not parse counts as unset.
Parsed(v) == IF v = Bad THEN Unset ELSE v

Severity(how) == First(Parsed(First(how.flagSeverity, how.envSeverity)), Default)
Interval(how) == First(First(how.flagInterval, Parsed(how.envInterval)), Default)
Threshold(how) == First(Parsed(how.envThreshold), Default)

\* An address list with a malformed member throws.
FundersUsable(how) == how.funders # Bad

\* resolveConfig.  A malformed address throws wherever it is looked at; the
\* file is opened only for an address that is still missing.
Resolved(where, how) ==
  LET chain == FirstChain(where.flagChain, where.envChain)
      direct == {First(where.flagRegistry, where.envRegistry),
                 First(where.flagDistributor, where.envDistributor)}
      file == IF Unset \in direct /\ chain # 0 THEN Loaded(chain, where.path) ELSE {}
      registry == Address(where.flagRegistry, where.envRegistry, Field(file, "registry"))
      distributor == Address(where.flagDistributor, where.envDistributor, Field(file, "distributor"))
      number == IF file = {} THEN chain ELSE (CHOOSE f \in file : TRUE).chainId
  IN  IF /\ where.rpc /\ number # 0 /\ FundersUsable(how)
         /\ {registry, distributor} \cap {Unset, Bad} = {}
      THEN [done |-> TRUE, ok |-> TRUE, chain |-> number, registry |-> registry,
            distributor |-> distributor, severity |-> Severity(how), interval |-> Interval(how),
            threshold |-> Threshold(how), funders |-> how.funders]
      ELSE Failed

Init == input \in Inputs /\ config = Pending

Resolve == ~config.done /\ config' = Resolved(input.where, input.how) /\ UNCHANGED input

Spec == Init /\ [][Resolve]_vars

(***************************************************************************)
(* Properties                                                              *)
(***************************************************************************)

\* A reason not to start: an RPC endpoint, a chain id or an address that no
\* source supplies, or an address that does not parse.
Unresolvable ==
  LET where == input.where
      direct == {First(where.flagRegistry, where.envRegistry),
                 First(where.flagDistributor, where.envDistributor)}
  IN  \/ ~where.rpc \/ input.how.funders = Bad
      \/ where.flagChain = 0 /\ where.envChain = 0
      \/ Bad \in direct
      \/ /\ Unset \in direct
         /\ \/ where.path = Bad
            \/ where.path = Unset /\ ByChain(FirstChain(where.flagChain, where.envChain)) = {}

\* The monitor refuses to start only for a reason, and otherwise watches the
\* addresses of the strongest source that names each: a flag is never
\* overridden, an environment variable only by a flag, and the file, which is
\* opened only when something is missing, fills only what is missing.  No
\* setting takes a value that did not parse, and the list of funders, whose
\* absence turns a check off, is never dropped (config.ts:56-195).
ConfigResolved ==
  config.done =>
    /\ ~config.ok => Unresolvable
    /\ config.ok =>
         /\ Bad \notin {config.severity, config.interval, config.threshold}
         /\ config.funders = input.how.funders
         /\ config.registry = IF input.where.flagRegistry # Unset THEN "flag"
                              ELSE IF input.where.envRegistry # Unset THEN "env" ELSE "file"
         /\ config.distributor = IF input.where.flagDistributor # Unset THEN "flag"
                                 ELSE IF input.where.envDistributor # Unset THEN "env" ELSE "file"
=============================================================================
