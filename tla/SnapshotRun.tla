---------------------------- MODULE SnapshotRun ----------------------------
(***************************************************************************)
(* The snapshot command line (tooling/snapshot/src/cli.ts, pin.ts): parse  *)
(* the flags, read the inputs, generate the artifact, pin its bytes if     *)
(* asked to, write the file last, verify it.  A run may fail or be killed  *)
(* at any step and be started again with other inputs; the file of the     *)
(* last run is replaced.  An artifact is known by what determines it: the  *)
(* chain id, the excluded addresses and the holders found on chain.        *)
(***************************************************************************)
EXTENDS Integers, FiniteSets

CONSTANTS
  Addresses,    \* addresses an operator may exclude
  NodeChain,    \* what the node says its chain id is
  Chains,       \* what --chain-id may say
  Histories,    \* what the chain's logs may fold to
  MaxPinned     \* bound: documents the pinning service holds

VARIABLES
  phase,     \* "idle", "generating", "generated" or "writing"
  options,   \* of this run: excluded addresses, chain id, --pin-ipfs, $IPFS_API_URL
  artifact,  \* the document in memory
  file,      \* the output file: a document, or one that does not parse
  pinned,    \* documents the pinning service holds
  exit       \* exit code of the last command, "none" while it runs

runVars == <<phase, options, artifact, file, pinned, exit>>

NoFile == [state |-> "absent", document |-> {}]

\* The bytes of an artifact; a CID is the address of bytes and known by them.
Bytes(content, stamped) == [content |-> content, stamped |-> stamped]

(***************************************************************************)
(* Inputs                                                                  *)
(***************************************************************************)

Unset == "unset"

\* Flags that parse: an address may be spelled in any case and listed twice.
Flags == [exclude : SUBSET Addresses, chainId : Chains \cup {Unset}, rpc : BOOLEAN, pinIpfs : BOOLEAN]

Environment == [rpc : BOOLEAN, api : BOOLEAN]

\* A malformed or missing flag ends the program before the command runs.
RejectFlags ==
  /\ phase = "idle" /\ exit' = "1" /\ artifact' = {}
  /\ UNCHANGED <<phase, options, file, pinned>>

ReadExcludeFile == {[ok |-> FALSE, addresses |-> {}]} \cup [ok : {TRUE}, addresses : SUBSET Addresses]

\* What the run goes by: the flag's chain id before the node's, the exclusions
\* of flag and file together.
SnapshotInput(flags, env, listed) ==
  [excluded |-> flags.exclude \cup listed.addresses,
   chain |-> IF flags.chainId = Unset THEN NodeChain ELSE flags.chainId,
   pin |-> flags.pinIpfs, api |-> env.api]

\* runSnapshot up to the scan: no endpoint, or an exclusion file that cannot be
\* used, ends it.
Start ==
  /\ phase = "idle"
  /\ \E flags \in Flags, env \in Environment, listed \in ReadExcludeFile :
       LET usable == (flags.rpc \/ env.rpc) /\ listed.ok IN
       /\ options' = SnapshotInput(flags, env, listed)
       /\ phase' = IF usable THEN "generating" ELSE "idle"
       /\ exit' = IF usable THEN "none" ELSE "1"
  /\ artifact' = {}
  /\ UNCHANGED <<file, pinned>>

Generate ==
  /\ phase = "generating"
  /\ \E holders \in Histories :
       artifact' = {[content |-> <<options.chain, options.excluded, holders>>, cid |-> {}]}
  /\ phase' = "generated"
  /\ UNCHANGED <<options, file, pinned, exit>>

(***************************************************************************)
(* Pinning                                                                 *)
(***************************************************************************)

\* Mutant: the placeholder for the CID is uploaded with the rest.
UploadStamped(document) == Bytes(document.content, TRUE)

\* What is uploaded: the artifact without a CID, which cannot be part of what
\* it addresses.
Upload(document) == Bytes(document.content, FALSE)

\* fetch throws or answers an error, or answers a document with or without a CID.
Responses == {"error", "no cid", "cid"}

ExtractCid(response, bytes) == IF response = "cid" THEN {bytes} ELSE {}

\* HttpPinner: the service may have taken the file whatever reached the tool.
HttpPin(document, response) ==
  LET bytes == Upload(document) IN
  /\ pinned' \in {pinned \cup {bytes}} \cup (IF response = "error" THEN {pinned} ELSE {})
  /\ Cardinality(pinned') <= MaxPinned
  /\ artifact' = {[document EXCEPT !.cid = ExtractCid(response, bytes)]}

\* NoopPinner throws, which skips the pin.
NoopPin == UNCHANGED <<artifact, pinned>>

ResolvePinner(api) == IF api THEN "http" ELSE "noop"

\* Every failure is only a warning.
Pin ==
  /\ phase = "generated"
  /\ phase' = "writing"
  /\ \/ ~options.pin /\ UNCHANGED <<artifact, pinned>>
     \/ options.pin /\ ResolvePinner(options.api) = "noop" /\ NoopPin
     \/ /\ options.pin /\ ResolvePinner(options.api) = "http"
        /\ \E document \in artifact, response \in Responses : HttpPin(document, response)
  /\ UNCHANGED <<options, file, exit>>

\* writeFileSync replaces the file; a kill half way leaves one that does not parse.
Write ==
  /\ phase = "writing"
  /\ file' = [state |-> "written", document |-> artifact]
  /\ phase' = "idle" /\ exit' = "0"
  /\ UNCHANGED <<options, artifact, pinned>>

\* The run throws or is killed.
Kill ==
  /\ phase # "idle"
  /\ \/ UNCHANGED file
     \/ phase = "writing" /\ file' = [state |-> "partial", document |-> {}]
  /\ phase' = "idle" /\ artifact' = {} /\ exit' = "1"
  /\ UNCHANGED <<options, pinned>>

\* runVerify of the output; what it accepts is the subject of Entitlements.
Verify ==
  /\ phase = "idle" /\ file # NoFile
  /\ exit' = IF file.state = "written" THEN "0" ELSE "1"
  /\ UNCHANGED <<phase, options, artifact, file, pinned>>

RunInit ==
  /\ phase = "idle" /\ artifact = {} /\ file = NoFile /\ pinned = {} /\ exit = "none"
  /\ options = [excluded |-> {}, chain |-> NodeChain, pin |-> FALSE, api |-> FALSE]

RunNext == RejectFlags \/ Start \/ Generate \/ Pin \/ Write \/ Kill \/ Verify

RunSpec == RunInit /\ [][RunNext]_runVars

\* The CID in the file on disk addresses bytes that are pinned, and they are
\* the file's own without the CID, under the chain id the file names: through
\* failed uploads, answers nobody could read, kills and reruns over another
\* history or chain; and a run that ends well leaves its own file
\* (cli.ts:251-356, pin.ts:107-141).
PinMatchesFile ==
  /\ \A document \in file.document : \A bytes \in document.cid :
       bytes \in pinned /\ bytes = Bytes(document.content, FALSE)
  /\ exit = "0" /\ artifact # {} =>
       \A document \in file.document :
         document.content[1] = options.chain /\ document.content[2] = options.excluded
=============================================================================
