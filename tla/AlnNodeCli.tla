----------------------------- MODULE AlnNodeCli -----------------------------
(***************************************************************************)
(* The node CLI (src/aln/core/cli/aln_node_cli.js): `aln init [--force]`  *)
(* and `aln start`, one process at a time, against a data directory that  *)
(* outlives the process.  Each step is one statement of init or start     *)
(* that touches the disk or awaits; the process may die between any two   *)
(* (kill, power loss), and what was already on disk stays.                *)
(*                                                                         *)
(* The state store, profile loader and consensus engine are not in this   *)
(* repository.  What they do is left open where the CLI depends on it:    *)
(* loading the profile may throw, validate() may fail, open() of a        *)
(* missing directory may create it or reject, the consensus promises may  *)
(* reject.  An awaited setAccount is taken to be durable.  The profile's  *)
(* storageConfig.stateDir is taken to be the directory init creates.      *)
(* `aln status` is a separate process that only reads over HTTP; the     *)
(* node's reply (success, isRunning) is the HTTP server's and consensus  *)
(* engine's and is left open.                                             *)
(***************************************************************************)
EXTENDS Naturals, Sequences, TLC

CONSTANTS
    GenesisAccounts,   \* options.genesisAccounts: <<[address, balance]>>
    NoBalance,         \* an account entry without a balance
    ProfileLoads,      \* outcomes of loadProfileWithDefaults: TRUE, FALSE (throws)
    ProfileValid,      \* outcomes of profile.validate().valid
    OpenCreates,       \* outcomes of open() on a missing directory: TRUE, FALSE
    StoreOk,           \* outcomes of an awaited open, setAccount or close
    ConsensusOk,       \* outcomes of consensus.initialize() / start()
    ApiEnabled,        \* networkConfig.apiEnabled
    ApiPorts,          \* values of networkConfig.apiPort
    FetchLoads,        \* outcomes of `await import('node-fetch')`
    MaxStatusCalls,    \* bound on the `aln status` commands
    MaxCrashes

VARIABLES
    disk,      \* the data directory: dataDir, state and blocks exist; accounts
    proc,      \* the running CLI process, or cmd = "none"
    outcome,   \* how the last process ended, as its output shows it
    crashes,   \* processes killed so far
    report,    \* what the last `aln status` printed
    statusCalls

statusVars == <<report, statusCalls>>
vars == <<disk, proc, outcome, crashes, statusVars>>

Idle == [cmd |-> "none", pc |-> "none", force |-> FALSE, i |-> 0, http |-> FALSE,
         port |-> 0]

\* `account.balance || '0'`
BalanceOf(acc) == IF acc.balance = NoBalance THEN "0" ELSE acc.balance

Goto(p) == proc' = [proc EXCEPT !.pc = p]
Exit(o) == proc' = Idle /\ outcome' = o

(* ------------------------------ main --------------------------------- *)
\* `aln init [--force]` or `aln start` (`aln status` changes nothing)
Invoke ==
    /\ proc.cmd = "none"
    /\ \/ \E f \in BOOLEAN : proc' = [Idle EXCEPT !.cmd = "init", !.pc = "check",
                                                   !.force = f]
       \/ proc' = [Idle EXCEPT !.cmd = "start", !.pc = "profile"]
    /\ outcome' = "inProgress"
    /\ UNCHANGED <<disk, crashes, statusVars>>

(* ------------------------------ init --------------------------------- *)
\* `if (fs.existsSync(dataDir) && !force) return;`
InitCheck ==
    /\ proc.cmd = "init" /\ proc.pc = "check"
    /\ IF disk.dataDir /\ ~proc.force THEN Exit("refused")
       ELSE Goto("mkdirState") /\ UNCHANGED outcome
    /\ UNCHANGED <<disk, crashes, statusVars>>

\* seeded fault: the first mkdirSync is given dataDir instead of dataDir/state
InitMkdirStateDataDirOnly ==
    /\ proc.cmd = "init" /\ proc.pc = "mkdirState"
    /\ disk' = [disk EXCEPT !.dataDir = TRUE]
    /\ Goto("mkdirBlocks")
    /\ UNCHANGED <<outcome, crashes, statusVars>>

\* seeded fault: --force removes the old directory before re-creating it
InitMkdirStateWipe ==
    /\ proc.cmd = "init" /\ proc.pc = "mkdirState"
    /\ disk' = [dataDir |-> TRUE, state |-> TRUE, blocks |-> FALSE,
                accounts |-> IF proc.force THEN <<>> ELSE disk.accounts]
    /\ Goto("mkdirBlocks")
    /\ UNCHANGED <<outcome, crashes, statusVars>>

\* mkdirSync(dataDir/state, {recursive}) creates dataDir too
InitMkdirState ==
    /\ proc.cmd = "init" /\ proc.pc = "mkdirState"
    /\ disk' = [disk EXCEPT !.dataDir = TRUE, !.state = TRUE]
    /\ Goto("mkdirBlocks")
    /\ UNCHANGED <<outcome, crashes, statusVars>>

InitMkdirBlocks ==
    /\ proc.cmd = "init" /\ proc.pc = "mkdirBlocks"
    /\ disk' = [disk EXCEPT !.blocks = TRUE]
    /\ Goto("profile")
    /\ UNCHANGED <<outcome, crashes, statusVars>>

\* loadProfileWithDefaults; a throw rejects init, which main's catch logs
InitProfile ==
    /\ proc.cmd = "init" /\ proc.pc = "profile"
    /\ \E ok \in ProfileLoads :
          IF ok THEN Goto("open") /\ UNCHANGED outcome ELSE Exit("failed")
    /\ UNCHANGED <<disk, crashes, statusVars>>

\* `await stateStore.open()`; a rejection rejects init, which main's catch
\* logs
InitOpen ==
    /\ proc.cmd = "init" /\ proc.pc = "open"
    /\ \E ok \in StoreOk :
          IF ok THEN proc' = [proc EXCEPT !.pc = "genesis", !.i = 1] /\ UNCHANGED outcome
          ELSE Exit("failed")
    /\ UNCHANGED <<disk, crashes, statusVars>>

\* `stateStore.setAccount(account.address, {nonce: 0, balance, ...})`
\* replaces whatever the store held for the address
SetAccount(acc) ==
    disk' = [disk EXCEPT !.accounts =
                (acc.address :> [nonce |-> 0, balance |-> BalanceOf(acc)]) @@ @]

\* seeded fault: the loop stops before the last genesis account
InitGenesisSkipLast ==
    /\ proc.cmd = "init" /\ proc.pc = "genesis"
    /\ IF proc.i < Len(GenesisAccounts)
       THEN \E ok \in StoreOk :
               IF ok THEN /\ SetAccount(GenesisAccounts[proc.i])
                          /\ proc' = [proc EXCEPT !.i = @ + 1] /\ UNCHANGED outcome
               ELSE Exit("failed") /\ UNCHANGED disk
       ELSE Goto("close") /\ UNCHANGED <<disk, outcome>>
    /\ UNCHANGED <<crashes, statusVars>>

\* one `await stateStore.setAccount(...)` of the genesis loop; a rejection
\* rejects init and writes nothing
InitGenesis ==
    /\ proc.cmd = "init" /\ proc.pc = "genesis"
    /\ IF proc.i <= Len(GenesisAccounts)
       THEN \E ok \in StoreOk :
               IF ok THEN /\ SetAccount(GenesisAccounts[proc.i])
                          /\ proc' = [proc EXCEPT !.i = @ + 1] /\ UNCHANGED outcome
               ELSE Exit("failed") /\ UNCHANGED disk
       ELSE Goto("close") /\ UNCHANGED <<disk, outcome>>
    /\ UNCHANGED <<crashes, statusVars>>

\* `await stateStore.close()`, then 'Initialization complete!'
InitClose ==
    /\ proc.cmd = "init" /\ proc.pc = "close"
    /\ \E ok \in StoreOk : Exit(IF ok THEN "complete" ELSE "failed")
    /\ UNCHANGED <<disk, crashes, statusVars>>

(* ------------------------------ start -------------------------------- *)
\* loadProfileWithDefaults, then `if (!validation.valid) process.exit(1)`,
\* then the network config the HTTP server will listen with
StartProfile ==
    /\ proc.cmd = "start" /\ proc.pc = "profile"
    /\ \E loads \in ProfileLoads, valid \in ProfileValid, port \in ApiPorts :
          IF loads /\ valid
          THEN proc' = [proc EXCEPT !.pc = "open", !.port = port] /\ UNCHANGED outcome
          ELSE Exit("failed")
    /\ UNCHANGED <<disk, crashes, statusVars>>

\* `new StateStore(storageConfig.stateDir).open()`; start never checks that
\* init ran
StartOpen ==
    /\ proc.cmd = "start" /\ proc.pc = "open"
    /\ \/ /\ disk.state /\ UNCHANGED disk
          /\ \E ok \in StoreOk :
                IF ok THEN Goto("consensusInit") /\ UNCHANGED outcome ELSE Exit("failed")
       \/ /\ ~disk.state
          /\ \E creates \in OpenCreates :
                IF creates
                THEN /\ disk' = [disk EXCEPT !.dataDir = TRUE, !.state = TRUE]
                     /\ Goto("consensusInit") /\ UNCHANGED outcome
                ELSE Exit("failed") /\ UNCHANGED disk
    /\ UNCHANGED <<crashes, statusVars>>

\* `await consensus.initialize()`
StartConsensusInit ==
    /\ proc.cmd = "start" /\ proc.pc = "consensusInit"
    /\ \E ok \in ConsensusOk :
          IF ok THEN Goto("http") /\ UNCHANGED outcome ELSE Exit("failed")
    /\ UNCHANGED <<disk, crashes, statusVars>>

\* `if (networkConfig.apiEnabled) httpServer.start()`
StartHttp ==
    /\ proc.cmd = "start" /\ proc.pc = "http"
    /\ proc' = [proc EXCEPT !.pc = "consensusStart", !.http = ApiEnabled]
    /\ UNCHANGED <<disk, outcome, crashes, statusVars>>

\* `await consensus.start()`; if it rejects, main's catch logs the error and
\* a started HTTP server keeps the process alive with no block production
\* and no SIGINT handler
StartConsensusStart ==
    /\ proc.cmd = "start" /\ proc.pc = "consensusStart"
    /\ \E ok \in ConsensusOk :
          CASE ok        -> Goto("running") /\ UNCHANGED outcome
            [] proc.http -> Goto("serving") /\ UNCHANGED outcome
            [] OTHER     -> Exit("failed")
    /\ UNCHANGED <<disk, crashes, statusVars>>

\* Ctrl-C: the handler stops consensus and closes the store; before the
\* handler is registered the default action kills the process
Sigint ==
    /\ proc.cmd = "start"
    /\ \/ proc.pc = "running" /\ Goto("stopping") /\ UNCHANGED outcome
       \/ proc.pc = "serving" /\ Exit("killed")
    /\ UNCHANGED <<disk, crashes, statusVars>>

\* `stateStore.close().then(() => process.exit(0))`
StopClosed ==
    /\ proc.cmd = "start" /\ proc.pc = "stopping"
    /\ Exit("stopped")
    /\ UNCHANGED <<disk, crashes, statusVars>>

(* ------------------------------ status ------------------------------- *)
\* the start process has an HTTP server listening on `port`
ServesApi(port) ==
    /\ proc.cmd = "start" /\ proc.http /\ proc.port = port
    /\ proc.pc \in {"consensusStart", "running", "serving", "stopping"}

\* `aln status`: main passes no options, so the GET goes to
\* localhost:3000/status; a failed import or fetch lands in the catch
Status ==
    /\ statusCalls < MaxStatusCalls
    /\ \E loaded \in FetchLoads, success \in BOOLEAN, isRunning \in BOOLEAN :
          report' = CASE ~loaded \/ ~ServesApi(3000) -> "unreachable"
                      [] ~success                    -> "failed"
                      [] isRunning                   -> "running"
                      [] OTHER                       -> "stopped"
    /\ statusCalls' = statusCalls + 1
    /\ UNCHANGED <<disk, proc, outcome, crashes>>

(* --------------------------- environment ----------------------------- *)
\* the process dies between two steps; the disk keeps what was written
Crash ==
    /\ proc.cmd # "none"
    /\ crashes < MaxCrashes
    /\ Exit("crashed")
    /\ crashes' = crashes + 1
    /\ UNCHANGED <<disk, statusVars>>

Init ==
    /\ disk = [dataDir |-> FALSE, state |-> FALSE, blocks |-> FALSE,
               accounts |-> <<>>]
    /\ proc = Idle
    /\ outcome = "none"
    /\ crashes = 0
    /\ report = "none"
    /\ statusCalls = 0

\* the steps the CLI process takes by itself once it runs
ProcessStep ==
    \/ InitCheck \/ InitMkdirState \/ InitMkdirBlocks \/ InitProfile
    \/ InitOpen \/ InitGenesis \/ InitClose
    \/ StartProfile \/ StartOpen \/ StartConsensusInit \/ StartHttp
    \/ StartConsensusStart \/ StopClosed

\* the `aln status` processes run beside init and start and touch nothing
\* they read
Next ==
    Invoke \/ ProcessStep \/ Sigint \/ Crash \/ Status

Spec == Init /\ [][Next]_vars

(***************************************************************************)
(* Properties                                                              *)
(***************************************************************************)
\* the data directory as a completed init leaves it
Initialized ==
    /\ disk.dataDir /\ disk.state /\ disk.blocks
    /\ \A i \in DOMAIN GenesisAccounts :
          GenesisAccounts[i].address \in DOMAIN disk.accounts

Pcs == {"none", "check", "mkdirState", "mkdirBlocks", "profile", "open",
        "genesis", "close", "consensusInit", "http", "consensusStart",
        "running", "serving", "stopping"}
TypeOK ==
    /\ disk.dataDir \in BOOLEAN /\ disk.state \in BOOLEAN /\ disk.blocks \in BOOLEAN
    /\ disk.state => disk.dataDir
    /\ DOMAIN disk.accounts # {} => disk.state
    /\ proc.cmd \in {"none", "init", "start"} /\ proc.pc \in Pcs
    /\ proc.i \in 0..(Len(GenesisAccounts) + 1)
    /\ outcome \in {"none", "inProgress", "refused", "failed", "complete",
                    "crashed", "killed", "stopped"}
    /\ crashes \in 0..MaxCrashes
    /\ report \in {"none", "unreachable", "failed", "running", "stopped"}
    /\ statusCalls \in 0..MaxStatusCalls

(* The data directory's lifecycle of AlnDataDir: a directory that every  *)
(* genesis account reached is initialized, one that exists otherwise is   *)
(* partial.  init --force rewrites over an existing store and a killed    *)
(* command leaves what it wrote, so no sequence of commands, failures and *)
(* kills takes a directory back from initialized, or from partial to     *)
(* absent.                                                                *)
DataDir == INSTANCE AlnDataDir WITH
    dir <- IF Initialized THEN "initialized"
           ELSE IF disk.dataDir THEN "partial" ELSE "absent"
DataDirRefined == DataDir!Spec

(* Whenever init has printed 'Initialization complete!', both directories *)
(* exist and the store holds every genesis account with nonce 0 and its   *)
(* balance, whatever crashed or half-finished runs came before (a rerun  *)
(* with --force rewrites over what they left).                           *)
CompleteMeansInitialized ==
    outcome = "complete" =>
        /\ Initialized
        /\ \A i \in DOMAIN GenesisAccounts :
              disk.accounts[GenesisAccounts[i].address] =
                  [nonce |-> 0, balance |-> BalanceOf(GenesisAccounts[i])]

(* The CLI's two uses of an existing data directory treat it as an       *)
(* initialized one: init's existsSync check is commented "Check if        *)
(* already initialized" and refuses it, and start opens it and serves     *)
(* (init's closing output sends the user on to `aln start`).  Whenever    *)
(* init refuses a directory, or a start process runs a node on it, that  *)
(* directory holds what a completed init leaves.                         *)
InitializedWhenUsed ==
    (outcome = "refused" \/ proc.pc \in {"running", "serving"}) => Initialized
=============================================================================
