# TLA+ models of ALN-Blockchain

This directory holds TLA+ models of the code under `src/aln/`, the TLC
configurations that check them, and `PROJECT.json`. `PROJECT.json` lists the
components, the runs, the seeded-fault mutants, the map from each definition to
the source lines it models, the findings and the hazards.

## 1. Inventory

| Component | Source | State | Operations |
|---|---|---|---|
| Value coercer | `core/runtime/aln_parser.js` `parseValue`, `formatValue` | none (pure) | raw string to value, value to text |
| Scanner/assembler | `aln_parser.js` `parseAlnDocument`, `ParsedAlnDoc` | loop state: `lineNumber`, `currentSection`, the document being filled (`header`, `data`, `footer`, `rawSections`, `errors`) | fail-fast check; per line: skip, section header, key/value entry, ignore |
| Semantic validator | `aln_parser.js` `validateChainlexemes`, `ValidationReport` | the report (`isValid`, `errors`, `warnings`) | rules 1 to 10 in order |
| Serializer | `aln_parser.js` `serializeAlnDocument` | none | document to text |
| Transaction builder | `wallet/tx_builder.js` | the chainlexeme object, which `signTx` mutates | `buildTransferTx`, `buildGovernanceProposalTx`, `buildGovernanceVoteTx`, `signTx`, `hashMock`, `generateKeypairFromSeed`, `verifyTxSignature` |
| Policy engine | `augmented_policy/policy_engine.js` | `policies`, `profiles` (never written), `actionRegistry` | `getEffectivePolicy`, `isActionAllowed`, `requireLawEnfModeFor`, `emitActionAudit` |
| ML threat hooks | `security/ml_hooks.js` | `signatures`, `lastUpdate` | `loadSignatures` (async), `updatePolicies` (async), `scorePayload` |
| Node CLI | `core/cli/aln_node_cli.js` | `profile`, and the data directory on disk | `init`, `start`, `status` |

**How the components interact.** The data flows as
`text -> parseAlnDocument -> document -> validateChainlexemes -> report`, and
`document -> serializeAlnDocument -> text`. spec.md section 6 describes the
callers. The transaction builder makes document-shaped objects without the
scanner and is expected to validate them. A node receives the serialized text
and parses and validates it again. The policy engine calls two collaborators
that are not in this repository (a reputation system and an energy
integration). The ML hooks are independent. The CLI drives a state store, a
consensus engine, an HTTP server and a profile loader, and none of their code
is in this repository.

**What is hard.** Nothing in the parser core runs concurrently. Its hard
behaviour is in sequences and value boundaries, and unit tests rarely reach
them:
- the order of lines: re-declared sections, `[]`, colons at position 0, and
  keys that repeat;
- JavaScript's dynamic typing: truthiness in rules 3, 4, 7 and 10, `typeof`
  in rules 5 and 8, coercion in `gas_limit < 21000`, and `startsWith` called
  on non-strings (which throws);
- the string/number/boolean collapse when `formatValue` writes a string
  unquoted;
- the round trip from client to node: a verdict computed on one document and
  applied to its re-parsed text.

Elsewhere: `signTx` mutates the object in place and signs only part of it.
`hashMock` uses 32-bit wrap-around arithmetic and pads its output. In the ML
hooks, scoring can run before signatures are loaded (async). In the CLI,
`init` can crash between creating the directory and writing the genesis
accounts.

**What makes each component correct.**
- Scanner: the document equals spec.md 4.1's declarative reading of the lines.
- Validator: it never throws, and a valid report means spec.md 4.3's rules
  hold.
- Serializer: spec.md 8's idempotence holds.
- Pipeline: a verdict survives serialization.
- Builder: built transactions validate. Signatures cover what they claim to
  cover. Distinct keys give distinct addresses.
- Policy engine: an action is allowed only if every check passes, and some
  action can be allowed at all.
- ML hooks: a payload that a known pattern matches is never reported clean; wrapping
  a payload in an object never lowers its score.
- CLI: a completed `init` leaves an initialized directory; an initialized
  directory stays initialized whatever fails or is killed; a directory that
  `init` refuses or `start` runs a node on is an initialized one.

## 2. Modelling conventions

- **Strings are glyph sequences** (`AlnValue`). A glyph is either a character
  the code tests for (`"`, `'`, `[`, `]`, `,`, `:`, `#`, `.`, whitespace,
  digits, `-`, `+`) or an opaque word (`op_code`, `aln1`, `ed25519`, `true`,
  `x`) that the code only compares as a whole. `trim`, `startsWith`,
  `endsWith`, `indexOf`, `slice(1,-1)`, `split(',')`, `join`, `includes` and
  `toLowerCase` are operators on sequences. `toLowerCase` uses the constant
  `UpperWords`. A text is given already split on `'\n'` (a sequence of lines),
  so `""` is the one-line text `<< <<>> >>`. The alphabet's whitespace is
  space, tab and CR, so `Trim` strips only those; JavaScript's `trim` also
  strips line feeds and Unicode spaces, which the texts never hold (they are
  split on `'\n'`) and no property depends on.
- **JavaScript values are records tagged by `typeof`**: `Str`, `Bool`,
  `Num(m, e)` (the exact decimal m/10^e), `Arr`, `Null` and `Undefined`.
  `Truthy`, `String()` (`ToJsString`, `NumberToString`) and the `ToNumber`
  used by `<` (`LessThan`) follow the language rules for these values.
- **A plain object is its entry sequence in insertion order.** `Put` keeps a
  re-assigned key in place. `Entries` puts array-index keys first, as
  `Object.entries` does.
- **`hashMock` is exact.** The running hash is two unsigned 16-bit halves.
  `((hash << 5) - hash) + c` followed by `hash & hash` is `31 * hash + c`
  modulo 2^32, and `hashStep` computes it on the halves without leaving
  TLC's 32-bit integers. `AbsHash` is `Math.abs` of the signed value, including
  `-2^31`. `ToHex` and `hashHex` give `toString(16)`, `padStart(64, '0')` and
  `substring(0, 64)`. Character codes are those of the one-character glyphs
  that keys and seeds are made of (`0`-`9`, `a`-`f`, `x`, `y`).
- **`signTx`'s message is abstract.** `hashMock(JSON.stringify({header, data})
  + privateKey)` folds the key's characters onto the hash state that the JSON
  text leaves. The model keeps that state as a choice from `MsgHashes`, and
  folds the key exactly.
- **Abstracted:** error and warning messages (kept as rule and field),
  `console` output, and the parser's `errors` strings. Also left out: digit
  strings too long for exact doubles (bound: at most 9 digits in every model)
  and the key `__proto__` (not in any model's alphabet).

## 3. Modules

| Module | Models | State / operators |
|---|---|---|
| `AlnValue` | `parseValue`, `formatValue`, and the conversions they need | operators only |
| `AlnScanner` | `parseAlnDocument` | variables `text`, `pc`, `scan = [line, cur, doc]`. Actions: `RejectInput` (fail-fast), `BeginScan`, and one per loop case (`SkipLine`, `DeclareSection`, `StoreEntry`, `IgnoreLine`), then `Finish`. `parseAlnDocument(t)` is the same loop as a fold. `Ref*` is spec.md 4.1's reading of a prefix of lines. |
| `AlnValidator` | `validateChainlexemes` | `rule1`..`rule10` each return the errors and warnings they add, or `Throws`. A throw ends the call. |
| `AlnSerializer` | `serializeAlnDocument` | the output's lines |
| `AlnCore` | the callers of spec.md 6 | properties of the parsed document: validated, serialized, re-parsed |
| `AlnTxBuilder` | `wallet/tx_builder.js` | operators: `hashMock` (`hashStep`, `AbsHash`, `ToHex`, `hashHex`), `generateKeypairFromSeed`, the three builders, `signTx`, `verifyTxSignature` |
| `AlnTxPipeline` | the wallet-to-node flow of spec.md 6 | variables `wallet` (seed to keypair), `tx` (the wallet's object), `pc`, `wire` (the sent text), `nodeDoc`. Actions: `GenerateKeypair`, `BuildTransfer`, `BuildProposal`, `BuildVote`, `Sign`, `Send` (`serializeAlnDocument`), `Receive` (`parseAlnDocument`, through `INSTANCE AlnScanner`) |
| `AlnPolicyEngine` | `augmented_policy/policy_engine.js` | variables `calls` (each `isActionAllowed` call with its arguments, the collaborators' answers and the result) and `audits` (the `emitActionAudit` records). One action, `IsActionAllowed`, is the whole synchronous call. `isActionAllowed` (the early-return chain), `getEffectivePolicy`, `requireLawEnfModeFor` and `emitActionAudit` are operators. |
| `AllowDecision` | what the engine promises | variable `decisions`. One action, `Decide`, allows a request exactly when the action is registered, the policy permits its level, the reputation is a number at least the level's threshold, and the energy check passed. `AlnPolicyEngine` instantiates it with a refinement mapping (`Abstract`), and `AllowDecisionRefined` is its `Spec`. |
| `AlnDataDir` | what the CLI promises of its data directory | variable `dir`: `absent`, `partial` or `initialized`. `Create` takes an absent directory to either of the others, `Complete` takes a partial one to initialized, and nothing goes back. `AlnNodeCli` instantiates it (`DataDir`) with `dir` mapped from `disk`: initialized when `Initialized` holds, partial when the directory exists otherwise; `DataDirRefined` is its `Spec`. |
| `AlnNodeCli` | `core/cli/aln_node_cli.js` | variables `disk` (whether `dataDir`, `state` and `blocks` exist, and the accounts in the store), `proc` (the running command, its step `pc`, `--force`, the genesis loop index, whether the HTTP server started and its `apiPort`), `outcome` (how the last command ended), `crashes`, and for `aln status` the last `report` and the number of `statusCalls`. `Invoke` is `main`'s switch. `init` has one action per statement that touches the disk or awaits (`InitCheck`, `InitMkdirState`, `InitMkdirBlocks`, `InitProfile`, `InitOpen`, `InitGenesis`, `InitClose`), and so does `start` (`StartProfile`, `StartOpen`, `StartConsensusInit`, `StartHttp`, `StartConsensusStart`). `Sigint` and `StopClosed` are the shutdown handler. `Status` is an `aln status` process run beside them: it reaches the node only when a `start` process serves the API on port 3000 (`ServesApi`), and the node's reply is left open. `Crash` kills the process and keeps the disk. Each awaited `open()`, `setAccount()` and `close()` resolves or rejects (the constant `StoreOk`); a rejection ends the command as "failed", the way `main`'s catch logs it. |
| `MLThreatHooks` | `security/ml_hooks.js` | variables `signatures`, `lastUpdate`, and `results` (each payload scored with the score returned). Actions: `LoadSignatures`, `UpdatePolicies`, `ScorePayload`. `scorePayload` folds over the signatures; `Matches` is the three regular expressions on token texts; `TextOf` is `JSON.stringify` of an object payload, which escapes a line break as `\n`. |
| `MCAlnScanner`, `MCAlnCore`, `MCAlnTxPipeline`, `MCAlnPolicyEngine`, `MCAlnNodeCli`, `MCMLThreatHooks` | model-checking instances | input sets |

## 4. Runs

| Run | cfg | Expect | What it shows |
|---|---|---|---|
| scanner_reference | `MCAlnScanner.cfg` | pass | It covers every text of 1 to 4 lines drawn from 10 line shapes, plus `""` and a non-string, and the 216 transfer documents of `MCAlnCore`. The shapes are a comment, `[header]`, ` [HEADER]`, `[data]`, `[x]`, `[]`, `k: 7`, `k :'x'`, `7:[7,x]` and `:7`. In the documents each field takes a few raw values, including a data value that exercises `"007"`, quoted arrays, `'"x"'`, `' x'` and `7.50`. After every line, the document equals the reference: last write wins, a key keeps its first position, a re-declared section resets its raw list, line numbers are right, and case is folded. 79,568 states. |
| validator_throws | `MCAlnCore_ValidatorNeverThrows.cfg` | violation | `from: 7` makes the validator throw a TypeError. |
| validator_spec_rules | `MCAlnCore_ValidReportMeetsSpecRules.cfg` | violation | `from: ""` is reported valid. |
| serialize_idempotent | `MCAlnCore_SerializeParseIdempotent.cfg` | violation | `"007"` is written as `007`, read back as 7 and written as `7`. |
| tx_pipeline | `MCAlnTxPipeline.cfg` | pass | Two seeds, and transfers with amount 0, 5 or `"5"` and nonce 0 or 3. Proposals are full, without a nonce, or with quorum 0. Votes are for or against. Each built transaction validates before and after signing. 334 states. |
| tx_verdict_amount | `MCAlnTxPipeline_NodeVerdictMatchesClient.cfg` | violation | `buildTransferTx(a, a, 0, 0)` is valid in the wallet. The node reads `amount: 0` as the number 0 and rejects it. Take the amount 0 out of `MCAmounts` and the same property fails for a proposal built without `proposalData.nonce`. That proposal is sent as `nonce: undefined`, and the node rejects it. |
| policy_engine | `MCAlnPolicyEngine.cfg` | pass | Two calls by `u1` (every level permitted) or `u2` (no entry in `policies`), for an ADVANCED, a LAW_ENF_ASSIST or an unknown action. The reputations are 49, 50, 69 and 70, and the energy answer is true or false. The engine refines `AllowDecision` and denies everything to `u2`. 9,313 states. |
| policy_undefined_reputation | `MCAlnPolicyEngine_UndefinedReputation.cfg` | violation | The reputation `undefined` passes `reputation < 50`, so `u1` is allowed `ENHANCED_VISION`. |
| cli_init | `MCAlnNodeCli.cfg` | pass | The user runs `init`, `init --force` and `start` in any order, one process at a time. The profile may fail to load or validate, `open()` of a missing directory may create it, every awaited `open()`, `setAccount()` and `close()` may reject, and the consensus promises may reject. Up to two processes are killed at any step. Whenever `init` has printed "Initialization complete!", both directories and the genesis account (nonce 0, its balance) are on disk. The data directory only moves from absent to partial to initialized, never back, so an `init --force` killed midway never loses an initialized directory (`DataDirRefined`). Up to two `aln status` commands run in between, against a profile port of 3000 or 8080. 2,295 states. |
| cli_used_uninitialized | `MCAlnNodeCli_InitializedWhenUsed.cfg` | violation | `init` is killed after `mkdir` (a profile that fails to load does the same). The next `aln init` refuses "Data directory already exists", although the store holds no genesis account. `start` on that directory, or on a missing one that `open()` creates, runs a node without it as well. |
| ml_scoring | `MCMLThreatHooks.cfg` | pass | Up to three `scorePayload` calls on five texts, as strings and as objects, between any number of `loadSignatures` and `updatePolicies`. The object form of a text never scores lower than the string form. 4,469 states. |
| ml_before_load | `MCMLThreatHooks_KnownThreatsScored.cfg` | violation | `scorePayload("selfdestruct(")` on a fresh `MLThreatHooks` returns score 0, domain `none` and confidence 0.0. |

**Bounds.** Four lines are enough to reach every pair of interactions in the
scanner: a declaration followed by entries and a re-declaration, an entry
before any section, and a repeated key across a declaration. Each line shape
exercises one branch or boundary of the loop. The core model fixes the
layout that `buildTransferTx` and the spec's examples use. It varies each
field over the values that sit on a boundary of a rule (falsy, non-string,
decimal, quoted number) and keeps one well-formed value for each. The
pipeline model carries one transaction per behaviour, and every argument
comes from a set of two or three values. Each set holds a value on each side
of a boundary of the code: 0 and non-zero amounts, a number and a string, a
present and an absent nonce, a falsy quorum. Two seeds are enough to compare
two addresses. The two message hash states include one whose top bit is set.
The CLI model has the one genesis account that `main` passes. Every
collaborator outcome is both possible. Two crashes are enough to kill an
`init` and then the `init --force` that repairs it. Two `aln status` calls
let one observe a node before and one after it stops; the port 8080 is a
profile port other than `status`'s default. The ML model scores three
payloads, enough to score a text in both forms after a load. Its texts are one
match for each pattern, one that all three match (score exactly 100), the
`delegatecall` line break (unmatched as a string, matched once
`JSON.stringify` escapes it) and a clean text.

**Fairness.** No model assumes fairness and no run checks liveness. The
awaited steps of the CLI wait on a store and an engine that are not in this
repository, so nothing justifies assuming they settle, and with them fair
the only liveness claim left would follow from the shape of the step
sequence. The CLI model never
deadlocks, because the user can always issue a command, and its cfgs check
deadlock. The other models check safety properties of terminating,
single-threaded calls. They stop when the call returns, which is why their
configurations say `CHECK_DEADLOCK FALSE`. The pipeline also stops, once the
node has parsed the one transaction of the behaviour.

**Mutants.** Each property of a passing run is broken by a seeded fault
defined next to the definition it replaces:
- `skipLineTwice` (lineNumber advanced twice) breaks `TypeOK`;
- `declareSectionKeepCase` (no `toLowerCase`) breaks `ScannerMatchesReference`;
- `transferAmountNoToString` (the amount is stored without `toString()`)
  breaks `BuiltTxValidates`;
- `energyBeforeNoDefault` (no `|| 0` on `cognitiveLevel`) breaks `TypeOK`
  of the policy engine;
- `reputationTooLowAtMost50` (`reputation <= 50`) breaks
  `AllowDecisionRefined`;
- `getEffectivePolicyOpenDefault` (the default policy also lists
  `ADVANCED`) breaks `UnconfiguredUserDenied`;
- `InitMkdirStateDataDirOnly` (the first `mkdirSync` is given `dataDir`)
  breaks `TypeOK` of the CLI, because accounts are written with no state
  directory;
- `InitGenesisSkipLast` (the loop stops one account early) breaks
  `CompleteMeansInitialized`;
- `TextOfNoStringify` (`String(payload)` instead of `JSON.stringify`) breaks
  `WrappingNeverHidesThreat`;
- `InitMkdirStateWipe` (`--force` removes the old directory before
  re-creating it) breaks `DataDirRefined`.

## 5. Findings

The findings are in `PROJECT.json`:
- Rule 4 (and rule 7) throws on a truthy non-string value.
- Falsy values skip rules 3, 4 and 7, and rule 5 accepts a decimal nonce.
- The string/number collapse breaks spec.md 8's idempotence.
- The string/number collapse also flips a verdict across the round trip. The
  amount `"0"` that `buildTransferTx(…, 0, …)` produces is accepted by the
  client and rejected by the node.
- `buildTransferTx(…, 0, …)` and a proposal without a nonce are accepted by
  the wallet and rejected by the node.
- A reputation of `undefined` (or `NaN`) passes both reputation thresholds.
- Nothing writes `policies`. As constructed, the engine therefore denies
  every registered action to every user. `UnconfiguredUserDenied` holds,
  and the hazard at `policy_engine.js:46` records this.
- `init` creates the data directory before it loads the profile and writes
  the genesis accounts. A crash, or a profile that throws, in between leaves
  a directory that every later plain `init` refuses as "already exists".
  `start` checks nothing: on that directory, or on a missing one that the
  store creates, it runs a node without the genesis account.
- Until `loadSignatures` is called, `scorePayload` reports every payload as
  clean, and nothing in the repository calls `loadSignatures`.

Two behaviours are modelled and visible in the passing runs, but no run
states them as a violation:
- The line `[]` declares a section named `""`, which the code treats as no
  section, so its entries are dropped. spec.md 4.1 would keep them.
  `ScannerMatchesReference` encodes the code's reading.
- Every address `generateKeypairFromSeed` derives is `aln1` followed by 40
  zeros, because `hashMock` yields at most 8 hex digits. spec.md treats the
  wallet's cryptography as a placeholder.

## 6. Plan

In order of importance:
1. **Done:** value coercer, scanner, validator and serializer (`AlnValue`,
   `AlnScanner`, `AlnValidator`, `AlnSerializer`, `AlnCore`).
2. **Done: `AlnTxBuilder` + `AlnTxPipeline`.** This covers the builders, `signTx`
   (in-place mutation), `verifyTxSignature`, `hashMock` with 32-bit
   wrap-around (two 16-bit halves so that TLC's integers do not overflow) and
   `generateKeypairFromSeed`. The pipeline is a state machine: the client
   builds, signs, validates and serializes; the node parses and validates.
   Its actions let the client mutate footer and data after signing.
   Properties:
   - built transactions validate, and their proposal nonce is present;
   - what was signed is what the node verifies. This property was dropped:
     `verifyTxSignature` compares nothing against the content, and no code
     changes a signed object, so no property of the code could tell a
     binding signature from a non-binding one (see the hazard at
     `tx_builder.js:122`);
   - distinct seeds give distinct addresses. This run was dropped: every
     address is `aln1` followed by 40 zeros, which the model shows, but
     spec.md calls the cryptography a placeholder;
   - `hashMock` has no separate reference. TLC's integers stop at
     2^31 - 1, so no second formulation of the value modulo 2^32 exists
     that does not repeat the halves arithmetic. No run checks its width:
     a property that a key has 64 hex digits would restate `padStart` and
     `substring`.
3. **Done: `AlnPolicyEngine`.** `isActionAllowed` in check order (registry,
   capability, reputation thresholds 50 and 70, energy). The reputation and
   energy answers are nondeterministic collaborator results. An abstract
   specification `AllowDecision` (allowed iff every check passes) is
   refined by the engine, with an INSTANCE ... WITH refinement mapping.
   Result: as expected, no registered action is allowed to a user without
   a policy entry; this is a passing property (`UnconfiguredUserDenied`).
   The violation found is instead the `undefined` reputation. `policies` is a
   constant that the model checks both empty (`u2`) and configured (`u1`).
4. **Done: `MLThreatHooks`.** `loadSignatures` and `updatePolicies` are
   atomic steps, because no await precedes their assignments. `scorePayload`
   runs over token texts, and `JSON.stringify` escaping is modelled. Scoring
   before the first load reports a clean result (`ml_before_load`). Bounds
   on the score need no property: the three stub signatures sum to exactly
   100, so `Math.min` never acts.
5. **Done: `AlnNodeCli`.** `init`, `start` and the SIGINT shutdown, with
   crashes and every collaborator outcome. Safety (`CompleteMeansInitialized`)
   is checked, and the refusal of a
   half-initialized directory is found (`cli_used_uninitialized`).
6. **Done (second extension).** `aln status` is an action. The refusal and
   `start`'s use of an uninitialized directory are one property
   (`InitializedWhenUsed`). The `ml_scoring` run covers the payload
   wrapping.
7. **Done (third extension).** `AlnDataDir` and the CLI's refinement of it
   (`DataDirRefined` in `cli_init`). A forced re-init that is killed or
   fails midway never loses an initialized directory. Seeded faults now
   replace the smallest definition that carries the fault
   (`reputationTooLow`, `energyBefore`, `transferAmount`), not a copy of the whole operator.
8. **Done (review).** Properties that restated one assignment or held by
   the model's shape were removed: the pipeline's `TypeOK`, the audit
   trail, the stability of scores across a signature refresh and the CLI's
   settling under fairness. `NormalizationConverges` was false and is
   removed: the quoted value `'"x"'` loses one quote layer per
   serialize-and-parse round trip, and neither spec.md nor a test says
   round trips settle. `InitOpen`, `InitGenesis`, `InitClose` and
   `StartOpen` now let the store's promise reject. `emitActionAudit` uses
   `policy?.version || '1.0'` with JavaScript truthiness.
9. **Next.** Possible work, each needing a run slot (the project runs 12):
   - `aln status` queries port 3000 whatever port the profile gives the
     API (hazard at `aln_node_cli.js:164`);
   - `init --force` over a store a running node has used rewrites the
     genesis account to nonce 0 and keeps every other account and all blocks.
     This needs a model of the consensus engine's writes, which are not in
     this repository;
   - a property on the `gas_limit` warning's coercion.

## 7. Not modelled

- The state store, consensus engine, HTTP server, profile loader and logger
  are not in this repository. Their outcomes are modelled only where the CLI
  branches on them. An awaited `setAccount` is assumed durable. The
  profile's `storageConfig.stateDir` is assumed to be the directory `init`
  creates, because nothing in the repository ties the two together.
- Logging and console output throughout.
