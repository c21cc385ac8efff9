---------------------------- MODULE AlnTxPipeline ---------------------------
(***************************************************************************)
(* One transaction from the wallet to a node.  The wallet derives keypairs *)
(* with generateKeypairFromSeed, builds a chainlexeme with one of the      *)
(* builders of tx_builder.js, signs it with signTx (any number of times, *)
(* the code does not stop a re-sign) and broadcasts it, signed or not, as *)
(* serializeAlnDocument text; the node parses that text with              *)
(* parseAlnDocument.  The builders, signTx and serialization are library  *)
(* calls the caller sequences; the model lets the caller take each one    *)
(* whenever the code allows it.                                           *)
(***************************************************************************)
EXTENDS AlnTxBuilder, AlnValidator, AlnSerializer

CONSTANTS
    Seeds,          \* seed strings given to generateKeypairFromSeed
    Amounts,        \* amount arguments of buildTransferTx (strings or numbers)
    Nonces,         \* nonce arguments (numbers)
    ProposalDatas,  \* proposalData objects (mappings) for proposals
    ProposalIds,    \* proposalId arguments of buildGovernanceVoteTx
    Supports,       \* support arguments ('for' | 'against' | 'abstain')
    Clock,          \* values of Math.floor(Date.now() / 1000)
    MsgHashes,      \* hash states of JSON.stringify({header, data}) texts
    NotAString      \* the non-string argument of parseAlnDocument

VARIABLES
    wallet,   \* seed -> keypair, for the seeds the wallet has derived
    tx,       \* the chainlexeme object the wallet holds
    pc,       \* "idle", "built", "signed", "sent" or "received"
    wire,     \* the text broadcast to the node
    nodeDoc   \* the document the node parsed from wire

vars == <<wallet, tx, pc, wire, nodeDoc>>

\* the node's parser, a pure function of its argument
Node == INSTANCE AlnScanner WITH Texts <- {}, text <- <<>>, pc <- "done",
                                 scan <- [line |-> 0, cur |-> Null, doc |-> <<>>]

NoTx == Tx(EmptyMap, EmptyMap, EmptyMap)
Addresses == {wallet[s].address : s \in DOMAIN wallet}

Init ==
    /\ wallet = <<>>
    /\ tx = NoTx
    /\ pc = "idle"
    /\ wire = <<>>
    /\ nodeDoc = NoTx

GenerateKeypair ==
    /\ pc = "idle"
    /\ \E seed \in Seeds \ DOMAIN wallet :
          wallet' = (seed :> generateKeypairFromSeed(seed)) @@ wallet
    /\ UNCHANGED <<tx, pc, wire, nodeDoc>>

\* buildTransferTx(fromAddr, toAddr, amount, nonce) with the default fee 100
BuildTransfer ==
    /\ pc = "idle"
    /\ \E s \in DOMAIN wallet, to \in Addresses, a \in Amounts, n \in Nonces,
          now \in Clock :
          tx' = buildTransferTx(wallet[s].address, to, a, n, Num(100, 0), now)
    /\ pc' = "built"
    /\ UNCHANGED <<wallet, wire, nodeDoc>>

BuildProposal ==
    /\ pc = "idle"
    /\ \E s \in DOMAIN wallet, pd \in ProposalDatas, now \in Clock :
          tx' = buildGovernanceProposalTx(wallet[s].address, pd, now)
    /\ pc' = "built"
    /\ UNCHANGED <<wallet, wire, nodeDoc>>

BuildVote ==
    /\ pc = "idle"
    /\ \E s \in DOMAIN wallet, p \in ProposalIds, v \in Supports, n \in Nonces,
          now \in Clock :
          tx' = buildGovernanceVoteTx(wallet[s].address, p, v, n, now)
    /\ pc' = "built"
    /\ UNCHANGED <<wallet, wire, nodeDoc>>

\* signTx(tx, privateKey) with any key of the wallet
Sign ==
    /\ pc \in {"built", "signed"}
    /\ \E s \in DOMAIN wallet, m \in MsgHashes :
          tx' = signTx(tx, wallet[s].privateKey, m)
    /\ pc' = "signed"
    /\ UNCHANGED <<wallet, wire, nodeDoc>>

Send ==
    /\ pc \in {"built", "signed"}
    /\ wire' = serializeAlnDocument(tx)
    /\ pc' = "sent"
    /\ UNCHANGED <<wallet, tx, nodeDoc>>

Receive ==
    /\ pc = "sent"
    /\ nodeDoc' = Node!parseAlnDocument(wire)
    /\ pc' = "received"
    /\ UNCHANGED <<wallet, tx, wire>>

Next ==
    \/ GenerateKeypair
    \/ BuildTransfer \/ BuildProposal \/ BuildVote
    \/ Sign \/ Send \/ Receive

Spec == Init /\ [][Next]_vars

(***************************************************************************)
(* Properties                                                              *)
(***************************************************************************)
(* Every transaction the builders make from arguments of their documented *)
(* types passes validateChainlexemes before it is signed and after: the  *)
(* amount is stored as amount.toString(), so even 0 is a truthy "0", and  *)
(* the null signature of an unsigned transaction is falsy for rule 7.    *)
BuiltTxValidates ==
    pc \in {"built", "signed"} =>
        LET r == validateChainlexemes(tx) IN ~r.thrown /\ r.isValid

(* The node reaches the verdict the wallet reached on the object it       *)
(* serialized: what the wallet validated is what the node accepts.       *)
NodeVerdictMatchesClient ==
    pc = "received" =>
        validateChainlexemes(nodeDoc).isValid = validateChainlexemes(tx).isValid

=============================================================================
