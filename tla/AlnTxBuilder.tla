---------------------------- MODULE AlnTxBuilder ----------------------------
(***************************************************************************)
(* The wallet's transaction builder (src/aln/wallet/tx_builder.js).  The  *)
(* builders return document-shaped objects: header, data and footer as    *)
(* plain objects (AlnValue mappings) of JavaScript values.  hashMock is   *)
(* the code's 32-bit string hash; its running value is kept as two        *)
(* unsigned 16-bit halves so that the wrap-around of `hash & hash` is     *)
(* exact without leaving the integers TLC can represent.                  *)
(***************************************************************************)
EXTENDS AlnValue

(* ------------------------------ hashMock ------------------------------- *)
HexGlyphs == <<"0", "1", "2", "3", "4", "5", "6", "7", "8", "9",
               "a", "b", "c", "d", "e", "f">>
\* charCodeAt of the one-character glyphs that keys and seeds are made of
CharCode == [g \in Range(HexGlyphs) \cup {"x", "y"} |->
               CASE g \in Digits -> 48 + DigitVal(g)
                 [] g = "x"      -> 120
                 [] g = "y"      -> 121
                 [] OTHER        -> 86 + CHOOSE i \in 11..16 : HexGlyphs[i] = g]

Half == 65536
\* hash = ((hash << 5) - hash) + code; hash = hash & hash  (mod 2^32)
hashStep(h, c) ==
    LET lo == 31 * h.lo + c
    IN  [hi |-> (31 * h.hi + lo \div Half) % Half, lo |-> lo % Half]

HashStart == [hi |-> 0, lo |-> 0]

\* Math.abs of the signed 32-bit value; Math.abs(-2^31) is 2^31
AbsHash(h) ==
    CASE h.hi < Half \div 2 -> h
      [] h.lo = 0           -> [hi |-> Half - h.hi, lo |-> 0]
      [] OTHER              -> [hi |-> Half - 1 - h.hi, lo |-> Half - h.lo]

\* toString(16): hexadecimal digits without leading zeros
ToHex(h) ==
    LET ds   == <<h.hi \div 4096, (h.hi \div 256) % 16, (h.hi \div 16) % 16,
                  h.hi % 16, h.lo \div 4096, (h.lo \div 256) % 16,
                  (h.lo \div 16) % 16, h.lo % 16>>
        nz   == {i \in 1..8 : ds[i] # 0}
        from == IF nz = {} THEN 8 ELSE Min(nz)
    IN  [i \in 1..(9 - from) |-> HexGlyphs[ds[from + i - 1] + 1]]

\* Math.abs(hash).toString(16).padStart(64, '0').substring(0, 64)
hashHex(h) ==
    LET hex == ToHex(AbsHash(h))
    IN  SubSeq([i \in 1..(64 - Len(hex)) |-> "0"] \o hex, 1, 64)

\* every value the 32-bit hash can hold, as two halves
HashState == [hi : 0..(Half - 1), lo : 0..(Half - 1)]

\* the loop over data.charCodeAt(i), continued from hash state h.  The
\* membership test always holds; it makes TLC evaluate each step's hash
\* before the next step instead of building a chain of pending ones.
RECURSIVE hashFrom(_, _)
hashFrom(h, s) ==
    IF s = <<>> THEN h
    ELSE LET h1 == hashStep(h, CharCode[Head(s)])
         IN  IF h1 \in HashState THEN hashFrom(h1, Tail(s)) ELSE h1

hashMock(s) == hashHex(hashFrom(HashStart, s))

(* ---------------------- generateKeypairFromSeed ------------------------ *)
generateKeypairFromSeed(seed) ==
    LET privateKey == hashMock(seed)
        publicKey  == hashMock(privateKey)
    IN  [privateKey |-> privateKey, publicKey |-> publicKey,
         address    |-> <<"aln1">> \o SubSeq(publicKey, 1, 40)]

(* ------------------------------ builders -------------------------------- *)
Map(kvs) == [i \in DOMAIN kvs |-> [k |-> <<kvs[i][1]>>, v |-> kvs[i][2]]]

\* 'aln1governance000000000000000000000000000'
GovernanceAddress == <<"aln1", "governance">> \o [i \in 1..27 |-> "0"]

Footer(now, gasLimit, gasPrice) ==
    Map(<<<<"signature", Null>>, <<"timestamp", now>>,
          <<"gas_limit", Num(gasLimit, 0)>>, <<"gas_price", gasPrice>>>>)

Tx(header, data, footer) == [header |-> header, data |-> data, footer |-> footer]

\* seeded fault: amount stored as given, without toString()
transferAmountNoToString(amount) == amount

\* `amount: amount.toString()`
transferAmount(amount) == Str(ToJsString(amount))

buildTransferTx(fromAddr, toAddr, amount, nonce, fee, now) ==
    Tx(Map(<<<<"op_code", Word("transfer")>>, <<"from", Str(fromAddr)>>,
             <<"to", Str(toAddr)>>, <<"nonce", nonce>>>>),
       Map(<<<<"asset", Word("ALN")>>, <<"amount", transferAmount(amount)>>,
             <<"constraints", Arr(<<>>)>>>>),
       Footer(now, 21000, fee))

\* `x || d`
OrElse(x, d) == IF Truthy(x) THEN x ELSE d

\* proposalData is a mapping; an absent property reads as undefined
buildGovernanceProposalTx(proposer, pd, now) ==
    LET p(f) == Get(pd, <<f>>)
    IN  Tx(Map(<<<<"op_code", Word("governance_proposal")>>,
                 <<"from", Str(proposer)>>, <<"to", Str(GovernanceAddress)>>,
                 <<"nonce", p("nonce")>>>>),
           Map(<<<<"proposal_id", p("proposal_id")>>, <<"title", p("title")>>,
                 <<"description", p("description")>>,
                 <<"category", p("category")>>,
                 <<"execution_route", p("execution_route")>>,
                 <<"quorum", OrElse(p("quorum"), Num(4, 1))>>,
                 <<"threshold", OrElse(p("threshold"), Num(66, 2))>>,
                 <<"duration_blocks", OrElse(p("duration_blocks"), Num(10000, 0))>>,
                 <<"constraints", OrElse(p("constraints"), Arr(<<>>))>>>>),
           Footer(now, 500000, Num(200, 0)))

buildGovernanceVoteTx(voter, proposalId, support, nonce, now) ==
    Tx(Map(<<<<"op_code", Word("governance_vote")>>, <<"from", Str(voter)>>,
             <<"to", Str(GovernanceAddress)>>, <<"nonce", nonce>>>>),
       Map(<<<<"proposal_id", proposalId>>, <<"support", support>>>>),
       Footer(now, 100000, Num(150, 0)))

(* ------------------------ signTx, verifyTxSignature --------------------- *)
(* signTx hashes JSON.stringify({header, data}) + privateKey.  hashMock   *)
(* folds left to right, so that is the key's characters folded onto the   *)
(* hash state msgHash of the JSON text, which is left abstract.  The     *)
(* object is mutated in place: only footer.signature changes.             *)
signTx(tx, privateKey, msgHash) ==
    [tx EXCEPT !.footer = Put(@, <<"signature">>,
                   Str(<<"ed25519", ":", "0", "x">>
                       \o hashHex(hashFrom(msgHash, privateKey))))]

verifyTxSignature(tx) ==
    LET sig == Get(tx.footer, <<"signature">>)
    IN  CASE ~Truthy(sig)                           -> [valid |-> FALSE, thrown |-> FALSE]
          [] sig.t # "string"                       -> [valid |-> FALSE, thrown |-> TRUE]
          [] ~StartsWith(sig.s, <<"ed25519", ":">>) -> [valid |-> FALSE, thrown |-> FALSE]
          [] OTHER                                  -> [valid |-> TRUE, thrown |-> FALSE]
=============================================================================
