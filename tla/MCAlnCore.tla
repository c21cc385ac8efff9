----------------------------- MODULE MCAlnCore ------------------------------
(* Transfer documents in the layout tx_builder.js and the spec's examples *)
(* use, one line per field, with each field drawn from a few raw values:  *)
(* well-formed ones, an empty address, a numeric address, a quoted nonce, *)
(* a decimal nonce, a quoted zero amount and a data value exercising      *)
(* quoting, array splitting and number formatting.                       *)
EXTENDS AlnCore

MCUpperWords == [w \in {"HEADER"} |-> "header"]

KV(k, v) == k \o <<":", " ">> \o v

OpCodes   == {<<"transfer">>, <<"withdraw">>}
Froms     == {<<"aln1", "x">>, <<"\"", "\"">>, <<"7">>}
Nonces    == {<<"0">>, <<"\"", "7", "\"">>, <<"7", ".", "5">>}
Amounts   == {<<"5">>, <<"'", "0", "'">>}
Extras    == {<<"memo">>} \X
             {<<"\"", "0", "0", "7", "\"">>,            \* "007"
              <<"[", "7", ",", "\"", "x", " ", "y", "\"", "]">>,
              <<"'", "[", "7", ",", "7", "]", "'">>,    \* '[7,7]'
              <<"'", "\"", "x", "\"", "'">>,            \* '"x"'
              <<"'", " ", "x", "'">>,                   \* ' x'
              <<"7", ".", "5", "0">>}

Doc(op, from, nonce, amount, extra) ==
    << <<"[", "HEADER", "]">>,
       KV(<<"op_code">>, op), KV(<<"from">>, from), KV(<<"to">>, <<"aln1", "y">>),
       KV(<<"nonce">>, nonce),
       <<"[", "data", "]">>,
       KV(<<"amount">>, amount), KV(extra[1], extra[2]),
       <<"[", "footer", "]">>,
       KV(<<"signature">>, <<"ed25519", ":", "0", "0">>),
       KV(<<"timestamp">>, <<"1", "7">>) >>

MCTexts == {Doc(op, f, n, a, x) : op \in OpCodes, f \in Froms, n \in Nonces,
                                  a \in Amounts, x \in Extras}
=============================================================================
