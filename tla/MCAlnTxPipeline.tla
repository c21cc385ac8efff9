--------------------------- MODULE MCAlnTxPipeline --------------------------
(* Two seeds, so that two keypairs can be compared; the amounts 0 and 5   *)
(* as numbers and "5" as a string; proposals with every field, without a  *)
(* nonce, and with a falsy quorum; two hash states for the signed text,   *)
(* one of them a negative 32-bit value.                                   *)
EXTENDS AlnTxPipeline

MCUpperWords == [w \in {"HEADER"} |-> "header"]

MCSeeds   == {<<"a">>, <<"b">>}
MCAmounts == {Num(0, 0), Num(5, 0), Str(<<"5">>)}
MCNonces  == {Num(0, 0), Num(3, 0)}

FullProposal ==
    Map(<<<<"proposal_id", Word("p")>>, <<"title", Word("t")>>,
          <<"description", Word("d")>>, <<"category", Word("c")>>,
          <<"execution_route", Word("r")>>, <<"nonce", Num(0, 0)>>>>)
MCProposalDatas ==
    {FullProposal,
     SelectSeq(FullProposal, LAMBDA e : e.k # <<"nonce">>),
     Put(FullProposal, <<"quorum">>, Num(0, 0))}

MCProposalIds == {Word("p")}
MCSupports    == {Word("for"), Word("against")}
MCClock       == {Num(17, 0)}
MCMsgHashes   == {[hi |-> 0, lo |-> 7], [hi |-> 40000, lo |-> 3]}
=============================================================================
