--------------------------- MODULE MCMLThreatHooks ---------------------------
(* Texts that each of the three patterns matches, one with a line break  *)
(* between delegatecall and unknown, one that all three match (score    *)
(* 100) and a clean one; each as a string and wrapped in an object.      *)
EXTENDS MLThreatHooks

MCTexts == { <<"selfdestruct(">>, <<"delegatecall", "nl", "unknown">>,
             <<"balanceOf", "x", "revert">>, <<"x">>,
             <<"selfdestruct(", "delegatecall", "unknown", "balanceOf", "revert">> }
MCPayloads == [kind : {"string", "object"}, text : MCTexts]
=============================================================================
