---------------------------- MODULE MCAlnScanner ----------------------------
(* Every text of up to MaxLines lines drawn from ScanLines: a comment,   *)
(* the three kinds of section header (typed, upper case, unknown) and the *)
(* empty section "[]", entries repeating a key, an index-like key with an *)
(* array value, and a line whose only colon is at position 0; and with   *)
(* them the transfer documents of MCAlnCore.                              *)
EXTENDS MCAlnCore

MaxLines == 4

ScanLines == {
    <<"#", "x", ":", "7">>,                    \* comment
    <<"[", "header", "]">>,
    <<" ", "[", "HEADER", "]">>,
    <<"[", "data", "]">>,
    <<"[", "x", "]">>,                         \* unknown section
    <<"[", "]">>,                              \* section named ""
    <<"k", ":", " ", "7">>,
    <<"k", " ", ":", "'", "x", "'", " ">>,     \* same key, quoted value
    <<"7", ":", "[", "7", ",", "x", "]">>,     \* index-like key, array
    <<":", "7">>                               \* colon at index 0
}

ScanTexts == UNION {[1..n -> ScanLines] : n \in 1..MaxLines}
           \cup {<< <<>> >>, NotAString}

\* the short texts, and the transfer documents of MCAlnCore
MCScanTexts == ScanTexts \cup MCTexts
=============================================================================
