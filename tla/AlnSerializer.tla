---------------------------- MODULE AlnSerializer ---------------------------
(***************************************************************************)
(* serializeAlnDocument (src/aln/core/runtime/aln_parser.js).  The output *)
(* string is given as its lines, i.e. as output.split('\n'): a section    *)
(* marker, one `key: formatValue(value)` line per Object.entries entry, a *)
(* blank line between sections and the empty line after the final '\n'.  *)
(***************************************************************************)
EXTENDS AlnValue

EntryLines(m) ==
    LET es == Entries(m)
    IN  [i \in DOMAIN es |-> es[i].k \o <<":", " ">> \o formatValue(es[i].v)]

serializeAlnDocument(doc) ==
    << <<"[", "header", "]">> >> \o EntryLines(doc.header)
    \o << <<>>, <<"[", "data", "]">> >> \o EntryLines(doc.data)
    \o << <<>>, <<"[", "footer", "]">> >> \o EntryLines(doc.footer)
    \o << <<>> >>
=============================================================================
