------------------------------ MODULE MCDocli ------------------------------
(***************************************************************************)
(* An instance of Docli for TLC: command lines that set one flag, or two   *)
(* that meet somewhere; a document with every format, and one with         *)
(* markdown alone.                                                         *)
(***************************************************************************)
EXTENDS Docli, TLC

Url  == "http://example.org/paper.pdf"
Path == "paper.pdf"

Flag(flag, values) == {flag :> v : v \in values}

Pages == {<<"3">>, <<"1", "-", "10">>, <<"10", "-", "1">>, <<"3", ",", "5">>,
          <<"1", "-", "10", ",", "12">>, <<"-", "5">>, <<"3", "-">>, <<"abc">>, << >>}

\* Flags of convert and chunk.
Shared ==
  {<< >>}
    \cup Flag("from", {<<"pdf">>, <<"pdf", "docx">>})
    \cup Flag("ocr", {<<"true">>, <<"false">>})
    \cup Flag("force-ocr", {<<"true">>, <<"false">>})
    \cup Flag("ocr-lang", {<<"en", "  ", " de", "">>, <<" ", "">>})
    \cup Flag("table-mode", {<<"fast">>, <<"slow">>})
    \cup Flag("pages", Pages)
    \cup Flag("image-export-mode", {<<"embedded">>, <<"inline">>})
    \cup Flag("abort-on-error", {<<"true">>, <<"false">>})
    \cup Flag("document-timeout", {<<"0">>})
    \cup Flag("tables", {<<"true">>, <<"false">>})
    \cup Flag("images-scale", {<<"0">>, <<"NaN">>})
    \cup Flag("include-images", {<<"false">>})
    \cup Flag("pdf-backend", {<<"dlparse_v4">>, <<"dlparse_v3">>})
    \cup Flag("pipeline", {<<"vlm">>, <<"fast">>})
    \cup {("tables" :> <<"false">>) @@ ("include-images" :> <<"true">>)}

To == Flag("to", {<< >>, <<"yaml">>, <<" json">>, <<"html", "md">>, <<"text">>, <<"doctags">>})

Chunking ==
  Flag("max-tokens", {<<"0">>, <<"12">>}) \cup Flag("tokenizer", {<<"bge-m3">>})
    \cup Flag("merge-peers", {<<"false">>}) \cup Flag("markdown-tables", {<<"true">>})
    \cup Flag("include-raw-text", {<<"false">>}) \cup Flag("pretty", {<<"true">>})
    \cup {("tables" :> <<"false">>) @@ ("merge-peers" :> <<"true">>)}

Convert(inputs, noCache, flags) == {Line("convert", "", i, n, f) : i \in inputs, n \in noCache, f \in flags}
Chunk(chunkers, inputs, flags)  == {Line("chunk", c, i, FALSE, f) : c \in chunkers, i \in inputs, f \in flags}

\* They differ from some of the first lines in one flag, a false and an unset one too.
MCLater ==
  Convert({Path}, {FALSE}, {<< >>} \cup Flag("tables", {<<"false">>}) \cup Flag("to", {<<" json">>}))
    \cup Convert({Url}, {FALSE}, {<< >>} \cup Flag("pages", {<<"3">>}))

MCLines ==
  MCLater \cup Convert({Path}, {FALSE}, Shared \cup To) \cup Convert({Path}, {TRUE}, {<< >>})
    \cup Convert({Url}, {FALSE}, Flag("tables", {<<"false">>}) \cup Flag("images-scale", {<<"NaN">>}))
    \cup Chunk({"hybrid"}, {Url, Path}, Shared \cup Chunking)
    \cup Chunk({"hierarchical"}, {Url, Path}, {<< >>} \cup Chunking)
    \cup Chunk({"fast"}, {Url}, {<< >>})
    \cup {Line(c, "", "", FALSE, << >>) : c \in {"health", "ready", "version"}}

MCDocuments ==
  {Raw, [NoFields EXCEPT !["md"] = Raw["md"], !["json"] = "null"]}
=============================================================================
