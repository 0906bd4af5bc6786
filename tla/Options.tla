------------------------------ MODULE Options ------------------------------
(***************************************************************************)
(* From docli's flags to what a request carries: build and its helpers     *)
(* (main.go), the Parse functions and ConvertOptions (types.go), the       *)
(* chunkers' options (chunk.go), the form encoder (formenc.go), the JSON   *)
(* requests (convert.go, chunk.go) and CacheKey (cache.go).                *)
(*                                                                         *)
(* A value of Go is the sequence of its texts: <<"fast">> for a string,    *)
(* <<"true">> for a bool, << >> for a nil pointer, <<v>> for a pointer to  *)
(* v, one text per element of a slice.  The value of a flag is the         *)
(* sequence of its parts: those between the commas of a list, and the      *)
(* numbers and signs of a page range.                                      *)
(***************************************************************************)
EXTENDS Naturals, Sequences

----------------------------------------------------------------------------
(* The structs of options: their fields, all tagged omitempty. *)

Slices(names)   == [name: names, kind: {"slice"}]
Strings(names)  == [name: names, kind: {"string"}]
Bools(names)    == [name: names, kind: {"bool"}]
Pointers(names) == [name: names, kind: {"pointer"}]

ConvertOptions ==
  Slices({"from_formats", "to_formats", "ocr_lang", "page_range"})
    \cup Strings({"image_export_mode", "ocr_engine", "ocr_preset", "pdf_backend",
                  "table_mode", "pipeline"})
    \cup Bools({"force_ocr", "abort_on_error"})
    \cup Pointers({"do_ocr", "do_table_structure", "include_images", "images_scale",
                   "document_timeout"})

HierarchicalChunkerOptions == Pointers({"use_markdown_tables", "include_raw_text"})

HybridChunkerOptions ==
  HierarchicalChunkerOptions \cup Pointers({"max_tokens", "merge_peers"})
    \cup Strings({"tokenizer"})

Zero(kind) == CASE kind \in {"slice", "pointer"} -> << >>
                [] kind = "string" -> <<"">>
                [] kind = "bool"   -> <<"false">>

ZeroValue(struct) ==
  [n \in {f.name : f \in struct} |-> Zero((CHOOSE f \in struct : f.name = n).kind)]

----------------------------------------------------------------------------
(* Parsing the values of flags *)

OutputFormats == {"md", "json", "html", "text", "doctags"}

\* What the Parse functions accept; "" leaves the choice to the server.
ImageExportModes == {"", "placeholder", "embedded", "referenced"}
Pipelines        == {"", "legacy", "standard", "vlm", "asr"}
PDFBackends == {"", "pypdfium2", "docling_parse", "dlparse_v1", "dlparse_v2", "dlparse_v4"}
TableModes       == {"", "fast", "accurate"}

\* strings.TrimSpace, for the padded texts there are.
TrimSpace(text) ==
  CASE text \in {" ", "  "} -> "" [] text = " de" -> "de" [] text = " json" -> "json"
    [] OTHER -> text

\* parseOutputFormats: << >> if one of them is not a format.
parseOutputFormats(texts) ==
  LET out == [i \in DOMAIN texts |-> TrimSpace(texts[i])] IN
  IF \A i \in DOMAIN out : out[i] \in OutputFormats THEN out ELSE << >>

\* A round of splitComma's loop: out is a prefix of the array of the parts, and an append
\* to it writes to that array.
Keep(s, i) ==
  LET p == TrimSpace(s.parts[i]) IN
  IF p = "" THEN s
  ELSE [parts |-> [s.parts EXCEPT ![s.out + 1] = p], out |-> s.out + 1]

\* The array and the length of out after each round.
Rounds(parts) ==
  LET after[i \in 0 .. Len(parts)] ==
        IF i = 0 THEN [parts |-> parts, out |-> 0] ELSE Keep(after[i - 1], i)
  IN  after

\* splitComma compacts the parts in place, while it goes on reading them.
splitComma(parts) ==
  LET end == Rounds(parts)[Len(parts)] IN SubSeq(end.parts, 1, end.out)

Numbers == {"0", "1", "3", "5", "10", "12"}

\* How many of the tokens from i on %d takes: a number, or a sign and a number.
IntAt(tokens, i) ==
  CASE i \in DOMAIN tokens /\ tokens[i] \in Numbers -> 1
    [] {i, i + 1} \subseteq DOMAIN tokens /\ tokens[i] = "-" /\ tokens[i + 1] \in Numbers -> 2
    [] OTHER -> 0

IntText(tokens, i) == IF tokens[i] = "-" THEN "-" \o tokens[i + 1] ELSE tokens[i]

\* parsePageRange: << >> if Sscanf fails.  What follows the last number is not read.
parsePageRange(tokens) ==
  LET lo  == IntAt(tokens, 1)
      hi  == lo + 2
      dash == \E i \in DOMAIN tokens : tokens[i] = "-"
  IN  CASE lo = 0 -> << >>
        [] lo > 0 /\ ~dash -> <<IntText(tokens, 1), IntText(tokens, 1)>>
        [] lo > 0 /\ dash /\ lo + 1 \in DOMAIN tokens /\ tokens[lo + 1] = "-"
             /\ IntAt(tokens, hi) > 0 -> <<IntText(tokens, 1), IntText(tokens, hi)>>
        [] OTHER -> << >>

----------------------------------------------------------------------------
(* build *)

Changed(flags, flag) == flag \in DOMAIN flags

Value(flags, flag, default) == IF Changed(flags, flag) THEN flags[flag] ELSE default

\* The flags with one text, the toggles and the numbers, and those with any number.
TextFlags == {"table-mode", "image-export-mode", "pdf-backend", "pipeline", "tokenizer"}

Scalars ==
  TextFlags \cup {"ocr", "force-ocr", "abort-on-error", "tables", "include-images",
                  "document-timeout", "images-scale", "max-tokens", "merge-peers",
                  "markdown-tables", "include-raw-text", "pretty"}

Lists == {"from", "to", "ocr-lang", "pages"}

\* Flags as pflag makes them.
WellFormed(flags) ==
  /\ DOMAIN flags \subseteq Scalars \cup Lists
  /\ \A f \in DOMAIN flags : flags[f] \in Seq(STRING) /\ (f \in Scalars => Len(flags[f]) = 1)

\* The flags build turns down.
BuildFails(flags) ==
  \/ Value(flags, "image-export-mode", <<"">>)[1] \notin ImageExportModes
  \/ Value(flags, "table-mode", <<"">>)[1] \notin TableModes
  \/ Value(flags, "pdf-backend", <<"">>)[1] \notin PDFBackends
  \/ Value(flags, "pipeline", <<"">>)[1] \notin Pipelines
  \/ LET pages == Value(flags, "pages", << >>) IN
       pages # << >> /\ parsePageRange(pages) = << >>

\* --ocr is sent whether it is given or not, the other pointers if it is.
build(flags) ==
  [ZeroValue(ConvertOptions) EXCEPT
     !.from_formats       = Value(flags, "from", << >>),
     !.do_ocr             = Value(flags, "ocr", <<"true">>),
     !.force_ocr          = Value(flags, "force-ocr", <<"false">>),
     !.table_mode         = Value(flags, "table-mode", <<"">>),
     !.image_export_mode  = Value(flags, "image-export-mode", <<"">>),
     !.pdf_backend        = Value(flags, "pdf-backend", <<"">>),
     !.pipeline           = Value(flags, "pipeline", <<"">>),
     !.ocr_lang           = splitComma(Value(flags, "ocr-lang", << >>)),
     !.page_range         = parsePageRange(Value(flags, "pages", << >>)),
     !.abort_on_error     = Value(flags, "abort-on-error", <<"false">>),
     !.do_table_structure = Value(flags, "tables", << >>),
     !.include_images     = Value(flags, "include-images", << >>),
     !.document_timeout   = Value(flags, "document-timeout", << >>),
     !.images_scale       = Value(flags, "images-scale", << >>)]

\* What convert asks for: build, and --to, which is md if it is not given.
convertOptions(flags) ==
  [build(flags) EXCEPT !.to_formats = parseOutputFormats(Value(flags, "to", <<"md">>))]

\* The options chunk gives the chunker.
ChunkerStruct(chunker) ==
  IF chunker = "hybrid" THEN HybridChunkerOptions ELSE HierarchicalChunkerOptions

chunkerOptions(chunker, flags) ==
  LET all == [ZeroValue(HybridChunkerOptions) EXCEPT
                !.max_tokens          = Value(flags, "max-tokens", << >>),
                !.tokenizer           = Value(flags, "tokenizer", <<"">>),
                !.merge_peers         = Value(flags, "merge-peers", << >>),
                !.use_markdown_tables = Value(flags, "markdown-tables", << >>),
                !.include_raw_text    = Value(flags, "include-raw-text", << >>)]
  IN  [n \in DOMAIN ZeroValue(ChunkerStruct(chunker)) |-> all[n]]

----------------------------------------------------------------------------
(* Encoding *)

\* Variant: pointers are looked through, so that an explicit false or 0 is empty.
isEmptyPointee(kind, value) ==
  IF kind = "pointer" THEN value \in {<< >>, <<"false">>, <<"0">>} ELSE value = Zero(kind)

\* Empty slices and strings, false and nil pointers, not pointers to false or 0.
isEmptyValue(kind, value) == value = Zero(kind)

\* One form field per text of every field that is not empty, the nth of its name.
encodeFormFields(struct, v, prefix) ==
  UNION {{[prefix |-> prefix, name |-> f.name, nth |-> i, value |-> v[f.name][i]] :
            i \in DOMAIN v[f.name]} :
         f \in {f \in struct : ~isEmptyValue(f.kind, v[f.name])}}

\* encoding/json, whose omitempty drops the same values; it has no NaN and no Inf.
encodeJSON(struct, v, group) ==
  {[group |-> group, name |-> f.name, value |-> v[f.name]] :
     f \in {f \in struct : v[f.name] # Zero(f.kind)}}

Encodable(v) == \A n \in DOMAIN v : v[n] # <<"NaN">>

----------------------------------------------------------------------------
(* Requests *)

isURL(input) == input = "http://example.org/paper.pdf"

\* path is the segments of the endpoint's, after /v1.
Request(path, input, json, form) ==
  [path |-> path, input |-> input, json |-> json, form |-> form]

\* ConvertURL or ConvertPath.
ConvertRequest(input, opts) ==
  IF isURL(input)
  THEN Request(<<"convert", "source">>, input, encodeJSON(ConvertOptions, opts, "convert"), {})
  ELSE Request(<<"convert", "file">>, input, {}, encodeFormFields(ConvertOptions, opts, ""))

\* ChunkHybridURL, ChunkHierarchicalURL, or chunkFile.
ChunkRequest(chunker, input, opts, chunkOpts) ==
  LET struct == ChunkerStruct(chunker)
  IN  IF isURL(input)
      THEN Request(<<"chunk", chunker, "source">>, input,
                   encodeJSON(ConvertOptions, opts, "convert")
                     \cup encodeJSON(struct, chunkOpts, "chunking"), {})
      ELSE Request(<<"chunk", chunker, "file">>, input, {},
                   encodeFormFields(ConvertOptions, opts, "convert_")
                     \cup encodeFormFields(struct, chunkOpts, "chunking_"))

\* The group a form field belongs to at an endpoint of docling-serve.
GroupOf(path, prefix) ==
  CASE path[1] = "convert" /\ prefix = ""        -> "convert"
    [] path[1] = "chunk" /\ prefix = "convert_"  -> "convert"
    [] path[1] = "chunk" /\ prefix = "chunking_" -> "chunking"
    [] OTHER -> "unknown"

\* The texts of the form fields with the name of p, in order.
Values(form, p) ==
  LET same == {q \in form : q.prefix = p.prefix /\ q.name = p.name}
  IN  [i \in {q.nth : q \in same} |-> (CHOOSE q \in same : q.nth = i).value]

\* What docling-serve is asked to do: the settings of the JSON body or of the form,
\* whose fields of one name are the elements of a list.
Settings(request) ==
  request.json \cup {[group |-> GroupOf(request.path, p.prefix), name |-> p.name,
                      value |-> Values(request.form, p)] : p \in request.form}

\* Variant: the key is made of plain values, for which false and unset are the same.
CacheKeyPlain(input, opts) ==
  [input |-> input,
   options |-> {s \in encodeJSON(ConvertOptions, opts, "options") :
                  s.value \notin {<<"false">>, <<"0">>}}]

\* CacheKey hashes the JSON of the source and the options, or nothing if the options
\* have none.
CacheKey(input, opts) ==
  IF Encodable(opts)
  THEN [input |-> input, options |-> encodeJSON(ConvertOptions, opts, "options")]
  ELSE [input |-> "", options |-> {}]
=============================================================================
