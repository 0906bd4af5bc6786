------------------------------- MODULE Docli -------------------------------
(***************************************************************************)
(* Runs of docli, one after the other (main.go): convert to stdout, chunk, *)
(* health and version, from the command line to the exit status, with      *)
(* their requests to the server, the signal that cancels the context, the  *)
(* time limit of the http.Client and the cache that convert leaves behind. *)
(*                                                                         *)
(* What runs of convert do to each other at the same time is in            *)
(* CachedConvert.tla, --output and --status are in Outputs.tla, the upload *)
(* of a file is in Upload.tla.  Options.tla and Document.tla have what is  *)
(* sent and what is made of the answer.                                    *)
(***************************************************************************)
EXTENDS Options, Document

CONSTANTS
  Lines,      \* command lines
  Later,      \* the command lines of the runs after the first
  MaxRuns,    \* bound on the runs
  Documents,  \* documents the server answers with, on the wire
  MaxChunks   \* bound on the chunks it answers with

ASSUME DocliAssumption ==
  /\ Later \subseteq Lines /\ Documents \subseteq Wire /\ MaxRuns \in Nat /\ MaxChunks \in Nat
  /\ \A l \in Lines : /\ l.cmd \in {"convert", "chunk", "health", "ready", "version"}
                      /\ WellFormed(l.flags) /\ (l.cmd = "chunk" => ~Changed(l.flags, "to"))

VARIABLES
  runs,       \* how many runs have begun
  line,       \* the command line
  opts,       \* the options of a conversion that it asks for
  pc,         \* how far the run is
  context,    \* whether a signal has cancelled the context
  asking,     \* the request the run is about
  received,   \* history: the requests of this run that have reached the server
  answer,     \* what the server answers
  resp,       \* the response the run has
  caching,    \* there is a namespace to look the response up in and to store it
  store,      \* the entries of the cache by their keys
  out,        \* stdout
  code        \* the exit status

vars == <<runs, line, opts, pc, context, asking, received, answer, resp, caching, store, out, code>>

----------------------------------------------------------------------------
(* Data *)

\* chunker is "" but for chunk; noCache and input are FALSE and "" but for convert and
\* chunk.
Line(cmd, chunker, input, noCache, flags) ==
  [cmd |-> cmd, chunker |-> chunker, input |-> input, noCache |-> noCache, flags |-> flags]

NoLine == Line("", "", "", FALSE, << >>)

ChunkPretty(l) == l.cmd = "chunk" /\ Value(l.flags, "pretty", <<"false">>) = <<"true">>

\* RunE's checks before a request; --to may be empty or name no format.
Rejected(l) ==
  \/ l.cmd = "convert" /\ parseOutputFormats(Value(l.flags, "to", <<"md">>)) = << >>
  \/ l.cmd \in {"convert", "chunk"} /\ BuildFails(l.flags)
  \/ l.cmd = "chunk" /\ l.chunker \notin {"hybrid", "hierarchical"}

\* convert and chunk build the options, convert with --to.
OptionsOf(l) ==
  CASE l.cmd = "convert" /\ ~Rejected(l) -> convertOptions(l.flags)
    [] l.cmd = "chunk" /\ ~Rejected(l)   -> build(l.flags)
    [] OTHER                              -> ZeroValue(ConvertOptions)

\* The conversion, or chunking, a command line asks for.
Asked(l) ==
  IF l.cmd = "chunk"
  THEN ChunkRequest(l.chunker, l.input, OptionsOf(l), chunkerOptions(l.chunker, l.flags))
  ELSE ConvertRequest(l.input, OptionsOf(l))

Key == CacheKey(line.input, opts)

\* convert's primary: the first format of --to.
Primary == opts.to_formats[1]

\* postJSON cannot encode the body.
Unsendable == asking = "document" /\ isURL(line.input) /\ ~Encodable(opts)

\* A response: the document or the chunks, and, as history, the command line whose
\* request it answers and the document as the server sent it.  status is "" in a {}
\* or a null.
Response(of, status, contents, chunks, sent) ==
  [of |-> of, status |-> status, contents |-> contents, chunks |-> chunks, sent |-> sent]

NoResponse == Response(NoLine, "none", << >>, 0, NoFields)

NoAnswer == [http |-> "none", status |-> "none", sent |-> NoFields, chunks |-> 0]

\* A non-2xx; a 2xx that breaks off or is no JSON of the kind expected; a 2xx.
Answers ==
  [http: {"error", "broken"}, status: {"none"}, sent: {NoFields}, chunks: {0}]
    \cup
  IF asking # "document"
  THEN [http: {"ok"}, status: {"none"}, sent: {NoFields}, chunks: {0}]
  ELSE IF line.cmd = "chunk"
  THEN [http: {"ok"}, status: {"none"}, sent: {NoFields}, chunks: 0 .. MaxChunks]
  ELSE [http: {"ok"}, status: {"success", "failure"}, sent: Documents, chunks: {0}]
         \cup [http: {"ok"}, status: {""}, sent: {NoFields}, chunks: {0}]

Item(text, n) == [text |-> text, n |-> n]

Torn == Item("part of it", 0)

----------------------------------------------------------------------------

Init ==
  /\ runs = 0 /\ line = NoLine /\ opts = ZeroValue(ConvertOptions) /\ pc = "exited" /\ context = "live"
  /\ asking = "nothing" /\ received = 0 /\ answer = NoAnswer
  /\ resp = NoResponse /\ caching = FALSE /\ store = << >>
  /\ out = << >> /\ code = 0

Exit(status) == pc' = "exited" /\ code' = status

\* The process begins: cobra parses the flags, RunE checks them and builds the options.
Begin ==
  /\ pc = "exited" /\ runs < MaxRuns
  /\ runs' = runs + 1
  /\ \E l \in IF runs = 0 THEN Lines ELSE Later :
       /\ line' = l /\ opts' = OptionsOf(l)
       /\ IF Rejected(l) THEN Exit(1)
          ELSE pc' = (IF l.cmd = "convert" /\ ~l.noCache THEN "version" ELSE "send") /\ code' = 0
       /\ asking' = CASE l.cmd \in {"convert", "chunk"} -> "document"
                      [] OTHER -> l.cmd
  /\ context' = "live" /\ received' = 0 /\ answer' = NoAnswer
  /\ resp' = NoResponse /\ caching' = FALSE /\ out' = << >>
  /\ UNCHANGED store

----------------------------------------------------------------------------
(* runConvertCached *)

\* Whatever is wrong with the cache, the conversion is live.
GoLive == pc' = "send" /\ asking' = "document"

\* The version is in server_version.json, or is asked for, or there is no directory.
FindVersion ==
  /\ pc = "version"
  /\ \/ pc' = "namespace" /\ UNCHANGED asking
     \/ pc' = "send" /\ asking' = "version"
     \/ GoLive
  /\ UNCHANGED <<runs, line, opts, context, received, answer, resp, caching, store, out, code>>

OpenNamespace ==
  /\ pc = "namespace"
  /\ \/ pc' = "lookup" /\ caching' = TRUE /\ UNCHANGED asking
     \/ GoLive /\ UNCHANGED caching
  /\ UNCHANGED <<runs, line, opts, context, received, answer, resp, store, out, code>>

\* What Get makes of an entry.
Decoded(entry) == [entry EXCEPT !.contents = Unmarshal(entry.contents)]

\* sourceForKey, which fails for a file that cannot be read, CacheKey and Get, which
\* may fail too.
Lookup ==
  /\ pc = "lookup"
  /\ \/ /\ ~isURL(line.input)
        /\ Exit(1) /\ UNCHANGED <<asking, resp>>
     \/ /\ Key \in DOMAIN store
        /\ resp' = Decoded(store[Key])
        /\ pc' = "check" /\ UNCHANGED <<asking, code>>
     \/ GoLive /\ UNCHANGED <<resp, code>>
  /\ UNCHANGED <<runs, line, opts, context, received, answer, caching, store, out>>

\* The entry Put makes of the response.
Encoded(response) == [response EXCEPT !.contents = Marshal(response.contents)]

\* Put, which may fail.
Store ==
  /\ pc = "store"
  /\ \/ store' = [k \in {Key} \cup DOMAIN store |->
                    IF k = Key THEN Encoded(resp) ELSE store[k]]
     \/ UNCHANGED store
  /\ pc' = "check"
  /\ UNCHANGED <<runs, line, opts, context, asking, received, answer, resp, caching, out, code>>

----------------------------------------------------------------------------
(* A request: newRequest, http.Client.Do and doJSON *)

\* The call fails: without a version the cache is disabled, else the run has failed.
CallFails ==
  IF line.cmd = "convert" /\ asking = "version" THEN GoLive /\ UNCHANGED code
  ELSE Exit(1) /\ UNCHANGED asking

\* Variant: the conversion is sent with a context of its own.
SendDetached ==
  /\ pc = "send"
  /\ \/ /\ context = "live" \/ asking = "document"
        /\ ~Unsendable
        /\ pc' = "wait" /\ received' = received + 1
        /\ UNCHANGED <<asking, code>>
     \/ CallFails /\ UNCHANGED received
  /\ UNCHANGED <<runs, line, opts, context, answer, resp, caching, store, out>>

\* The body cannot be encoded, the file not be opened, the server not be reached; a
\* request under a cancelled context is not sent.
Send ==
  /\ pc = "send"
  /\ \/ /\ context = "live" /\ ~Unsendable
        /\ pc' = "wait" /\ received' = received + 1
        /\ UNCHANGED <<asking, code>>
     \/ CallFails /\ UNCHANGED received
  /\ UNCHANGED <<runs, line, opts, context, answer, resp, caching, store, out>>

\* The server answers: its status first, then the body; or it never does.
Respond ==
  /\ pc = "wait"
  /\ pc' = "body" /\ answer' \in Answers
  /\ UNCHANGED <<runs, line, opts, context, asking, received, resp, caching, store, out, code>>

Deliver ==
  /\ pc = "body"
  /\ pc' = "decode"
  /\ UNCHANGED <<runs, line, opts, context, asking, received, answer, resp, caching, store, out, code>>

\* Variant: the context is looked at only until the status has come.
CancelledEarly ==
  /\ pc = "wait" /\ context = "cancelled"
  /\ CallFails
  /\ UNCHANGED <<runs, line, opts, context, received, answer, resp, caching, store, out>>

\* The context of the request is done.
Cancelled ==
  /\ pc \in {"wait", "body"} /\ context = "cancelled"
  /\ CallFails
  /\ UNCHANGED <<runs, line, opts, context, received, answer, resp, caching, store, out>>

\* Variant: the limit is one for the response's header.
TimeOutHeader ==
  /\ pc = "wait"
  /\ CallFails
  /\ UNCHANGED <<runs, line, opts, context, received, answer, resp, caching, store, out>>

\* The Timeout of the http.Client: five minutes for header and body.
TimeOut ==
  /\ pc \in {"wait", "body"}
  /\ CallFails
  /\ UNCHANGED <<runs, line, opts, context, received, answer, resp, caching, store, out>>

\* What is made of a 2xx.
Accept ==
  CASE asking = "version" /\ line.cmd = "convert" ->
         pc' = "namespace" /\ asking' = "document" /\ UNCHANGED <<resp, code>>
    [] asking = "document" ->
         /\ resp' = Response(line, answer.status, Unmarshal(answer.sent),
                             answer.chunks, answer.sent)
         /\ pc' = (IF caching THEN "store" ELSE "check")
         /\ UNCHANGED <<asking, code>>
    [] OTHER ->
         pc' = "check" /\ resp' = [NoResponse EXCEPT !.status = "ok"] /\ UNCHANGED <<asking, code>>

\* Variant: the error of the decoder is dropped.
DecodeUnchecked ==
  /\ pc = "decode"
  /\ IF answer.http = "ok" THEN Accept
     ELSE pc' = "check" /\ UNCHANGED <<asking, resp, code>>
  /\ UNCHANGED <<runs, line, opts, context, received, answer, caching, store, out>>

\* A non-2xx is an APIError, what does not decode an error.
Decode ==
  /\ pc = "decode"
  /\ IF answer.http = "ok" THEN Accept ELSE CallFails /\ UNCHANGED resp
  /\ UNCHANGED <<runs, line, opts, context, received, answer, caching, store, out>>

----------------------------------------------------------------------------
(* The output *)

\* ConvertResponse.Err; the other commands have no status to look at.
Check ==
  /\ pc = "check"
  /\ IF line.cmd = "convert" /\ resp.status = "failure" THEN Exit(1)
     ELSE pc' = "print" /\ UNCHANGED code
  /\ UNCHANGED <<runs, line, opts, context, asking, received, answer, resp, caching, store, out>>

\* writeContent: the content of the first format, if it is not empty.
ContentItems ==
  LET text == ContentOf(resp.contents, Primary)
  IN  IF text = "" THEN << >> ELSE <<Item(text, 1)>>

\* The chunks, a line each, or the response as a whole.
ChunkItems ==
  IF ChunkPretty(line) THEN <<Item("response", resp.chunks)>>
  ELSE [i \in 1 .. resp.chunks |-> Item("chunk", i)]

\* The status of health and ready, or the versions.
PayloadItems == <<Item(line.cmd, 1)>>

\* What a run prints.
Items ==
  CASE line.cmd = "convert" -> ContentItems
    [] line.cmd = "chunk"   -> ChunkItems
    [] OTHER                -> PayloadItems

\* Variant: chunk goes on after a line it could not write.
WriteItemUnchecked ==
  /\ pc = "print" /\ Len(out) < Len(Items)
  /\ \/ out' = Append(out, Items[Len(out) + 1]) /\ UNCHANGED <<pc, code>>
     \/ out' = Append(out, Torn) /\ UNCHANGED <<pc, code>>
  /\ UNCHANGED <<runs, line, opts, context, asking, received, answer, resp, caching, store>>

\* A write to stdout that fails is an error, but not for health and ready.
WriteItem ==
  /\ pc = "print" /\ Len(out) < Len(Items)
  /\ \/ out' = Append(out, Items[Len(out) + 1]) /\ UNCHANGED <<pc, code>>
     \/ /\ out' = Append(out, Torn)
        /\ Exit(IF line.cmd \in {"health", "ready"} THEN 0 ELSE 1)
  /\ UNCHANGED <<runs, line, opts, context, asking, received, answer, resp, caching, store>>

\* Without a content convert fails; else all is printed.
Finish ==
  /\ pc = "print" /\ Len(out) = Len(Items)
  /\ Exit(IF line.cmd = "convert" /\ Items = << >> THEN 1 ELSE 0)
  /\ UNCHANGED <<runs, line, opts, context, asking, received, answer, resp, caching, store, out>>

\* SIGINT or SIGTERM: signal.NotifyContext cancels the context, and that is all.
Interrupt ==
  /\ pc # "exited" /\ context = "live"
  /\ context' = "cancelled"
  /\ UNCHANGED <<runs, line, opts, pc, asking, received, answer, resp, caching, store, out, code>>

----------------------------------------------------------------------------

\* The steps docli takes by itself.
Step ==
  \/ FindVersion \/ OpenNamespace \/ Lookup \/ Store
  \/ Send \/ Cancelled \/ Decode
  \/ Check \/ WriteItem \/ Finish

Next == Begin \/ Step \/ TimeOut \/ Respond \/ Deliver \/ Interrupt

Spec == Init /\ [][Next]_vars

\* The process runs and stdout is read; the server need not answer.
FairSpec == Spec /\ WF_vars(Step)

----------------------------------------------------------------------------
(* What the flags mean: README.md:215-257 *)

\* Each flag and the setting of the server it is about.
ConvertSettings ==
  {<<"from", "from_formats">>, <<"to", "to_formats">>, <<"ocr", "do_ocr">>,
   <<"force-ocr", "force_ocr">>, <<"ocr-lang", "ocr_lang">>, <<"table-mode", "table_mode">>,
   <<"pages", "page_range">>, <<"image-export-mode", "image_export_mode">>,
   <<"abort-on-error", "abort_on_error">>, <<"document-timeout", "document_timeout">>,
   <<"tables", "do_table_structure">>, <<"images-scale", "images_scale">>,
   <<"include-images", "include_images">>, <<"pdf-backend", "pdf_backend">>,
   <<"pipeline", "pipeline">>}

ChunkerSettings(chunker) ==
  {<<"markdown-tables", "use_markdown_tables">>, <<"include-raw-text", "include_raw_text">>}
    \cup IF chunker = "hierarchical" THEN {}
         ELSE {<<"max-tokens", "max_tokens">>, <<"tokenizer", "tokenizer">>,
               <<"merge-peers", "merge_peers">>}

\* The value of a flag, << >> without one; the --to of convert has a default, md.
Given(l, flag) ==
  CASE Changed(l.flags, flag)            -> l.flags[flag]
    [] ~Changed(l.flags, flag) /\ flag = "to" /\ l.cmd = "convert" -> <<"md">>
    [] OTHER                             -> << >>

\* The texts that are not empty.
NonEmpty(texts) ==
  LET upto[i \in 0 .. Len(texts)] ==
        IF i = 0 THEN << >>
        ELSE IF texts[i] = "" THEN upto[i - 1] ELSE Append(upto[i - 1], texts[i])
  IN  upto[Len(texts)]

Trimmed(texts) == [i \in DOMAIN texts |-> TrimSpace(texts[i])]

\* Nothing, a page or two pages.
WellFormedPages(tokens) ==
  \/ tokens = << >>
  \/ Len(tokens) = 1 /\ tokens[1] \in Numbers
  \/ Len(tokens) = 3 /\ {tokens[1], tokens[3]} \subseteq Numbers /\ tokens[2] = "-"

\* What the value of a flag asks for, << >> if it asks for nothing: the toggles that
\* are off by default and are set to false, and the texts that are empty.
Meaning(flag, value) ==
  CASE flag = "ocr-lang" -> NonEmpty(Trimmed(value))
    [] flag = "to" -> Trimmed(value)
    [] flag = "pages" /\ value # << >> -> <<value[1], value[Len(value)]>>
    [] flag \in {"force-ocr", "abort-on-error"} /\ value = <<"false">> -> << >>
    [] flag \in TextFlags /\ value = <<"">> -> << >>
    [] OTHER -> value

\* The settings a group of flags asks for.
Asking(group, settings, l) ==
  {[group |-> group, name |-> s[2], value |-> Meaning(s[1], Given(l, s[1]))] :
     s \in {s \in settings : Meaning(s[1], Given(l, s[1])) # << >>}}

Meant(l) ==
  Asking("convert", ConvertSettings, l)
    \cup IF l.cmd = "chunk" THEN Asking("chunking", ChunkerSettings(l.chunker), l) ELSE {}

\* What is sent for a flag that is not given: DoOCR is set to the default of --ocr
\* (main.go:656).
Unasked(l) ==
  IF Changed(l.flags, "ocr") THEN {}
  ELSE {[group |-> "convert", name |-> "do_ocr", value |-> <<"true">>]}

----------------------------------------------------------------------------
(* Properties *)

TypeOK ==
  /\ runs \in 0 .. MaxRuns
  /\ line.cmd \in {"", "convert", "chunk", "health", "ready", "version"}
  /\ pc \in {"version", "namespace", "lookup", "send", "wait", "body", "decode",
             "store", "check", "print", "exited"}
  /\ context \in {"live", "cancelled"} /\ received \in 0 .. 2
  /\ asking \in {"nothing", "document", "version", "health", "ready"}
  /\ resp.contents \in Seq(Contents)
  /\ pc \in {"store", "check", "print"} => resp # NoResponse
  /\ \A k \in DOMAIN store : store[k].contents \in Wire
  /\ caching \in BOOLEAN /\ Len(out) <= MaxChunks + 1 /\ code \in {0, 1}

\* The server is asked for what the flags say and for nothing else, the same by a form
\* and by JSON (README.md:215-257), but for do_ocr, which is sent unasked.  An explicit
\* false or 0 of a pointer field gets there; of --force-ocr and --abort-on-error, plain
\* bools that are off by default, only true is sent (types.go:250-253).  --pages is held
\* to it when it is a page or a range; parsePageRange takes more.
SentIsWhatWasSet ==
  pc = "wait" /\ asking = "document" =>
    LET pages(s) == s.name = "page_range"
        sent  == Settings(Asked(line))
        meant == Meant(line) \cup Unasked(line)
        asIs  == WellFormedPages(Given(line, "pages"))
    IN  IF asIs THEN sent = meant
        ELSE {s \in sent : ~pages(s)} = {s \in meant : ~pages(s)}

\* "Numeric/bool flags with non-zero CLI defaults are sent only when the user explicitly
\* set them, so the server's own defaults stay authoritative on bare invocations"
\* (main.go:633-635, and 610-613): of a flag that is not text and was not touched,
\* nothing is sent.  build sends do_ocr of every run (main.go:656).
UntouchedIsNotSent ==
  pc = "wait" /\ asking = "document" =>
    \A s \in ConvertSettings :
      s[1] \in Scalars \ TextFlags /\ ~Changed(line.flags, s[1]) =>
        \A sent \in Settings(Asked(line)) : sent.name # s[2]

\* Whatever run filled the cache, with whatever flags, a response from it answers the
\* request this run would have made, unless JSON has no value for one of the options
\* (CacheKey, cache.go:28-41).
AnswersThisLine ==
  line.cmd = "convert" /\ resp # NoResponse /\ resp.of # line =>
    Asked(resp.of) = Asked(line) \/ ~Encodable(opts)

\* convert prints the content the server sent in the first format of --to, as it was
\* sent, or, from the cache, maybe in another layout (types.go:419-420); and it fails
\* for want of a content only if the server sent none.
PrintsTheDocument ==
  line.cmd = "convert" /\ pc = "exited" /\ resp # NoResponse =>
    LET f      == Primary
        cached == answer.status = "none"
        blank  == Blank(f, resp.sent[f])
    IN  /\ code = 0 => /\ ~blank /\ Len(out) = 1
                       /\ out[1].text \in {resp.sent[f]} \cup
                            IF cached THEN {Marshalled(f, resp.sent[f])} ELSE {}
        /\ code = 1 /\ out = << >> => blank \/ resp.status = "failure"

\* A run that exits with 0 has been answered and has printed all of it, convert a
\* content, chunk every chunk; health and ready tell by the exit status whether
\* the server answered, and do not look at what Fprintln returns (main.go:300).
ZeroMeansDone ==
  pc = "exited" /\ runs > 0 /\ code = 0 =>
    /\ resp # NoResponse
    /\ line.cmd = "chunk" /\ ~ChunkPretty(line) =>
         out = [i \in 1 .. resp.chunks |-> Item("chunk", i)]
    /\ line.cmd \in {"convert", "version"} \/ ChunkPretty(line) => Len(out) = 1
    /\ line.cmd \notin {"health", "ready"} => Torn \notin {out[i] : i \in DOMAIN out}

\* Once it is interrupted docli starts no request any more, not even the live conversion
\* it falls back to when the interrupt has failed the request for the version
\* (main.go:358-363).
QuietAfterInterrupt == [][context = "cancelled" => received' <= received]_vars

\* An interrupt ends the run, in whatever request it is, without waiting for the server
\* or the time limit (main.go:35, client.go:99).
InterruptedEnds == context = "cancelled" ~> pc = "exited"

\* With the time limit of the http.Client every run ends, even if a server accepts the
\* request and stays silent, or stops in the middle of the answer (client.go:70).
RunEnds == WF_vars(TimeOut) => []<>(pc = "exited")
=============================================================================
