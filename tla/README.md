# doclingclient: specifications, model checks and proofs

TLA+ for [miku/doclingclient](https://github.com/miku/doclingclient), a Go client
library for docling-serve (`*.go`) with a command line tool (`cmd/docli/main.go`).
The modules are translated from the code; file and line references are to it.

    tlc -workers 2 -config FileCache_calls.cfg FileCache       # one run
    tlapm FileCache_proofs.tla                                  # one proof module

`PROJECT.json` lists the runs with their modules and configurations, the code
lines behind every definition, the hazards, the findings and the theorems.

## The system

| Component | State | Operations | Hard about it |
|---|---|---|---|
| `FileCache` (cache.go) | a directory of entries and temporary files, shared by goroutines and processes | `NewFileCache`, `Get`, `Put` | interleaved system calls, kills, failing steps, pruning, power loss |
| `ServerVersion` (cache.go) | `server_version.json`, shared by processes | read, fetch, stamp, truncate, write | a file rewritten in place, stale versions, servers that are upgraded |
| `runConvertCached` (main.go) | the local files, the namespaces of the cache | one run: version, namespace, fingerprint, lookup, conversion, store | files edited while they are hashed and before they are uploaded, files of one name, every cache step may fail |
| `ProcessFile`, `chunkFile` (convert.go, chunk.go, formenc.go, client.go) | a pipe between a goroutine and `net/http` | caller, producer, transport, server | errors on either side, early answers, timeouts, a leaked goroutine |
| `convert`'s RunE and outputs (main.go) | files in `--output`, stdout, stderr | status, error check, files or stdout | missing formats, failed writes, runs that share a directory |
| `New` and its options (client.go) | `Client`s and `http.Client`s | one step per option | order of options, shared pointers |
| flags, `ConvertOptions`, form and JSON encoding, `CacheKey` (main.go, types.go, chunk.go, formenc.go) | none | parse, build, encode | which option is sent, unset against false, form against JSON |
| `Document` (types.go) | none | `UnmarshalJSON`, `MarshalJSON`, accessors | twice through the codec by way of the cache |
| the commands of docli (main.go, meta.go, convert.go, chunk.go) | the cache, stdout, the exit status | flags, requests, output, with a signal and a time limit | interrupts at any time, silent servers, output that fails halfway |
| sources, targets, `EncodeFile` (types.go, convert.go) | none | marshalling | |

`docli convert` ties them together: RunE (`Outputs`) calls `runConvertCached`
(`CachedConvert`), which calls `ServerVersion`, `FileCache` and a live conversion
(`Upload` for a local file). `Docli` has the commands as a whole, with what `Options`
and `Document` make of the data, and two runs one after the other. Processes meet only in the file system: the cache
directory, the version file, the output directory and the documents themselves.
The only goroutine of the program is the producer of an upload. There are no locks.

What makes each correct: a `Get` sees whole responses and a `Put` is all or nothing;
a version is never older than its time to live allows; the cache changes neither
whether nor what a run delivers; an upload that counts as complete is complete, and
neither side is left waiting; what a run reports and delivers agrees with the
response; the server is asked for what the flags say; an exit status of 0 means that
the work is done; a run ends.

## Modules

| Module | Models | Uses |
|---|---|---|
| `AtomicCache` | what `Cache` (cache.go:19-26) promises: a map with atomic calls | |
| `FileCache` | `NewFileCache`, `Get`, `Put`, one action per system call or group of writes | `AtomicCache` (refinement) |
| `ServerVersion` | `ServerVersion`, `readCachedVersion`, `writeCachedVersion` | |
| `CachedConvert` | `runConvertCached`, `CacheKey`, `SourceForFile` | extends `ServerVersion` |
| `Upload` | `ProcessFile`, `chunkFile`, `newRequest`, `doJSON`, the order of the form's parts | |
| `Outputs` | convert's RunE, `writeStatus`, `writeOutputs`, `writeContent`, `Err` | |
| `ClientConfig` | `New`, the `With…` options | |
| `Options` | from flags to requests and cache keys: `build`, `splitComma`, `parsePageRange`, the Parse functions, `encodeFormFields`, `omitempty`, `CacheKey` | |
| `Document` | the codec of `Document` and its accessors | |
| `Docli` | a run of `docli convert`, `chunk`, `health`, `ready` or `version`, from flags to exit status | extends `Options`, `Document` |
| `MC…` | symmetry sets, command lines and documents for TLC | |
| `Requests_proofs` | theorems about `Options` and `Document` | extends `Docli` |
| `…_proofs` | theorems about the module, checked by TLAPS | |

How state and actions correspond to the code:

- **FileCache.** A file is an inode. `entry[k]` is the file a final name leads to,
  `temps` the files with a temporary name, `data` their bytes (`blank`, `part`,
  `whole`, or `torn` by a power loss before), `call[c]` the caller's position.
  `CreateTemp` … `Rename` are the calls of `Put` with their error returns (cleanup
  included, except after a failed rename, where the code has none); `Open` and
  `Decode` are `Get`. `NewFileCache` is its `MkdirAll`: docli passes it neither an empty
  root, which is an error, nor an empty version, which becomes "unknown". `Crash` is a kill anywhere; `Prune…` is the `rm -rf` the
  README recommends, one unlink at a time. Partial writes matter only in that the
  stream is not complete, so there is one `part`.
- **ServerVersion.** `ask[r]` is a call: `read`, `fetch`, `stamp`, `truncate`,
  `write`. `os.WriteFile` is two steps, since another process can read or write in
  between; what is left of two writers may be unparseable. A build is a `/version`
  payload; `versionHash` is taken to be injective. `Lag` bounds the time between
  the answer to `/version` and the stamp, which the code does not bound: the
  freshness theorem has it as a parameter.
- **CachedConvert.** `run[r].pc` follows `runConvertCached` line by line. `Get` and
  `Put` are one step each, which `FileCacheIsAtomic` justifies. `Fingerprint` opens a
  local file and `Hash` is the `io.Copy` into its SHA-256: if the file changes in between
  (`source = "changed"`) the hash may be of any content. `CacheKey` is the record of what
  is hashed (SHA-256 is injective here), with the base name of a file for its path
  (`SourceOf`), and `EmptyKey` when the encoder fails. The server, too, is told no more
  than the base name. `Edit`, `Prune`, `Tick` and `Upgrade` are the world around.
- **Upload.** One action per blocking point of the caller and of the producer
  goroutine. A write into the pipe and a read from it are one rendezvous,
  `Transfer`. `wire` is what the server has: `got`, how the body ended, the answer.
  The pipe, `multipart.Writer`, the transport and the server are external:
  `mw.Close` writes the closing boundary unless the pipe fails, the transport ends
  the body cleanly on EOF only, and closes the read end in every case, maybe after
  `Do` has returned. `request.server` says how much a server reads before it accepts;
  it may refuse at any time. `request.deadline` says whether a time limit may end the
  call.
- **Outputs.** Documents of one base name, since others do not meet. A response is a
  status and the formats with a content that is not empty. `os.WriteFile` is
  `OpenFile` (which truncates) and `WriteFile`; two writers may leave a mixture.
- **Options.** A Go value is the sequence of its texts: `<< >>` is a nil pointer or an
  empty slice, `<<"false">>` a bool, so that `isEmptyValue` compares with the zero of
  its kind. The structs of options are sets of fields with their kinds. `splitComma`
  is modelled with the array it shares with its result, round by round (`Rounds`). A form
  is a set of fields, each the nth of its name: what order the fields of different names
  have is left to `Upload`. `Settings` is how docling-serve reads a JSON body or a form;
  the endpoint and the form's prefixes decide the group. `CacheKey` is the JSON that is
  hashed. `WellFormed` is what pflag leaves behind: one text for a flag that is not a list.
- **Document.** A document on the wire has a text per format; in memory it is a list.
  The texts of a format are nothing, `null` and one content, as it was sent (`Raw`) or
  compacted: `Compact` is what `json.Marshal` does to `json_content` (spaces go, `<`, `>` and `&`
  are escaped), which a cached response has been through.
- **Docli.** `pc` follows a run: `version`, `namespace`, `lookup`, `send`, `wait` (for
  the status), `body`, `decode`, `store`, `check`, `print`. A request is `Send` …
  `Decode` for every command (`newRequest`, `Do`, `doJSON`), and may fail in each;
  `CallFails` is what the caller makes of it. `Get` and `Put` are one step each
  (`FileCacheIsAtomic`), `Encoded` is the entry `Put` makes of a response, and each part
  of the cache may fail. `received`, `resp.of` and `resp.sent` are history. `Torn` is a
  write to stdout that has failed.
- **ClientConfig.** An `http.Client` of `New`'s own has the name of its `Client`.
  Each option is a step, so that two `New`s interleave.

Definitions that begin with a comment "Variant:" are not part of a model: each is a
plausible mistake in the definition that follows it, and the property it must break
is listed under "mutants" in `PROJECT.json`.

## Runs

| Run | Shows | Bounds |
|---|---|---|
| `FileCache_calls` | `NoPartialEntry`, `WritersAreAlone`, `NoLeakedTemp`, `EntriesAreImmutable`, `ImplementsAtomicCache`, `CallsReturn` | 2 callers, 1 key, 2 responses, 2 files |
| `CachedConvert_safety` | `CacheIsOptional`, `KeyedByContentUnlessEdited`, `HitMatchesRequest` | 2 runs, 1 file with 2 contents, 2 options |
| `CachedConvert_builds` | `VersionsAreFresh`, `MisfiledOnlyWithinTTL` | 2 runs, 2 builds, TTL 0, Lag 0, clock to 1 |
| `Upload_calls` | `CleanEndIsWhole`, `OkIsWhole`, `CallReturns`, `ProducerEnds` | up to 2 files of 2 pieces, every kind of server, with and without a time limit |
| `Outputs_shared` | `OkIsDelivered`, `FailureLeavesNothing`, `StatusIsReported` | 2 runs, 2 formats, `--to` of up to 2 |
| `ClientConfig_built` | `BuiltAsAsked` | 2 Clients, 1 shared `http.Client` or nil, 2 options each, 2 roots with and without a slash |
| `Docli_runs` | `SentIsWhatWasSet`, `AnswersThisLine`, `PrintsTheDocument`, `ZeroMeansDone`, `QuietAfterInterrupt`, `InterruptedEnds`, `RunEnds` | 2 runs, the second with one of 5 command lines, the first with one of about 150, 2 documents, up to 2 chunks |

Each but `CachedConvert_builds`, whose module is that of `CachedConvert_safety`, also
checks the type invariant of its module.

Why the bounds are enough: the hazards are about two actors (two writers, a writer
and a reader, a run and an edit) and one key or one file, so two of each show them.
Two files let two `Put`s race, or a `Put` replace the entry a `Get` has open; more
keys and files are the theorems' business. `VersionsAreFresh` is checked where two
whole runs of convert share the version file, and proved for any number of processes,
any `TTL` and `Lag`: a `TTL` of 0 ticks is a clock that may pass it. The command lines
of `Docli_runs` set each flag by itself, to every kind of value it tells apart (unset,
an explicit false or 0, invalid), since `build` and the encoders treat each field
alone, and a few in pairs; two runs are enough for one to fill the cache the other
reads. They come one after the other, what they do to each other at the same time is
in `CachedConvert`. Two files of two pieces have an error in the
first and the last piece of the first and the last file. Files of one name in several
directories are the theorems' business, which take any `Base`: with two of them, two
contents and two options there are too many states.
Symmetry is used for sets
of model values that nothing distinguishes, and in no run with a liveness property.

`CHECK_DEADLOCK FALSE` is set where the modelled call or process just ends
(`Upload`, `Outputs`, `ClientConfig`, `Docli`).

### Disagreements between the code and what is said of it

Each of these runs ends in a counterexample; `PROJECT.json` quotes the text.

| Run | Property | What happens |
|---|---|---|
| `ServerVersion_two_servers` | `VersionIsTheServers` | the version file does not say whose version it is; with two servers and one cache directory a run uses the other one's namespace |
| `CachedConvert_nan` | `HitMatchesRequest` | with `--images-scale NaN` all files share one key; this needs a server that accepts the value |
| `Upload_leak` | `EveryProducerEnds` | if `newRequest` fails the goroutine is blocked for ever |
| `Outputs_empty` | `NothingWrittenIfOneIsEmpty` | earlier formats are written before an empty one is noticed |
| `Docli_untouched` | `UntouchedIsNotSent` | a run that does not touch `--ocr` sends `do_ocr=true` all the same |

Some properties hold only with the condition they are stated with, because the code
does not do more:

- `KeyedByContentUnlessEdited`: the file is opened (cache.go:46) and hashed, and opened
  again for the upload (main.go:385); an edit in between fills the key of one content with
  a conversion of another. `HitMatchesRequest` excepts the same edits for the bytes, not
  for the name and the options.
- `HitMatchesRequest` speaks of the base name: two files of one name and one content
  in two directories share an entry, which is what SourceForFile makes of them.
- `MisfiledOnlyWithinTTL`: after an upgrade of the server, results go to the old
  build's namespace until the cached version expires, although README.md:288-289
  has an upgrade "naturally" fall into a fresh one.
- `OkIsWhole`: after a read error `mw.Close` still writes the closing boundary, so a
  server that answers at the boundary may accept a truncated file, if its answer
  arrives before the transport reads the pipe's error. Only a server that reads to
  the end of the body can tell.
- `BuiltAsAsked` speaks of the time limit of a Client's own `http.Client`. `WithTimeout`
  after `WithHTTPClient` changes the caller's (client.go:57), as client_test.go:54-59
  expects, although client.go:52-53 says that it "has no effect" on one.
- `OkIsDelivered`: two runs with documents of one base name overwrite each other, and it
  excepts the files another run has written. What such files hold is specified nowhere,
  so no property speaks of it.
- `SentIsWhatWasSet` has `do_ocr` sent when nobody asked for it (`Unasked`), see
  `Docli_untouched`; the `md` of `convert --to` counts as given. An explicit false or 0
  of a pointer field is sent; of `--force-ocr` and `--abort-on-error`, plain bools that are
  off by default, `false` is not. It speaks of
  `--pages` when that is a page or a range; `parsePageRange` also takes a reversed range,
  negative numbers and text after the last number.
- `AnswersThisLine` excepts options JSON has no value for, see `CachedConvert_nan`.
- `PrintsTheDocument`: JSON from the cache is compacted and escaped, JSON from the server
  is as the server laid it out, so the bytes of two runs differ.
- `ZeroMeansDone` excepts `health` and `ready`, which ignore a stdout that fails
  (main.go:300). An answer of `{}` or `null` is taken for a response: `chunk` prints
  nothing and exits with 0, `convert` stores it and fails for want of a content, from
  the cache too.
- `InterruptedEnds` holds under fairness of stdout: while a write to it blocks, or a
  file is hashed, the signal has no effect.
- `HitMatchesRequest` says nothing of the response's status: a failure is stored
  (main.go:389) and repeated from the cache like a success.

### Fairness

`FileCache`: weak fairness of each live caller's steps; each of them is always
enabled (an I/O error is an outcome), which is to say that the operating system
runs the process and its calls return. `Upload`: weak fairness of the
caller and the producer (Go schedules goroutines), of the transport (it reads a body
it has begun to send, and closes it after `Do` has returned, as `http.RoundTripper`
requires), and of the server's answer to a body that has ended. No connection need
be lost and no file operation need fail. Without `request.deadline` no timeout helps
the caller. `Docli`: weak fairness of docli's own steps, which is to say that its
process runs and that whoever reads stdout goes on reading. The server need never
answer, the network never deliver. The five minutes of the `http.Client` are
a condition of `RunEnds` alone (`WF_vars(TimeOut) => …`): an interrupt must end the run
without them. The other modules have safety properties only.

## Proofs

All for any number of clients, keys, processes, builds, files and so on.

- **FileCache_proofs**: `TypeCorrect`, `NeverPartial`, `WritersStayAlone`,
  `NeverLeaks`, `VisibleEntriesStay`, `FileCacheIsAtomic`. The inductive invariant `IInv`
  adds to the properties the shape of a call's record (`CallShape`) and that a file holds
  its whole response once the encoder is closed (`WholeBeforeRename`): without it
  `Rename` could make a partial file an entry, and without `WritersAreAlone` another
  writer could spoil it afterwards. For the refinement, a `Put` takes effect at its
  rename, and a `Get` when it opens the file: `callBar` gives it its result
  there, before it is decoded, which is sound because the bytes of an open file do
  not change (`WritersAreAlone`).
- **ServerVersion_proofs**: `VersionTypeCorrect`, `VersionsStayFresh`. The invariant
  follows a version from the server's answer through the stamp (at most `Lag` late)
  to the file and to the next reader; an upgrade only moves the time a build was
  given up forward (`LiveWithinKept`).
- **Upload_proofs**: `TypeCorrect`, `CleanEndsAreWhole`, `OkUploadsAreWhole`. The invariant
  ties what the server has to the producer's position (`Written`), says that a producer
  without an error closes only what is whole (`ClosesWhole`), and that a clean end and a
  success from a server that reads to the end come from a producer that has finished
  (`EndIsFinished`).
- **CachedConvert_proofs**: `ImplementsServerVersion`, `NamespacesAreFresh`, `TypeCorrect`,
  `CacheStaysOptional`, `EncodableHitsMatch`, `HitsMatchRequests`, `EntriesMatchTheirKeys`,
  `KeyedByContent`, `MisfiledOnlyForADay`. Every step of a conversion is a step of
  `ServerVersion` or leaves its state alone (`StepOfVersion`), so that its theorems hold
  here and its invariant is a part of this one. The other parts follow one conversion
  (`RunOK`) and the cache (`StoreOK`). `Shape` has what a process holds at each `pc`: a
  hit needs a key, a failure a failed request or an unreadable file. `Matches` ties the
  key and the response it holds to what it was asked for, up to the store, and has it that
  a file that changed under the hash has been edited. `Fresh` dates its version from the start of the run, since what is known when the version is
  read must still be known when the result is stored. `EntryOK` is what `Store` leaves
  behind and `Lookup` relies on. An entry under the digest of nothing (`EmptyKey`) can
  be of anything. So the properties without a condition on options are proved under
  `Unencodable = {}`, which says that every value of the options has a JSON text and
  which `CachedConvert_nan` shows to be needed. `EncodableHitsMatch` and
  `EntriesMatchTheirKeys` have no such hypothesis: a run whose own options can be
  encoded is safe from those that cannot.
- **Outputs_proofs**: `TypeCorrect`, `OkDelivers`, `FailuresLeaveNothing`,
  `StatusesAreReported`. `RunOK` has what a run has done at each `pc`. `Delivered` is
  `OkIsDelivered` for a loop that is half done: each file the run is through with
  is its own or has been written by another run. One case is easily
  overlooked: with `--to md,md` a run truncates a file that it was through with, so
  that the file it has open is excepted until it is written again.
- **ClientConfig_proofs**: `TypeCorrect`, `ClientsAreBuiltAsAsked`. The invariant
  `AsAsked` is the property for the options applied so far: the last of the first `n`
  options of each kind is in effect (`Last`). The time limit of a Client's own
  `http.Client` is as asked only while it is in use: `WithHTTPClient` puts another in its
  place, and what `WithTimeout` does then is done to that one.
- **Requests_proofs**: what `Options` and `Document` compute, whatever the flags and the
  documents. It has no state, `Docli_proofs` builds on it.
  - `AskedIsMeant`: a command line of convert or chunk that is not rejected is turned into
    a request for what its flags mean and for nothing else. Each field of a struct is
    paired with the flag it comes from (`TextAgrees`, `ToggleAgrees`, `PlainAgrees`,
    `OcrAgrees`, `LangAgrees`, `PagesAgree`, `ToAgrees`, gathered in `ConvertAgrees` and
    `ChunkerAgrees`): its value is zero just where the flag means nothing, and else what
    the flag means. `Taken` is what `build` takes for a flag, which differs from what was
    given for `--ocr` alone, so that what is sent is what was asked for and `do_ocr`
    (`ConvertIsSent`, `ChunkerIsSent`). `ConvertAsks` and `ChunkAsks` say that a form, read back by the
    server, asks for what JSON would (`FormIsJSON`). The page range is excepted where it is
    neither nothing nor a page nor two (`Loose`), since `parsePageRange` takes more.
  - `SplitCommaIs`: `splitComma` returns the texts that are not empty, trimmed and in
    order, although it writes to the array it reads from. The invariant of its loop is that
    it has never written more than it has read, so that what is to be read is as it was
    (`KeepCompacts`).
  - `DocumentsAreKept`: a document that goes through `UnmarshalJSON`, `MarshalJSON` and
    `UnmarshalJSON` again has in each format what the server sent, with JSON compacted.
    `Read` says that a list has the contents of some fields and no others; `ReadOn`
    joins two such lists, as the code appends one field after the other.
  - `KeyTellsApart`: equal keys mean equal requests. The JSON of options leaves out what
    is zero, and tells all else apart (`EncodingTellsApart`), for every field that `build`
    sets (`OptionsAre`).

  The induction over the lengths of these sequences is by the least number for which a
  claim fails (`LeastIs`, from the well-foundedness of <, and `UpTo`), as the library's
  theorems that take the claim as a parameter cannot be used.
- **Docli_proofs**: `TypesAreOK`, `SendsWhatIsMeant`, `PrintsWhatWasSent`,
  `HitsAnswerThisLine`, `ZeroIsDone`, `InterruptQuiets`. The invariant has two layers.
  `IInv` says of the run where it is and what it asks for
  (`LineOK`, `RequestOK`), that its response was made for its command line or for one with
  the same key (`RespOK`), that an entry is of a conversion with its key
  (`StoreOK`), and that stdout has the first items of what is to be printed (`OutOK`),
  all of them when the run exits with 0. `DInv`, inductive relative to it, says that a
  response has the contents of what the server sent, through the cache or not
  (`DocumentsOK`), as does what is stored (`EntriesOK`), that a request for the version is
  the first and one for a document the last (`CountOK`), so that a run sends no more than
  two, that a run that looks for a version has no answer about a document (`AnswerOK`),
  and why a conversion failed that printed nothing (`PrintOK`). `PrintsWhatWasSent` needs
  all of it: that an entry is what `Marshal` made of a document, that a hit unmarshals it
  again, that no answer can be mistaken for the one of a hit, and `DocumentsAreKept`.

The theorems' assumptions are the `ASSUME`s of the modules, which TLC evaluates in the
runs: names that stand for nothing (`None`, `Absent`, `Torn`, `Empty`, `Missing`, `NoKey`)
are no inputs, files or responses; `TTL`, `Lag`, `MaxClock`, `MaxFiles`, `Pieces`,
`MaxFormats`, `MaxOptions`, `MaxRuns`, `MaxChunks` are natural numbers; paths are no URLs and
custom `http.Client`s no `Client`s and nil neither; every file has a name; the commands are those of docli, their flags
well-formed, and chunk, which has no flag `--to`, is not given one. The one
hypothesis beyond them is `Unencodable = {}`, as said.

Every invariant and every action property that a run checks is proved, and so is the
refinement. Only model-checked are the liveness properties, `CallsReturn`, `CallReturns`,
`ProducerEnds`, `InterruptedEnds` and `RunEnds`: fairness and ENABLED are out of the
prover's reach.

## Not modelled

- SHA-256 collisions, the JSON and zstd formats, the wording of messages.
- `WriteVersionInfo`: nothing reads `server_info.json`.
- A clock that is set back (a version stamped in the future does not expire).
- HTTP redirects and connection reuse inside `net/http`.
- Sources and targets (types.go) other than the `HTTPSource` of docli, and `EncodeFile`:
  each is one struct that is marshalled with its kind, for callers of the library, and
  decides nothing. `doJSON` could not decode the answer to a zip target.
- Maps and nested structs in a form (formenc.go:76-81): no struct of options has one.
- cobra's parsing of the command line: `Docli` begins with the flags it has set.
- docli's `--server`, `--api-key` and `--tenant`, which go to `New` as they are.

## Plan

1. Done: `AtomicCache`, `FileCache` and its proofs; `ServerVersion` and its proof;
   `CachedConvert`; `Upload` and its proof; `Outputs`; `ClientConfig`; `Options`,
   `Document` and `Docli`.
2. Done: proofs for `CachedConvert`, on top of `ServerVersion_proofs`, for `Outputs`,
   `ClientConfig` and `Docli`, with what `Options` and `Document` compute.
3. Not done: `CachedConvert` over `AtomicCache` in place of its one-step `Lookup` and
   `Store`.
