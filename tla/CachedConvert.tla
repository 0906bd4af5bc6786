--------------------------- MODULE CachedConvert ---------------------------
(***************************************************************************)
(* docli convert with its on-disk cache: runConvertCached (main.go), for   *)
(* several docli processes that share one cache directory while servers    *)
(* are upgraded, local files are edited, namespaces are pruned, and any    *)
(* request or file operation may fail.                                     *)
(*                                                                         *)
(* The version that names a run's namespace comes from ServerVersion.tla,  *)
(* step by step.  FileCache.Get and FileCache.Put are one step each here:  *)
(* FileCache.tla shows that they are atomic.                               *)
(***************************************************************************)
EXTENDS ServerVersion

CONSTANTS
  Paths,      \* local files
  Names,      \* the names files have in their directories
  Base,       \* Base[p]: the name of file p, filepath.Base
  URLs,       \* remote documents
  Bodies,     \* contents of a local file
  Options,    \* values of ConvertOptions
  Unencodable,\* those with a number JSON does not have, such as --images-scale NaN
  Statuses,   \* conversion statuses servers report
  Missing     \* no file

ASSUME InputsAssumption ==
  /\ Missing \notin Bodies /\ None \notin Bodies \cup Paths \cup Names \cup URLs
  /\ Paths \cap URLs = {} /\ Base \in [Paths -> Names]
  /\ Unencodable \subseteq Options

VARIABLES
  file,       \* file[p]: the content of a local file
  edited,     \* history: a file changed after a run opened it for its fingerprint
              \* and before the run uploaded it
  store,      \* store[v][k]: the entry under key k in the namespace of v
  run         \* run[r]: how far process r is in runConvertCached

vars == <<versionVars, file, edited, store, run>>

----------------------------------------------------------------------------
(* Data *)

Inputs == Paths \cup URLs

\* The digest of nothing.
EmptyKey == [input |-> None, body |-> None, opts |-> None]

\* What names an input in a key and to the server: of a file, its base name only.
Sources == Names \cup URLs

SourceOf(i) == IF i \in Paths THEN Base[i] ELSE i

\* CacheKey: the input (for a local file its base name and its SHA-256) and
\* every option, or nothing.
Keys == [input: Names, body: Bodies, opts: Options]
          \cup [input: URLs, body: {None}, opts: Options]
          \cup IF Unencodable = {} THEN {} ELSE {EmptyKey}

\* A ConvertResponse, with what it is a conversion of, the build that made it
\* and, as history, when the run that asked for it started.
Responses == [input: Sources, body: Bodies \cup {None}, opts: Options,
              build: Builds, status: Statuses, since: 0 .. MaxClock]

ASSUME EntriesAssumption == Absent \notin Responses /\ Torn \notin Responses

Entries == Responses \cup {Absent, Torn}

Steps == {"idle", "version", "namespace", "fingerprint", "hashing", "lookup", "live",
          "store", "done"}

\* ver is the namespace in use, None while or when there is no cache; since is
\* when the run started; live and source record how the conversion request and
\* the fingerprint went ("changed": the file did while it was being read).
Processes ==
  [pc: Steps, server: Servers \cup {None}, input: Inputs \cup {None},
   opts: Options \cup {None}, since: 0 .. MaxClock, ver: Builds \cup {None},
   key: Keys \cup {None}, resp: Responses \cup {None},
   live: {"none", "ok", "failed"}, source: {"unread", "open", "changed", "read", "unreadable"},
   res: {"none", "hit", "live", "failed"}]

NewRun(s, i, o, t, step) ==
  [pc |-> step, server |-> s, input |-> i, opts |-> o, since |-> t, ver |-> None,
   key |-> None, resp |-> None, live |-> "none", source |-> "unread", res |-> "none"]

IdleRun == NewRun(None, None, None, 0, "idle")

\* What is at an input now; a URL's document is the server's business.
BodyOf(i) == IF i \in Paths THEN file[i] ELSE None

Readable(i) == i \in Paths => file[i] # Missing

\* Variant: the key leaves the options out.
CacheKeyOfInput(i, b, o) ==
  [input |-> SourceOf(i), body |-> b, opts |-> CHOOSE p \in Options : TRUE]

\* sourceForKey and CacheKey, which drops the error of its encoder: that has then
\* written nothing to the hash.  b is what was hashed.
CacheKey(i, b, o) ==
  IF o \in Unencodable THEN EmptyKey ELSE [input |-> SourceOf(i), body |-> b, opts |-> o]

----------------------------------------------------------------------------

Init ==
  /\ VersionInit
  /\ file \in [Paths -> Bodies]
  /\ edited = FALSE
  /\ store \in [Builds -> [Keys -> {Absent, Torn}]]
  /\ run = [r \in Runs |-> IdleRun]

----------------------------------------------------------------------------
(* runConvertCached *)

\* With --no-cache, or without a cache directory, the run is a live conversion.
Start(r) ==
  /\ run[r].pc = "idle"
  /\ \E s \in Servers, i \in Inputs, o \in Options :
       \/ /\ run' = [run EXCEPT ![r] = NewRun(s, i, o, clock, "live")]
          /\ UNCHANGED versionVars
       \/ /\ run' = [run EXCEPT ![r] = NewRun(s, i, o, clock, "version")]
          /\ Ask(r, s)
  /\ UNCHANGED <<file, edited, store>>

\* The steps of ServerVersion.
InVersion(r) ==
  /\ VersionStep(r)
  /\ UNCHANGED <<file, edited, store, run>>

\* Without a version the cache is disabled.
HaveVersion(r) ==
  /\ \/ /\ ask[r].pc = "answered"
        /\ run' = [run EXCEPT ![r].pc = "namespace", ![r].ver = ask[r].ver]
     \/ /\ ask[r].pc = "failed"
        /\ run' = [run EXCEPT ![r].pc = "live"]
  /\ Leave(r)
  /\ UNCHANGED <<file, edited, store>>

\* NewFileCache (and WriteVersionInfo, whose file nothing reads).
OpenNamespace(r) ==
  /\ run[r].pc = "namespace"
  /\ \/ run' = [run EXCEPT ![r].pc = "fingerprint"]
     \/ run' = [run EXCEPT ![r].pc = "live", ![r].ver = None]
  /\ UNCHANGED <<versionVars, file, edited, store>>

\* sourceForKey: a URL is its own source; a local file is opened, or ends the run.
Fingerprint(r) ==
  /\ run[r].pc = "fingerprint"
  /\ \/ /\ run[r].input \in URLs
        /\ run' = [run EXCEPT ![r].pc = "lookup", ![r].source = "read",
                              ![r].key = CacheKey(run[r].input, None, run[r].opts)]
     \/ /\ run[r].input \in Paths /\ Readable(run[r].input)
        /\ run' = [run EXCEPT ![r].pc = "hashing", ![r].source = "open"]
     \/ /\ run[r].input \in Paths
        /\ run' = [run EXCEPT ![r].pc = "done", ![r].source = "unreadable",
                              ![r].res = "failed"]
  /\ UNCHANGED <<versionVars, file, edited, store>>

\* io.Copy into the hash: of a file that changed since it was opened it may read the
\* old content, a new one or parts of several.  If it fails the run ends.
Hash(r) ==
  /\ run[r].pc = "hashing"
  /\ \/ \E b \in Bodies :
          /\ run[r].source = "open" => b = file[run[r].input]
          /\ run' = [run EXCEPT ![r].pc = "lookup", ![r].source = "read",
                                ![r].key = CacheKey(run[r].input, b, run[r].opts)]
     \/ run' = [run EXCEPT ![r].pc = "done", ![r].source = "unreadable",
                           ![r].res = "failed"]
  /\ UNCHANGED <<versionVars, file, edited, store>>

\* Variant: an entry that does not decode fails the run.
LookupStrict(r) ==
  /\ run[r].pc = "lookup"
  /\ LET entry == store[run[r].ver][run[r].key] IN
       \/ /\ entry \in Responses
          /\ run' = [run EXCEPT ![r].pc = "done", ![r].res = "hit", ![r].resp = entry]
       \/ /\ entry = Torn
          /\ run' = [run EXCEPT ![r].pc = "done", ![r].res = "failed"]
       \/ /\ entry = Absent
          /\ run' = [run EXCEPT ![r].pc = "live"]
  /\ UNCHANGED <<versionVars, file, edited, store>>

\* Get: a hit ends the run; a miss, an entry that does not decode and any other
\* read error lead to a live conversion.
Lookup(r) ==
  /\ run[r].pc = "lookup"
  /\ LET entry == store[run[r].ver][run[r].key] IN
       \/ /\ entry \in Responses
          /\ run' = [run EXCEPT ![r].pc = "done", ![r].res = "hit", ![r].resp = entry]
       \/ run' = [run EXCEPT ![r].pc = "live"]
  /\ UNCHANGED <<versionVars, file, edited, store>>

\* The conversion of what is at the input now by what the server runs now.
Conversion(r, status) ==
  [input |-> SourceOf(run[r].input), body |-> BodyOf(run[r].input), opts |-> run[r].opts,
   build |-> build[run[r].server], status |-> status, since |-> run[r].since]

\* runConvert: ConvertURL or ConvertPath, which opens the file again.  A response
\* is kept whatever its status; it is stored when there is a namespace.  postJSON
\* does not encode what CacheKey does not; a form field does.
Convert(r) ==
  /\ run[r].pc = "live"
  /\ \/ /\ Readable(run[r].input)
        /\ run[r].input \in URLs => run[r].opts \notin Unencodable
        /\ \E status \in Statuses :
             run' = [run EXCEPT ![r].live = "ok",
                       ![r].resp = Conversion(r, status),
                       ![r].pc  = IF run[r].ver = None THEN "done" ELSE "store",
                       ![r].res = IF run[r].ver = None THEN "live" ELSE "none"]
     \/ run' = [run EXCEPT ![r].live = "failed", ![r].pc = "done",
                           ![r].res = "failed"]
  /\ UNCHANGED <<versionVars, file, edited, store>>

\* Variant: the key is made again when the response is stored.
StoreRekeyed(r) ==
  /\ run[r].pc = "store"
  /\ \/ /\ Readable(run[r].input)
        /\ store' = [store EXCEPT
             ![run[r].ver][CacheKey(run[r].input, BodyOf(run[r].input), run[r].opts)] =
               run[r].resp]
     \/ UNCHANGED store
  /\ run' = [run EXCEPT ![r].pc = "done", ![r].res = "live"]
  /\ UNCHANGED <<versionVars, file, edited>>

\* Put: its failure is reported on stderr and ignored.
Store(r) ==
  /\ run[r].pc = "store"
  /\ \/ store' = [store EXCEPT ![run[r].ver][run[r].key] = run[r].resp]
     \/ UNCHANGED store
  /\ run' = [run EXCEPT ![r].pc = "done", ![r].res = "live"]
  /\ UNCHANGED <<versionVars, file, edited>>

\* The process ends, of itself or killed: then its files stay as they are.
Exit(r) ==
  /\ run[r].pc # "idle"
  /\ run' = [run EXCEPT ![r] = IdleRun]
  /\ IF ask[r].pc = "idle" THEN UNCHANGED versionVars ELSE Leave(r)
  /\ UNCHANGED <<file, edited, store>>

----------------------------------------------------------------------------
(* The world around *)

\* Time passes, or a server is upgraded.
Elsewhere ==
  /\ Tick \/ \E s \in Servers : Upgrade(s)
  /\ UNCHANGED <<file, edited, store, run>>

\* A run is hashing p.
Hashing(r, p) == run[r].input = p /\ run[r].pc = "hashing"

\* A run has opened p for its fingerprint and may still upload it.
Between(r, p) ==
  \/ Hashing(r, p)
  \/ run[r].input = p /\ run[r].source = "read" /\ run[r].pc \in {"lookup", "live"}

\* Somebody writes, replaces or removes a file, under the eyes of the runs that read it.
Edit(p) ==
  /\ \E b \in (Bodies \cup {Missing}) \ {file[p]} : file' = [file EXCEPT ![p] = b]
  /\ edited' = (edited \/ \E r \in Runs : Between(r, p))
  /\ run' = [r \in Runs |-> IF Hashing(r, p) THEN [run[r] EXCEPT !.source = "changed"]
                                              ELSE run[r]]
  /\ UNCHANGED <<versionVars, store>>

Prune(v, k) ==
  /\ store[v][k] # Absent
  /\ store' = [store EXCEPT ![v][k] = Absent]
  /\ UNCHANGED <<versionVars, file, edited, run>>

----------------------------------------------------------------------------

\* The steps a process takes once it has started.
Step(r) ==
  \/ InVersion(r) \/ HaveVersion(r) \/ OpenNamespace(r) \/ Fingerprint(r)
  \/ Hash(r) \/ Lookup(r) \/ Convert(r) \/ Store(r)

Next ==
  \/ \E r \in Runs : Start(r) \/ Step(r) \/ Exit(r)
  \/ Elsewhere
  \/ \E p \in Paths : Edit(p)
  \/ \E v \in Builds, k \in Keys : Prune(v, k)

Spec == Init /\ [][Next]_vars

----------------------------------------------------------------------------
(* Properties *)

TypeOK ==
  /\ VersionTypeOK
  /\ file \in [Paths -> Bodies \cup {Missing}]
  /\ edited \in BOOLEAN
  /\ store \in [Builds -> [Keys -> Entries]]
  /\ run \in [Runs -> Processes]

\* Whatever goes wrong with the cache, runConvertCached returns an error only if
\* the live conversion failed or the local file could not be read; a conversion
\* that succeeded is delivered, and a hit makes no conversion (main.go:339-341).
CacheIsOptional ==
  \A r \in Runs :
    /\ run[r].res = "failed" => run[r].live = "failed" \/ run[r].source = "unreadable"
    /\ run[r].live = "ok" /\ run[r].pc = "done" => run[r].res = "live"
    /\ run[r].res = "hit" => run[r].live = "none"

\* Whoever filled the cache, a hit is a conversion of a document of the name this run
\* was given, with the options it was given, and unless a file changed between a run's
\* open for its hash and its upload, of the bytes this run hashed (CacheKey,
\* cache.go:28-41): files of one name in two directories share an entry only while they
\* hold the same.  It needs CacheKey to encode the options: if not, the key of every
\* request is the same.
HitMatchesRequest ==
  \A r \in Runs : run[r].res = "hit" =>
    /\ run[r].resp.input = SourceOf(run[r].input) /\ run[r].resp.opts = run[r].opts
    /\ edited \/ run[r].resp.body = run[r].key.body

IsConversion(v, k) == store[v][k] \in Responses

\* Every entry under a file's key is a conversion of the bytes in that key, as
\* long as no file changes from a run's open for its hash (HashFile, cache.go:46) to its
\* upload of it (SourceForFile at main.go:373 against ConvertPath at 385).
KeyedByContentUnlessEdited ==
  ~edited => \A v \in Builds, k \in Keys :
    IsConversion(v, k) => store[v][k].body = k.body

\* A result lands in the namespace of another build only if the run that stored
\* it started at most TTL + Lag after the last server gave that build up
\* (versionTTL, cache.go:175-178: a new release is picked up within a day).
MisfiledOnlyWithinTTL ==
  \A v \in Builds, k \in Keys : IsConversion(v, k) =>
    store[v][k].build = v \/ LiveWithin(v, store[v][k].since, TTL + Lag)
=============================================================================
