------------------------ MODULE CachedConvert_proofs ------------------------
(***************************************************************************)
(* Proofs about docli convert with its cache, for any number of processes, *)
(* servers, builds, files, options and ticks: what a hit is a conversion   *)
(* of, what an entry holds and whose namespace it is in.                   *)
(*                                                                         *)
(* A step of CachedConvert is a step of ServerVersion or leaves it alone,  *)
(* so that what is proved of versions there holds here.                    *)
(***************************************************************************)
EXTENDS CachedConvert, ServerVersion_proofs

----------------------------------------------------------------------------
(* The inductive invariant *)

\* Where a process is, and what it has when it is there.
Shape(p, a) ==
  /\ p.pc # "idle" => p.server \in Servers /\ p.input \in Inputs /\ p.opts \in Options
  /\ a.pc # "idle" => p.pc = "version"
  /\ p.pc = "version" => p.ver = None
  /\ p.pc \in {"namespace", "fingerprint", "hashing", "lookup", "store"} =>
       p.ver \in Builds
  /\ p.pc = "hashing" => p.input \in Paths /\ p.source # "read"
  /\ p.pc \in {"lookup", "store"} \/ (p.pc = "live" /\ p.ver # None) => p.source = "read"
  /\ p.source = "read" => p.key \in Keys /\ p.pc \in {"lookup", "live", "store", "done"}
  /\ p.pc = "store" => p.resp \in Responses
  /\ p.pc \notin {"store", "done"} => p.live = "none" /\ p.res = "none"
  /\ p.res = "failed" => p.live = "failed" \/ p.source = "unreadable"
  /\ p.live = "ok" /\ p.pc = "done" => p.res = "live"
  /\ p.res = "hit" => p.live = "none"

\* The process has a key of its own, one that is not the digest of nothing.
Keyed(p) == p.source = "read" /\ p.opts \notin Unencodable

\* What a process has is about what it was asked for.
Matches(p) ==
  /\ p.source = "read" /\ p.opts \in Unencodable => p.key = EmptyKey
  /\ Keyed(p) => p.key.input = SourceOf(p.input) /\ p.key.opts = p.opts
  /\ p.pc = "hashing" => p.source = "open" \/ edited
  /\ Keyed(p) /\ p.pc \in {"lookup", "live"} /\ ~edited => p.key.body = BodyOf(p.input)
  /\ p.pc = "store" => /\ p.resp.input = SourceOf(p.input) /\ p.resp.opts = p.opts
                       /\ p.resp.since = p.since
  /\ p.pc = "store" /\ Keyed(p) /\ ~edited => p.resp.body = p.key.body
  /\ p.res = "hit" => Keyed(p) \/ p.opts \in Unencodable
  /\ p.res = "hit" /\ Keyed(p) => /\ p.resp.input = SourceOf(p.input)
                                  /\ p.resp.opts = p.opts
                                  /\ edited \/ p.resp.body = p.key.body

\* A version, taken up or about to be, is not too old for when the process started.
Fresh(p, a) ==
  /\ p.since <= clock
  /\ a.pc = "idle" => a.ver = None
  /\ p.ver # None => LiveWithin(p.ver, p.since, TTL + Lag)
  /\ a.ver # None => LiveWithin(a.ver, p.since, TTL + Lag)

RunOK(p, a) == Shape(p, a) /\ Matches(p) /\ Fresh(p, a)

RunsOK == \A r \in Runs : RunOK(run[r], ask[r])

\* An entry is a conversion of what is in its key, and was stored by a run that
\* started while its namespace was not too old.
EntryOK(v, k, e) ==
  /\ k # EmptyKey => /\ e.input = k.input /\ e.opts = k.opts
                     /\ edited \/ e.body = k.body
  /\ e.since <= clock /\ LiveWithin(v, e.since, TTL + Lag)

StoreOK == \A v \in Builds, k \in Keys : IsConversion(v, k) => EntryOK(v, k, store[v][k])

IInv == VersionInv /\ TypeOK /\ RunsOK /\ StoreOK

----------------------------------------------------------------------------
(* The versions *)

\* Whatever a process does, what it does to the version is a step of ServerVersion.
LEMMA StepOfVersion == [Next]_vars => [VersionNext]_versionVars
<1> SUFFICES ASSUME [Next]_vars PROVE [VersionNext]_versionVars
  OBVIOUS
<1>1. CASE UNCHANGED vars
  BY <1>1 DEF vars
<1>2. ASSUME NEW r \in Runs, Start(r) \/ Exit(r) PROVE [VersionNext]_versionVars
  <2>1. CASE Start(r)
    BY <2>1 DEF Start, VersionNext
  <2>2. CASE Exit(r)
    BY <2>2 DEF Exit, VersionNext
  <2> QED
    BY <1>2, <2>1, <2>2
<1>3. ASSUME NEW r \in Runs, Step(r) PROVE [VersionNext]_versionVars
  <2>1. CASE InVersion(r)
    <3>1. VersionStep(r)
      BY <2>1 DEF InVersion
    <3> QED
      BY <3>1, Zenon DEF VersionNext
  <2>2. CASE HaveVersion(r)
    <3>1. Leave(r)
      BY <2>2, ZenonT(30) DEF HaveVersion
    <3> QED
      BY <3>1, Zenon DEF VersionNext
  <2>3. CASE \/ OpenNamespace(r) \/ Fingerprint(r) \/ Hash(r)
            \/ Lookup(r) \/ Convert(r) \/ Store(r)
    BY <2>3 DEF OpenNamespace, Fingerprint, Hash, Lookup, Convert, Store
  <2> QED
    BY <1>3, <2>1, <2>2, <2>3 DEF Step
<1>4. CASE Elsewhere
  BY <1>4 DEF Elsewhere, VersionNext
<1>5. ASSUME NEW q \in Paths, Edit(q) PROVE [VersionNext]_versionVars
  BY <1>5 DEF Edit
<1>6. ASSUME NEW v \in Builds, NEW k \in Keys, Prune(v, k) PROVE [VersionNext]_versionVars
  BY <1>6 DEF Prune
<1> QED
  BY <1>1, <1>2, <1>3, <1>4, <1>5, <1>6 DEF Next

----------------------------------------------------------------------------
(* A step of one process, which leaves the rest alone *)

LEMMA RunStep ==
  ASSUME IInv, VersionInv', UNCHANGED <<world, file, edited, store>>,
         NEW r \in Runs, NEW p \in Processes, run' = [run EXCEPT ![r] = p],
         \A q \in Runs \ {r} : ask'[q] = ask[q], RunOK(p, ask'[r])
  PROVE  IInv'
<1> USE DEF IInv
<1>1. \A v, t, d : LiveWithin(v, t, d)' <=> LiveWithin(v, t, d)
  BY DEF LiveWithin, world
<1>2. \A q \in Runs : RunOK(run'[q], ask'[q])
  BY DEF TypeOK, RunsOK
<1>3. ASSUME NEW q \in Runs PROVE RunOK(run[q], ask[q])'
  <2>1. Shape(run'[q], ask'[q]) /\ Matches(run'[q]) /\ Fresh(run'[q], ask'[q])
    BY <1>2 DEF RunOK
  <2>2. Shape(run[q], ask[q])'
    BY <2>1 DEF Shape
  <2>3. Matches(run[q])'
    BY <2>1 DEF Matches, Keyed, BodyOf
  <2>4. Fresh(run[q], ask[q])'
    BY <1>1, <2>1 DEF Fresh, world
  <2> QED
    BY <2>2, <2>3, <2>4 DEF RunOK
<1>4. StoreOK'
  BY <1>1 DEF StoreOK, IsConversion, EntryOK, world
<1>5. TypeOK'
  BY DEF TypeOK, VersionInv
<1> QED
  BY <1>3, <1>4, <1>5 DEF RunsOK

\* What is known of a process and of its call before a step.
LEMMA Before ==
  ASSUME IInv, NEW r \in Runs
  PROVE  /\ run[r] \in Processes /\ ask[r] \in Asks
         /\ Shape(run[r], ask[r]) /\ Matches(run[r]) /\ Fresh(run[r], ask[r])
         /\ AskIsGenuine(ask[r])
BY DEF IInv, TypeOK, VersionInv, VersionTypeOK, RunsOK, RunOK, AsksAreGenuine

\* A process stays one when a field of it is set.
LEMMA FieldSet ==
  ASSUME NEW p \in Processes
  PROVE  /\ \A x \in Steps : [p EXCEPT !.pc = x] \in Processes
         /\ \A x \in Builds \cup {None} : [p EXCEPT !.ver = x] \in Processes
         /\ \A x \in Keys : [p EXCEPT !.key = x] \in Processes
         /\ \A x \in Responses : [p EXCEPT !.resp = x] \in Processes
         /\ \A x \in {"ok", "failed"} : [p EXCEPT !.live = x] \in Processes
         /\ \A x \in {"open", "changed", "read", "unreadable"} :
              [p EXCEPT !.source = x] \in Processes
         /\ \A x \in {"none", "hit", "live", "failed"} : [p EXCEPT !.res = x] \in Processes
<1>1. \A x \in Steps : [p EXCEPT !.pc = x] \in Processes
  BY DEF Processes
<1>2. \A x \in Builds \cup {None} : [p EXCEPT !.ver = x] \in Processes
  BY DEF Processes
<1>3. \A x \in Keys : [p EXCEPT !.key = x] \in Processes
  BY DEF Processes
<1>4. \A x \in Responses : [p EXCEPT !.resp = x] \in Processes
  BY DEF Processes
<1>5. \A x \in {"ok", "failed"} : [p EXCEPT !.live = x] \in Processes
  BY DEF Processes
<1>6. \A x \in {"open", "changed", "read", "unreadable"} :
        [p EXCEPT !.source = x] \in Processes
  BY DEF Processes
<1>7. \A x \in {"none", "hit", "live", "failed"} : [p EXCEPT !.res = x] \in Processes
  BY DEF Processes
<1> QED
  BY <1>1, <1>2, <1>3, <1>4, <1>5, <1>6, <1>7

\* A process that has just begun, or is gone, has nothing to be wrong about.
LEMMA NewRunOK ==
  ASSUME IInv, NEW s \in Servers \cup {None}, NEW i \in Inputs \cup {None},
         NEW o \in Options \cup {None}, NEW t \in 0 .. MaxClock, t <= clock,
         NEW step \in {"idle", "live", "version"}, NEW a \in Asks,
         step # "idle" => s \in Servers /\ i \in Inputs /\ o \in Options,
         a.pc # "idle" => step = "version", a.ver = None
  PROVE  NewRun(s, i, o, t, step) \in Processes /\ RunOK(NewRun(s, i, o, t, step), a)
<1> DEFINE p == NewRun(s, i, o, t, step)
<1>1. /\ p.pc = step /\ p.server = s /\ p.input = i /\ p.opts = o /\ p.since = t
      /\ p.ver = None /\ p.key = None /\ p.resp = None
      /\ p.live = "none" /\ p.source = "unread" /\ p.res = "none"
  BY DEF NewRun
<1>2. p \in Processes
  BY DEF NewRun, Processes, Steps
<1> HIDE DEF p
<1>3. Shape(p, a)
  BY <1>1 DEF Shape
<1>4. Matches(p) /\ Fresh(p, a)
  BY <1>1 DEF Matches, Fresh, Keyed
<1> QED
  BY <1>2, <1>3, <1>4 DEF RunOK, p

LEMMA StartInv ==
  ASSUME IInv, VersionInv', NEW r \in Runs, Start(r) PROVE IInv'
<1>1. run[r].pc = "idle" /\ UNCHANGED <<file, edited, store>> /\ ask[r].pc = "idle"
  BY Before DEF Start, Shape
<1>2. PICK s \in Servers, i \in Inputs, o \in Options :
        \/ /\ run' = [run EXCEPT ![r] = NewRun(s, i, o, clock, "live")]
           /\ UNCHANGED versionVars
        \/ /\ run' = [run EXCEPT ![r] = NewRun(s, i, o, clock, "version")]
           /\ Ask(r, s)
  BY DEF Start
<1>3. clock \in 0 .. MaxClock /\ clock <= clock
  BY ClockAssumption DEF IInv, TypeOK, VersionTypeOK
<1>4. CASE /\ run' = [run EXCEPT ![r] = NewRun(s, i, o, clock, "live")]
           /\ UNCHANGED versionVars
  <2>1. /\ UNCHANGED <<world, ask>> /\ ask[r] \in Asks /\ ask[r].ver = None
    BY <1>1, <1>4, Before DEF versionVars, world, Fresh
  <2>2. /\ NewRun(s, i, o, clock, "live") \in Processes
        /\ RunOK(NewRun(s, i, o, clock, "live"), ask[r])
    BY <1>1, <1>3, <2>1, NewRunOK
  <2> QED
    BY <1>1, <1>4, <2>1, <2>2, RunStep
<1>5. CASE /\ run' = [run EXCEPT ![r] = NewRun(s, i, o, clock, "version")]
           /\ Ask(r, s)
  <2>1. /\ UNCHANGED world /\ \A q \in Runs \ {r} : ask'[q] = ask[q]
        /\ ask'[r] \in Asks /\ ask'[r].ver = None
    BY <1>5, ClockAssumption DEF Ask, Asks, IInv, VersionInv, VersionTypeOK
  <2>2. /\ NewRun(s, i, o, clock, "version") \in Processes
        /\ RunOK(NewRun(s, i, o, clock, "version"), ask'[r])
    BY <1>3, <2>1, NewRunOK
  <2> QED
    BY <1>1, <1>5, <2>1, <2>2, RunStep
<1> QED
  BY <1>2, <1>4, <1>5

LEMMA ExitInv ==
  ASSUME IInv, VersionInv', NEW r \in Runs, Exit(r) PROVE IInv'
<1>1. /\ UNCHANGED <<world, file, edited, store>> /\ run' = [run EXCEPT ![r] = IdleRun]
      /\ \A q \in Runs \ {r} : ask'[q] = ask[q]
      /\ ask'[r] \in Asks /\ ask'[r].pc = "idle" /\ ask'[r].ver = None
  <2>1. CASE ask[r].pc = "idle"
    BY <2>1, Before DEF Exit, versionVars, world, Fresh
  <2>2. CASE ask[r].pc # "idle"
    BY <2>2, ClockAssumption
       DEF Exit, Leave, NoAsk, Asks, IInv, VersionInv, VersionTypeOK
  <2> QED
    BY <2>1, <2>2
<1>2. 0 \in 0 .. MaxClock /\ 0 <= clock
  BY ClockAssumption DEF IInv, TypeOK, VersionTypeOK
<1>3. IdleRun \in Processes /\ RunOK(IdleRun, ask'[r])
  BY <1>1, <1>2, NewRunOK DEF IdleRun
<1> QED
  BY <1>1, <1>3, RunStep

----------------------------------------------------------------------------
(* The version and the namespace *)

\* A step of a call that takes up a version takes up one that is fresh now, and the
\* process started before now.
LEMMA InVersionInv ==
  ASSUME IInv, VersionInv', NEW r \in Runs, InVersion(r) PROVE IInv'
<1>1. /\ UNCHANGED <<world, file, edited, store, run>> /\ ask[r].pc # "idle"
      /\ ask'[r].pc # "idle"
      /\ \A q \in Runs \ {r} : ask'[q] = ask[q]
  BY DEF InVersion, VersionStep, ReadCachedVersion, FetchVersion, StampVersion,
         TruncateVersionFile, WriteVersionFile, Goto, Answer, world,
         IInv, VersionInv, VersionTypeOK, Asks
<1>2. [VersionNext]_versionVars
  BY DEF InVersion, VersionNext
<1>3. Shape(run[r], ask'[r])
  BY <1>1, Before DEF Shape
<1>4. Fresh(run[r], ask'[r])
  <2>1. /\ run[r].since \in Int /\ clock \in Int /\ run[r].since <= clock
        /\ TTL + Lag \in Int
    BY Before, ClockAssumption
       DEF Processes, Fresh, IInv, TypeOK, VersionTypeOK
  <2>2. ASSUME ask'[r].ver \notin {None, ask[r].ver}
        PROVE  LiveWithin(ask'[r].ver, run[r].since, TTL + Lag)
    <3>1. LiveWithin(ask'[r].ver, clock, TTL + Lag)
      BY <1>2, <2>2, TakenUpIsFresh DEF IInv
    <3>2. ask'[r].ver \in Builds
      BY <2>2 DEF VersionInv, VersionTypeOK, Asks
    <3> QED
      BY <2>1, <3>1, <3>2, LiveWithinWeaker DEF IInv, TypeOK
  <2> QED
    BY <1>1, <2>2, Before DEF Fresh
<1>5. RunOK(run[r], ask'[r]) /\ run[r] \in Processes
  BY <1>3, <1>4, Before DEF RunOK
<1>6. run' = [run EXCEPT ![r] = run[r]]
  BY <1>1 DEF IInv, TypeOK
<1> QED
  BY <1>1, <1>5, <1>6, RunStep

LEMMA HaveVersionInv ==
  ASSUME IInv, VersionInv', NEW r \in Runs, HaveVersion(r) PROVE IInv'
<1>1. /\ UNCHANGED <<world, file, edited, store>> /\ ask[r].pc # "idle"
      /\ \A q \in Runs \ {r} : ask'[q] = ask[q]
      /\ ask'[r].pc = "idle" /\ ask'[r].ver = None
  BY DEF HaveVersion, Leave, NoAsk, IInv, VersionInv, VersionTypeOK
<1>2. run[r].pc = "version" /\ run[r].ver = None /\ run \in [Runs -> Processes]
  BY <1>1, Before DEF Shape, IInv, TypeOK
<1>3. CASE /\ ask[r].pc = "answered"
           /\ run' = [run EXCEPT ![r].pc = "namespace", ![r].ver = ask[r].ver]
  <2> DEFINE p == [run[r] EXCEPT !.pc = "namespace", !.ver = ask[r].ver]
  <2>1. ask[r].ver \in Builds /\ run' = [run EXCEPT ![r] = p]
    BY <1>2, <1>3, Before DEF AskIsGenuine
  <2>2. p \in Processes
    BY <2>1, Before, FieldSet DEF Steps
  <2>3. Shape(p, ask'[r])
    BY <1>1, <1>2, <2>1, Before DEF Shape, Processes
  <2>4. Matches(p)
    BY <1>2, <2>1, Before DEF Matches, Keyed, Processes, Shape
  <2>5. Fresh(p, ask'[r])
    BY <1>1, <2>1, Before, NamesAssumption DEF Fresh, Processes
  <2> QED
    BY <1>1, <2>1, <2>2, <2>3, <2>4, <2>5, RunStep DEF RunOK
<1>4. CASE run' = [run EXCEPT ![r].pc = "live"]
  <2> DEFINE p == [run[r] EXCEPT !.pc = "live"]
  <2>1. run' = [run EXCEPT ![r] = p] /\ p \in Processes
    BY <1>2, <1>4, Before, FieldSet DEF Steps
  <2>2. Shape(p, ask'[r]) /\ Fresh(p, ask'[r])
    BY <1>1, <1>2, Before DEF Shape, Fresh, Processes
  <2>3. Matches(p)
    BY <1>2, Before DEF Matches, Keyed, Processes, Shape
  <2> QED
    BY <1>1, <2>1, <2>2, <2>3, RunStep DEF RunOK
<1> QED
  BY <1>3, <1>4 DEF HaveVersion

\* The other steps of a process leave its call alone.
LEMMA OpenNamespaceInv ==
  ASSUME IInv, VersionInv', NEW r \in Runs, OpenNamespace(r) PROVE IInv'
<1>1. /\ UNCHANGED <<world, ask, file, edited, store>> /\ run[r].pc = "namespace"
      /\ run \in [Runs -> Processes]
  BY DEF OpenNamespace, versionVars, world, IInv, TypeOK
<1>2. CASE run' = [run EXCEPT ![r].pc = "fingerprint"]
  <2> DEFINE p == [run[r] EXCEPT !.pc = "fingerprint"]
  <2>1. run' = [run EXCEPT ![r] = p] /\ p \in Processes
    BY <1>1, <1>2, Before, FieldSet DEF Steps
  <2>2. Shape(p, ask[r]) /\ Matches(p) /\ Fresh(p, ask[r])
    BY <1>1, Before DEF Shape, Matches, Keyed, Fresh, Processes
  <2> QED
    BY <1>1, <2>1, <2>2, RunStep DEF RunOK
<1>3. CASE run' = [run EXCEPT ![r].pc = "live", ![r].ver = None]
  <2> DEFINE p == [run[r] EXCEPT !.pc = "live", !.ver = None]
  <2>1. run' = [run EXCEPT ![r] = p] /\ p \in Processes
    BY <1>1, <1>3, Before, FieldSet DEF Steps
  <2>2. Shape(p, ask[r]) /\ Matches(p) /\ Fresh(p, ask[r])
    BY <1>1, Before DEF Shape, Matches, Keyed, Fresh, Processes
  <2> QED
    BY <1>1, <2>1, <2>2, RunStep DEF RunOK
<1> QED
  BY <1>2, <1>3 DEF OpenNamespace

----------------------------------------------------------------------------
(* The key *)

\* The key is one of the input, of what was hashed and of the options, or the digest
\* of nothing.
LEMMA CacheKeyIs ==
  ASSUME NEW i \in Inputs, NEW b, NEW o \in Options,
         (i \in Paths /\ b \in Bodies) \/ (i \in URLs /\ b = None)
  PROVE  /\ CacheKey(i, b, o) \in Keys
         /\ o \in Unencodable => CacheKey(i, b, o) = EmptyKey
         /\ o \notin Unencodable =>
              /\ CacheKey(i, b, o).input = SourceOf(i) /\ CacheKey(i, b, o).opts = o
              /\ CacheKey(i, b, o).body = b
<1>1. /\ i \in Paths => SourceOf(i) \in Names
      /\ i \in URLs => SourceOf(i) = i
  BY InputsAssumption DEF SourceOf
<1>2. o \notin Unencodable => [input |-> SourceOf(i), body |-> b, opts |-> o] \in Keys
  BY <1>1 DEF Keys
<1>3. o \in Unencodable => EmptyKey \in Keys
  BY DEF Keys
<1> QED
  BY <1>2, <1>3 DEF CacheKey

\* What a process may take for the bytes of its input.
MayHash(p, b) ==
  \/ p.input \in URLs /\ b = None
  \/ p.input \in Paths /\ b \in Bodies /\ (edited \/ b = file[p.input])

\* The step of a process that has its key.
LEMMA KeyedInv ==
  ASSUME IInv, VersionInv', NEW r \in Runs, NEW b \in Bodies \cup {None},
         run[r].pc \in {"fingerprint", "hashing"}, MayHash(run[r], b),
         UNCHANGED <<world, ask, file, edited, store>>,
         run' = [run EXCEPT ![r].pc = "lookup", ![r].source = "read",
                            ![r].key = CacheKey(run[r].input, b, run[r].opts)]
  PROVE  IInv'
<1> DEFINE key == CacheKey(run[r].input, b, run[r].opts)
           p   == [run[r] EXCEPT !.pc = "lookup", !.source = "read", !.key = key]
<1>1. /\ UNCHANGED <<world, ask, file, edited, store>>
      /\ run \in [Runs -> Processes]
      /\ run[r].input \in Inputs /\ run[r].opts \in Options
  BY Before DEF IInv, TypeOK, Shape
<1>2. /\ key \in Keys
      /\ run[r].opts \in Unencodable => key = EmptyKey
      /\ run[r].opts \notin Unencodable =>
           /\ key.input = SourceOf(run[r].input) /\ key.opts = run[r].opts
           /\ key.body = b
  BY <1>1, CacheKeyIs DEF MayHash
<1>3. edited \/ b = BodyOf(run[r].input)
  BY InputsAssumption DEF BodyOf, MayHash
<1>4. run' = [run EXCEPT ![r] = p]
  BY <1>1
<1>5. p \in Processes
  BY <1>2, Before, FieldSet DEF Steps
<1> HIDE DEF key
<1>6. Shape(p, ask[r]) /\ Fresh(p, ask[r])
  BY <1>1, <1>2, Before DEF Shape, Fresh, Processes
<1>7. Matches(p)
  BY <1>1, <1>2, <1>3, Before DEF Matches, Keyed, Shape, Processes
<1> QED
  BY <1>1, <1>4, <1>5, <1>6, <1>7, RunStep DEF RunOK

\* The step of a process whose file cannot be read.
LEMMA UnreadableInv ==
  ASSUME IInv, VersionInv', NEW r \in Runs,
         run[r].pc \in {"fingerprint", "hashing"},
         UNCHANGED <<world, ask, file, edited, store>>,
         run' = [run EXCEPT ![r].pc = "done", ![r].source = "unreadable",
                            ![r].res = "failed"]
  PROVE  IInv'
<1> DEFINE p == [run[r] EXCEPT !.pc = "done", !.source = "unreadable", !.res = "failed"]
<1>1. run \in [Runs -> Processes]
  BY DEF IInv, TypeOK
<1>2. run' = [run EXCEPT ![r] = p] /\ p \in Processes
  BY <1>1, Before, FieldSet DEF Steps
<1>3. Shape(p, ask[r]) /\ Matches(p) /\ Fresh(p, ask[r])
  BY <1>1, Before DEF Shape, Matches, Keyed, Fresh, Processes
<1> QED
  BY <1>1, <1>2, <1>3, RunStep DEF RunOK

LEMMA FingerprintInv ==
  ASSUME IInv, VersionInv', NEW r \in Runs, Fingerprint(r) PROVE IInv'
<1>1. /\ UNCHANGED <<world, ask, file, edited, store>> /\ run[r].pc = "fingerprint"
      /\ run \in [Runs -> Processes]
  BY DEF Fingerprint, versionVars, world, IInv, TypeOK
<1>2. CASE /\ run[r].input \in URLs
           /\ run' = [run EXCEPT ![r].pc = "lookup", ![r].source = "read",
                                 ![r].key = CacheKey(run[r].input, None, run[r].opts)]
  BY <1>1, <1>2, KeyedInv DEF MayHash
<1>3. CASE /\ run[r].input \in Paths
           /\ run' = [run EXCEPT ![r].pc = "hashing", ![r].source = "open"]
  <2> DEFINE p == [run[r] EXCEPT !.pc = "hashing", !.source = "open"]
  <2>1. run' = [run EXCEPT ![r] = p] /\ p \in Processes
    BY <1>1, <1>3, Before, FieldSet DEF Steps
  <2>2. Shape(p, ask[r]) /\ Matches(p) /\ Fresh(p, ask[r])
    BY <1>1, <1>3, Before DEF Shape, Matches, Keyed, Fresh, Processes
  <2> QED
    BY <1>1, <2>1, <2>2, RunStep DEF RunOK
<1>4. CASE run' = [run EXCEPT ![r].pc = "done", ![r].source = "unreadable",
                              ![r].res = "failed"]
  BY <1>1, <1>4, UnreadableInv
<1> QED
  BY <1>2, <1>3, <1>4 DEF Fingerprint

\* What is hashed is the file as it is now, or an edit has been noted.
LEMMA HashInv ==
  ASSUME IInv, VersionInv', NEW r \in Runs, Hash(r) PROVE IInv'
<1>1. /\ UNCHANGED <<world, ask, file, edited, store>> /\ run[r].pc = "hashing"
      /\ run[r].input \in Paths /\ (run[r].source = "open" \/ edited)
  BY Before DEF Hash, Shape, Matches, versionVars, world
<1>2. ASSUME NEW b \in Bodies, run[r].source = "open" => b = file[run[r].input],
             run' = [run EXCEPT ![r].pc = "lookup", ![r].source = "read",
                                ![r].key = CacheKey(run[r].input, b, run[r].opts)]
      PROVE  IInv'
  <2>1. MayHash(run[r], b)
    BY <1>1, <1>2 DEF MayHash
  <2> QED
    BY <1>1, <1>2, <2>1, KeyedInv
<1>3. CASE run' = [run EXCEPT ![r].pc = "done", ![r].source = "unreadable",
                              ![r].res = "failed"]
  BY <1>1, <1>3, UnreadableInv
<1> QED
  BY <1>2, <1>3 DEF Hash

\* What is found under a key of its own is a conversion of what the process was
\* asked for: the key is not the digest of nothing.
LEMMA LookupInv ==
  ASSUME IInv, VersionInv', NEW r \in Runs, Lookup(r) PROVE IInv'
<1> DEFINE entry == store[run[r].ver][run[r].key]
<1>1. /\ UNCHANGED <<world, ask, file, edited, store>> /\ run[r].pc = "lookup"
      /\ run \in [Runs -> Processes]
      /\ run[r].input \in Inputs /\ run[r].opts \in Options
      /\ run[r].ver \in Builds /\ run[r].source = "read" /\ run[r].key \in Keys
  BY Before DEF Lookup, versionVars, world, IInv, TypeOK, Shape
<1>2. CASE /\ entry \in Responses
           /\ run' = [run EXCEPT ![r].pc = "done", ![r].res = "hit", ![r].resp = entry]
  <2> DEFINE p == [run[r] EXCEPT !.pc = "done", !.res = "hit", !.resp = entry]
  <2>1. ASSUME Keyed(run[r])
        PROVE  /\ entry.input = SourceOf(run[r].input) /\ entry.opts = run[r].opts
               /\ edited \/ entry.body = run[r].key.body
    <3>1. run[r].key.input = SourceOf(run[r].input) /\ run[r].key.opts = run[r].opts
      BY <2>1, Before DEF Matches
    <3>2. run[r].key # EmptyKey
      BY <1>1, <3>1, InputsAssumption DEF EmptyKey, Inputs, SourceOf
    <3> QED
      BY <1>1, <1>2, <3>1, <3>2 DEF IInv, StoreOK, IsConversion, EntryOK
  <2> HIDE DEF entry
  <2>2. run' = [run EXCEPT ![r] = p] /\ p \in Processes
    BY <1>1, <1>2, Before, FieldSet DEF Steps
  <2>3. Shape(p, ask[r]) /\ Fresh(p, ask[r])
    BY <1>1, Before DEF Shape, Fresh, Processes
  <2>4. Matches(p)
    BY <1>1, <2>1, Before DEF Matches, Keyed, Processes
  <2> QED
    BY <1>1, <2>2, <2>3, <2>4, RunStep DEF RunOK
<1>3. CASE run' = [run EXCEPT ![r].pc = "live"]
  <2> DEFINE p == [run[r] EXCEPT !.pc = "live"]
  <2>1. run' = [run EXCEPT ![r] = p] /\ p \in Processes
    BY <1>1, <1>3, Before, FieldSet DEF Steps
  <2>2. Shape(p, ask[r]) /\ Matches(p) /\ Fresh(p, ask[r])
    BY <1>1, Before DEF Shape, Matches, Keyed, Fresh, Processes
  <2> QED
    BY <1>1, <2>1, <2>2, RunStep DEF RunOK
<1> QED
  BY <1>2, <1>3 DEF Lookup

----------------------------------------------------------------------------
(* The conversion and the entry *)

LEMMA ConvertInv ==
  ASSUME IInv, VersionInv', NEW r \in Runs, Convert(r) PROVE IInv'
<1>1. /\ UNCHANGED <<world, ask, file, edited, store>> /\ run[r].pc = "live"
      /\ run \in [Runs -> Processes] /\ TypeOK
      /\ run[r].server \in Servers /\ run[r].input \in Inputs /\ run[r].opts \in Options
  BY Before DEF Convert, versionVars, world, IInv, TypeOK, Shape
<1>2. ASSUME Readable(run[r].input), NEW status \in Statuses,
             run' = [run EXCEPT ![r].live = "ok",
                       ![r].resp = Conversion(r, status),
                       ![r].pc  = IF run[r].ver = None THEN "done" ELSE "store",
                       ![r].res = IF run[r].ver = None THEN "live" ELSE "none"]
      PROVE  IInv'
  <2> DEFINE resp == Conversion(r, status)
             pc   == IF run[r].ver = None THEN "done" ELSE "store"
             res  == IF run[r].ver = None THEN "live" ELSE "none"
             p    == [run[r] EXCEPT !.live = "ok", !.resp = resp, !.pc = pc, !.res = res]
  <2>1. run' = [run EXCEPT ![r] = p]
    BY <1>1, <1>2
  <2>2. /\ resp.input = SourceOf(run[r].input) /\ resp.body = BodyOf(run[r].input)
        /\ resp.opts = run[r].opts /\ resp.since = run[r].since
    BY DEF Conversion
  <2>3. resp \in Responses
    <3>1. BodyOf(run[r].input) \in Bodies \cup {None}
      BY <1>1, <1>2 DEF BodyOf, Readable, TypeOK
    <3>2. build[run[r].server] \in Builds
      BY <1>1 DEF TypeOK, VersionTypeOK
    <3>3. run[r].since \in 0 .. MaxClock
      BY Before DEF Processes
    <3>4. SourceOf(run[r].input) \in Sources
      BY <1>1, InputsAssumption DEF SourceOf, Sources, Inputs
    <3> QED
      BY <1>1, <3>1, <3>2, <3>3, <3>4 DEF Conversion, Responses
  <2> HIDE DEF resp
  <2>4. p \in Processes
    BY <2>3, Before, FieldSet DEF Steps
  <2>5. Shape(p, ask[r])
    BY <1>1, <2>3, Before DEF Shape, Processes
  <2>6. Matches(p)
    BY <1>1, <2>2, Before DEF Matches, Keyed, Shape, Processes
  <2>7. Fresh(p, ask[r])
    BY Before DEF Fresh, Processes
  <2> QED
    BY <1>1, <2>1, <2>4, <2>5, <2>6, <2>7, RunStep DEF RunOK
<1>3. CASE run' = [run EXCEPT ![r].live = "failed", ![r].pc = "done", ![r].res = "failed"]
  <2> DEFINE p == [run[r] EXCEPT !.live = "failed", !.pc = "done", !.res = "failed"]
  <2>1. run' = [run EXCEPT ![r] = p] /\ p \in Processes
    BY <1>1, <1>3, Before, FieldSet DEF Steps
  <2>2. Shape(p, ask[r]) /\ Matches(p) /\ Fresh(p, ask[r])
    BY <1>1, Before DEF Shape, Matches, Keyed, Fresh, Processes
  <2> QED
    BY <1>1, <2>1, <2>2, RunStep DEF RunOK
<1> QED
  BY <1>2, <1>3 DEF Convert

\* The only step of a process that changes an entry: the entry is what its key says,
\* and the process started when the namespace was not too old.
LEMMA StoreInv ==
  ASSUME IInv, VersionInv', NEW r \in Runs, Store(r) PROVE IInv'
<1> DEFINE p == [run[r] EXCEPT !.pc = "done", !.res = "live"]
<1>1. /\ UNCHANGED <<world, ask, file, edited>> /\ run[r].pc = "store"
      /\ run \in [Runs -> Processes] /\ store \in [Builds -> [Keys -> Entries]]
      /\ run' = [run EXCEPT ![r] = p]
      /\ run[r].ver \in Builds /\ run[r].source = "read" /\ run[r].key \in Keys
      /\ run[r].resp \in Responses
      /\ run[r].input \in Inputs /\ run[r].opts \in Options
  BY Before DEF Store, versionVars, world, IInv, TypeOK, Shape
<1>2. p \in Processes /\ RunOK(p, ask[r])
  <2>1. p \in Processes
    BY Before, FieldSet DEF Steps
  <2>2. Shape(p, ask[r])
    BY <1>1, Before DEF Shape, Processes
  <2>3. Matches(p)
    BY <1>1, Before DEF Matches, Keyed, Processes
  <2>4. Fresh(p, ask[r])
    BY Before DEF Fresh, Processes
  <2> QED
    BY <2>1, <2>2, <2>3, <2>4 DEF RunOK
<1>3. \A v, t, d : LiveWithin(v, t, d)' <=> LiveWithin(v, t, d)
  BY <1>1 DEF LiveWithin, world
<1>4. EntryOK(run[r].ver, run[r].key, run[r].resp)
  <2>1. run[r].resp.since <= clock /\ LiveWithin(run[r].ver, run[r].resp.since, TTL + Lag)
    BY <1>1, Before, NamesAssumption DEF Fresh, Matches
  <2>2. run[r].key # EmptyKey =>
          /\ run[r].resp.input = run[r].key.input /\ run[r].resp.opts = run[r].key.opts
          /\ edited \/ run[r].resp.body = run[r].key.body
    BY <1>1, Before DEF Matches, Keyed
  <2> QED
    BY <2>1, <2>2 DEF EntryOK
<1>5. CASE UNCHANGED store
  BY <1>1, <1>2, <1>5, RunStep
<1>6. CASE store' = [store EXCEPT ![run[r].ver][run[r].key] = run[r].resp]
  <2>1. store' \in [Builds -> [Keys -> Entries]]
    BY <1>1, <1>6 DEF Entries
  <2>2. ASSUME NEW v \in Builds, NEW k \in Keys, IsConversion(v, k)'
        PROVE  EntryOK(v, k, store'[v][k])
    <3>1. CASE v = run[r].ver /\ k = run[r].key
      BY <1>1, <1>4, <1>6, <3>1
    <3>2. CASE v # run[r].ver \/ k # run[r].key
      <4>1. store'[v][k] = store[v][k]
        BY <1>1, <1>6, <3>2
      <4> QED
        BY <2>2, <4>1 DEF IInv, StoreOK, IsConversion
    <3> QED
      BY <3>1, <3>2
  <2>3. StoreOK'
    BY <1>1, <1>3, <2>2 DEF StoreOK, EntryOK, world
  <2>4. ASSUME NEW q \in Runs PROVE RunOK(run[q], ask[q])'
    <3>1. RunOK(run'[q], ask[q])
      BY <1>1, <1>2 DEF IInv, RunsOK
    <3> QED
      BY <1>1, <1>3, <3>1 DEF RunOK, Shape, Matches, Keyed, BodyOf, Fresh, world
  <2>5. TypeOK'
    BY <1>1, <1>2, <2>1 DEF TypeOK, VersionInv, IInv
  <2> QED
    BY <2>3, <2>4, <2>5 DEF IInv, RunsOK
<1> QED
  BY <1>5, <1>6 DEF Store

----------------------------------------------------------------------------
(* The world around *)

LEMMA TickInIInv ==
  ASSUME IInv, VersionInv', Tick, UNCHANGED <<file, edited, store, run>> PROVE IInv'
<1>1. /\ clock \in Int /\ clock' = clock + 1 /\ UNCHANGED <<build, retired, ask>>
  BY ClockAssumption DEF Tick, IInv, TypeOK, VersionTypeOK
<1>2. \A v, t, d : LiveWithin(v, t, d)' <=> LiveWithin(v, t, d)
  BY <1>1 DEF LiveWithin
<1>3. ASSUME NEW r \in Runs PROVE RunOK(run[r], ask[r])'
  <2>1. run[r].since \in Int
    BY Before DEF Processes
  <2>2. Fresh(run[r], ask[r])'
    BY <1>1, <1>2, <2>1, Before DEF Fresh
  <2>3. Shape(run[r], ask[r])' /\ Matches(run[r])'
    BY <1>1, Before DEF Shape, Matches, Keyed, BodyOf
  <2> QED
    BY <2>2, <2>3 DEF RunOK
<1>4. ASSUME NEW v \in Builds, NEW k \in Keys, IsConversion(v, k)
      PROVE  EntryOK(v, k, store[v][k])'
  <2>1. EntryOK(v, k, store[v][k]) /\ store[v][k].since \in Int
    BY <1>4 DEF IInv, StoreOK, IsConversion, Responses
  <2> QED
    BY <1>1, <1>2, <2>1 DEF EntryOK
<1>5. TypeOK'
  BY DEF IInv, TypeOK, VersionInv
<1> QED
  BY <1>3, <1>4, <1>5 DEF IInv, RunsOK, StoreOK, IsConversion

LEMMA UpgradeInIInv ==
  ASSUME IInv, VersionInv', NEW s \in Servers, Upgrade(s),
         UNCHANGED <<file, edited, store, run>>
  PROVE  IInv'
<1>1. UNCHANGED <<clock, ask>> /\ TTL + Lag \in Nat
  BY ClockAssumption DEF Upgrade
<1>2. ASSUME NEW v \in Builds, NEW t \in Int, t <= clock, LiveWithin(v, t, TTL + Lag)
      PROVE  LiveWithin(v, t, TTL + Lag)'
  BY <1>1, <1>2, LiveWithinKept DEF IInv, TypeOK
<1>3. ASSUME NEW r \in Runs PROVE RunOK(run[r], ask[r])'
  <2>1. /\ run[r].since \in Int /\ run[r].since <= clock
        /\ run[r].ver \in Builds \cup {None} /\ ask[r].ver \in Builds \cup {None}
    BY Before DEF Processes, Asks, Fresh
  <2>2. run[r].ver # None => LiveWithin(run[r].ver, run[r].since, TTL + Lag)'
    <3>1. CASE run[r].ver \in Builds
      <4>1. LiveWithin(run[r].ver, run[r].since, TTL + Lag)
        BY <3>1, Before, NamesAssumption DEF Fresh
      <4> QED
        BY <1>2, <2>1, <3>1, <4>1 DEF LiveWithin
    <3> QED
      BY <2>1, <3>1
  <2>3. ask[r].ver # None => LiveWithin(ask[r].ver, run[r].since, TTL + Lag)'
    <3>1. CASE ask[r].ver \in Builds
      <4>1. LiveWithin(ask[r].ver, run[r].since, TTL + Lag)
        BY <3>1, Before, NamesAssumption DEF Fresh
      <4> QED
        BY <1>1, <1>2, <2>1, <3>1, <4>1 DEF LiveWithin
    <3> QED
      BY <2>1, <3>1
  <2>4. Fresh(run[r], ask[r])'
    BY <1>1, <2>1, <2>2, <2>3, Before DEF Fresh
  <2>5. Shape(run[r], ask[r])' /\ Matches(run[r])'
    BY <1>1, Before DEF Shape, Matches, Keyed, BodyOf
  <2> QED
    BY <2>4, <2>5 DEF RunOK
<1>4. ASSUME NEW v \in Builds, NEW k \in Keys, IsConversion(v, k)
      PROVE  EntryOK(v, k, store[v][k])'
  <2>1. EntryOK(v, k, store[v][k]) /\ store[v][k].since \in Int
    BY <1>4 DEF IInv, StoreOK, IsConversion, Responses
  <2>2. LiveWithin(v, store[v][k].since, TTL + Lag)'
    BY <1>2, <2>1 DEF EntryOK
  <2> QED
    BY <1>1, <2>1, <2>2 DEF EntryOK
<1>5. TypeOK'
  BY DEF IInv, TypeOK, VersionInv
<1> QED
  BY <1>3, <1>4, <1>5 DEF IInv, RunsOK, StoreOK, IsConversion

\* An edit either is no process's business, or is noted.
LEMMA EditInv ==
  ASSUME IInv, VersionInv', NEW p \in Paths, Edit(p) PROVE IInv'
<1>1. /\ UNCHANGED <<world, ask, store>> /\ file' \in [Paths -> Bodies \cup {Missing}]
      /\ edited' = (edited \/ \E r \in Runs : Between(r, p))
      /\ \A i \in Paths \ {p} : file'[i] = file[i]
      /\ run' = [r \in Runs |-> IF Hashing(r, p) THEN [run[r] EXCEPT !.source = "changed"]
                                                  ELSE run[r]]
  BY DEF Edit, versionVars, world, IInv, TypeOK
<1>2. \A v, t, d : LiveWithin(v, t, d)' <=> LiveWithin(v, t, d)
  BY <1>1 DEF LiveWithin, world
<1>3. ASSUME NEW r \in Runs PROVE RunOK(run[r], ask[r])' /\ run'[r] \in Processes
  <2>1. CASE Hashing(r, p)
    <3> DEFINE q == [run[r] EXCEPT !.source = "changed"]
    <3>1. run'[r] = q /\ q \in Processes /\ edited' /\ run[r].pc = "hashing"
      BY <1>1, <2>1, Before, FieldSet DEF Between, Hashing
    <3>2. Shape(q, ask[r]) /\ Fresh(q, ask[r])
      BY <3>1, Before DEF Shape, Fresh, Processes
    <3>3. q.pc = "hashing" /\ q.source = "changed" /\ q.res = "none"
      BY <3>1, Before DEF Shape, Processes
    <3> HIDE DEF q
    <3>4. Shape(run[r], ask[r])' /\ Fresh(run[r], ask[r])'
      BY <1>1, <1>2, <3>1, <3>2 DEF Shape, Fresh, world
    <3>5. Matches(run[r])'
      BY <3>1, <3>3 DEF Matches, Keyed
    <3> QED
      BY <3>1, <3>4, <3>5 DEF RunOK
  <2>2. CASE ~Hashing(r, p)
    <3>1. run'[r] = run[r]
      BY <1>1, <2>2
    <3>2. Shape(run[r], ask[r])' /\ Fresh(run[r], ask[r])'
      <4>1. UNCHANGED <<clock, run[r], ask[r]>>
        BY <1>1, <3>1 DEF world
      <4>2. Shape(run[r], ask[r])'
        BY <4>1, Before DEF Shape
      <4>3. Fresh(run[r], ask[r])'
        BY <1>2, <4>1, Before DEF Fresh
      <4> QED
        BY <4>2, <4>3
    <3>3. ASSUME Keyed(run[r]), run[r].pc \in {"lookup", "live"}, ~edited'
          PROVE  BodyOf(run[r].input)' = BodyOf(run[r].input)
      BY <1>1, <3>1, <3>3 DEF Keyed, Between, BodyOf
    <3>4. Matches(run[r])'
      <4> DEFINE q == run[r]
      <4>1. Matches(q) /\ q = run'[r] /\ (edited => edited')
        BY <1>1, <3>1, Before
      <4>2. Keyed(q) /\ q.pc \in {"lookup", "live"} /\ ~edited' =>
              q.key.body = BodyOf(q.input)'
        BY <3>1, <3>3, <4>1 DEF Matches, Keyed
      <4> QED
        BY <4>1, <4>2 DEF Matches, Keyed
    <3> QED
      BY <3>1, <3>2, <3>4, Before DEF RunOK
  <2> QED
    BY <2>1, <2>2
<1>4. StoreOK'
  BY <1>1, <1>2 DEF IInv, StoreOK, IsConversion, EntryOK, world
<1>5. TypeOK'
  <2>1. run' \in [Runs -> Processes]
    BY <1>1, <1>3
  <2> QED
    BY <1>1, <2>1 DEF IInv, TypeOK, VersionInv
<1> QED
  BY <1>3, <1>4, <1>5 DEF IInv, RunsOK

LEMMA PruneInv ==
  ASSUME IInv, VersionInv', NEW v \in Builds, NEW k \in Keys, Prune(v, k) PROVE IInv'
<1>1. /\ UNCHANGED <<world, ask, file, edited, run>>
      /\ store \in [Builds -> [Keys -> Entries]]
      /\ store' = [store EXCEPT ![v][k] = Absent]
  BY DEF Prune, versionVars, world, IInv, TypeOK
<1>2. \A w, t, d : LiveWithin(w, t, d)' <=> LiveWithin(w, t, d)
  BY <1>1 DEF LiveWithin, world
<1>3. store' \in [Builds -> [Keys -> Entries]]
  BY <1>1 DEF Entries
<1>4. ASSUME NEW w \in Builds, NEW j \in Keys, IsConversion(w, j)'
      PROVE  store'[w][j] = store[w][j]
  BY <1>1, <1>4, EntriesAssumption DEF IsConversion
<1>5. StoreOK'
  BY <1>1, <1>2, <1>4 DEF IInv, StoreOK, IsConversion, EntryOK, world
<1>6. RunsOK'
  BY <1>1, <1>2 DEF IInv, RunsOK, RunOK, Shape, Matches, Keyed, BodyOf, Fresh, world
<1>7. TypeOK'
  BY <1>1, <1>3 DEF IInv, TypeOK, VersionInv
<1> QED
  BY <1>5, <1>6, <1>7 DEF IInv

----------------------------------------------------------------------------
(* The theorems *)

LEMMA InitIInv == Init => IInv
<1> SUFFICES ASSUME Init PROVE IInv
  OBVIOUS
<1>1. VersionInv
  BY InitVersionInv DEF Init
<1>2. TypeOK
  <2>1. IdleRun \in Processes
    BY ClockAssumption DEF IdleRun, NewRun, Processes, Steps
  <2>2. store \in [Builds -> [Keys -> Entries]]
    BY DEF Init, Entries
  <2> QED
    BY <1>1, <2>1, <2>2 DEF Init, TypeOK, VersionInv
<1>3. ASSUME NEW r \in Runs PROVE RunOK(run[r], ask[r])
  <2>1. run[r] = IdleRun /\ ask[r].pc = "idle" /\ ask[r].ver = None /\ clock = 0
    BY DEF Init, VersionInit, NoAsk
  <2> QED
    BY <2>1 DEF RunOK, Shape, Matches, Keyed, Fresh, IdleRun, NewRun
<1>4. StoreOK
  BY EntriesAssumption DEF Init, StoreOK, IsConversion
<1> QED
  BY <1>1, <1>2, <1>3, <1>4 DEF IInv, RunsOK

LEMMA NextIInv == IInv /\ [Next]_vars => IInv'
<1> SUFFICES ASSUME IInv, [Next]_vars PROVE IInv'
  OBVIOUS
<1>1. VersionInv'
  BY StepOfVersion, VersionNextInv DEF IInv
<1>2. CASE UNCHANGED vars
  BY <1>1, <1>2 DEF vars, versionVars, IInv, TypeOK, VersionInv, RunsOK, RunOK, Shape,
       Matches, Keyed, BodyOf, Fresh, StoreOK, IsConversion, EntryOK, LiveWithin
<1>3. ASSUME NEW r \in Runs, Start(r) \/ Step(r) \/ Exit(r) PROVE IInv'
  BY <1>1, <1>3, StartInv, InVersionInv, HaveVersionInv, OpenNamespaceInv, FingerprintInv,
     HashInv, LookupInv, ConvertInv, StoreInv, ExitInv DEF Step
<1>4. CASE Elsewhere
  BY <1>1, <1>4, TickInIInv, UpgradeInIInv DEF Elsewhere
<1> QED
  BY <1>1, <1>2, <1>3, <1>4, EditInv, PruneInv DEF Next

LEMMA Invariance == Spec => []IInv
BY InitIInv, NextIInv, PTL DEF Spec

\* The processes that share the cache only do to server_version.json and to their
\* versions what ServerVersion does (main.go:357-366).
THEOREM ImplementsServerVersion == Spec => VersionSpec
<1>1. Init => VersionInit
  BY DEF Init
<1> QED
  BY <1>1, StepOfVersion, PTL DEF Spec, VersionSpec

\* A namespace of a run of convert is named after a version that is fresh when it is
\* taken up (cache.go:175-178).
THEOREM NamespacesAreFresh == Spec => VersionsAreFresh
BY ImplementsServerVersion, VersionsStayFresh, PTL

\* What the processes, their keys, their responses and the entries are
\* (main.go:352-401).
THEOREM TypeCorrect == Spec => []TypeOK
<1>1. IInv => TypeOK
  BY DEF IInv
<1> QED
  BY <1>1, Invariance, PTL

\* The cache fails no run that would have succeeded without it, and loses no
\* conversion (main.go:339-341).
THEOREM CacheStaysOptional == Spec => []CacheIsOptional
<1>1. IInv => CacheIsOptional
  BY DEF IInv, RunsOK, RunOK, Shape, CacheIsOptional
<1> QED
  BY <1>1, Invariance, PTL

\* A hit of a run whose options JSON can encode is a conversion of a document of the
\* name the run was given, with the run's options and of the bytes the run hashed unless
\* a file was edited under a run, whatever the other runs could not encode
\* (CacheKey, cache.go:28-41).
THEOREM EncodableHitsMatch ==
  Spec => [](\A r \in Runs : run[r].res = "hit" /\ run[r].opts \notin Unencodable =>
               /\ run[r].resp.input = SourceOf(run[r].input)
               /\ run[r].resp.opts = run[r].opts
               /\ edited \/ run[r].resp.body = run[r].key.body)
<1>1. IInv => \A r \in Runs : run[r].res = "hit" /\ run[r].opts \notin Unencodable =>
                /\ run[r].resp.input = SourceOf(run[r].input)
                /\ run[r].resp.opts = run[r].opts
                /\ edited \/ run[r].resp.body = run[r].key.body
  BY DEF IInv, RunsOK, RunOK, Matches
<1> QED
  BY <1>1, Invariance, PTL

\* If every value of the options has a JSON text, every hit matches.
THEOREM HitsMatchRequests ==
  ASSUME Unencodable = {} PROVE Spec => []HitMatchesRequest
<1>1. IInv => HitMatchesRequest
  BY DEF IInv, RunsOK, RunOK, Matches, HitMatchesRequest
<1> QED
  BY <1>1, Invariance, PTL

\* Every entry, but for those under the digest of nothing, is a conversion of the
\* input in its key with the options in its key, and of the bytes in its key unless a
\* file changed between a run's open for its hash and its upload (cache.go:46, main.go:385).
THEOREM EntriesMatchTheirKeys ==
  Spec => [](\A v \in Builds, k \in Keys : IsConversion(v, k) /\ k # EmptyKey =>
               /\ store[v][k].input = k.input /\ store[v][k].opts = k.opts
               /\ edited \/ store[v][k].body = k.body)
<1>1. IInv => \A v \in Builds, k \in Keys : IsConversion(v, k) /\ k # EmptyKey =>
                /\ store[v][k].input = k.input /\ store[v][k].opts = k.opts
                /\ edited \/ store[v][k].body = k.body
  BY DEF IInv, StoreOK, EntryOK
<1> QED
  BY <1>1, Invariance, PTL

\* Unless a file changes between a run's open for its hash and its upload, every entry
\* holds a conversion of the bytes in its key (cache.go:46, main.go:385).
THEOREM KeyedByContent ==
  ASSUME Unencodable = {} PROVE Spec => []KeyedByContentUnlessEdited
<1>1. EmptyKey \notin Keys
  BY InputsAssumption DEF EmptyKey, Keys
<1>2. IInv => KeyedByContentUnlessEdited
  BY <1>1 DEF IInv, StoreOK, EntryOK, KeyedByContentUnlessEdited
<1> QED
  BY <1>2, Invariance, PTL

\* A run that stores a result in the namespace of a build started no later than
\* TTL + Lag after that build was last given up (cache.go:175-178).
THEOREM MisfiledOnlyForADay == Spec => []MisfiledOnlyWithinTTL
<1>1. IInv => MisfiledOnlyWithinTTL
  BY DEF IInv, StoreOK, EntryOK, MisfiledOnlyWithinTTL
<1> QED
  BY <1>1, Invariance, PTL
=============================================================================
