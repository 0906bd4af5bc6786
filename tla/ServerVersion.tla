--------------------------- MODULE ServerVersion ---------------------------
(***************************************************************************)
(* ServerVersion (cache.go): the version of the server a process talks to, *)
(* from <cacheDir>/server_version.json when that file is fresh, else from  *)
(* GET /version, after which the file is rewritten.  Several processes     *)
(* share the file; servers are upgraded meanwhile.                         *)
(*                                                                         *)
(* Unlike cache entries the file is rewritten in place by os.WriteFile, in *)
(* two steps here, and nothing orders its writers.                         *)
(***************************************************************************)
EXTENDS Integers

CONSTANTS
  Runs,       \* processes alive at one time
  Servers,    \* docling-serve instances
  Builds,     \* /version payloads; versionHash tells them apart
  TTL,        \* versionTTL, in clock ticks
  Lag,        \* ticks from the answer to /version to the time.Now() after it
  MaxClock,   \* bound on the clock
  None, Absent, Torn  \* no value; no file or entry; unreadable bytes

ASSUME ClockAssumption == TTL \in Nat /\ Lag \in Nat /\ MaxClock \in Nat

ASSUME NamesAssumption ==
  None \notin Builds /\ Torn \notin Builds \cup {None} /\ "whole" \notin {Absent, Torn}

VARIABLES
  clock,      \* the wall clock
  build,      \* build[s]: what server s runs
  served,     \* history: served[s]: the builds s has run
  retired,    \* history: retired[b]: {} or the last time a server gave up b
  verFile,    \* server_version.json
  ask         \* ask[r]: the call of ServerVersion process r is in

versionVars == <<clock, build, served, retired, verFile, ask>>

----------------------------------------------------------------------------

NoVersion     == [form |-> Absent,  at |-> 0, ver |-> None]
TornVersion   == [form |-> Torn,    at |-> 0, ver |-> Torn]
Stamped(t, v) == [form |-> "whole", at |-> t, ver |-> v]

\* server_version.json: missing, unparseable, or a stamped version.
VersionFiles ==
  {NoVersion, TornVersion} \cup [form: {"whole"}, at: 0 .. MaxClock, ver: Builds]

\* at is the time of the answer to /version, then the stamp.
Asks == [pc: {"idle", "read", "fetch", "stamp", "truncate", "write",
              "answered", "failed"},
         server: Servers \cup {None}, ver: Builds \cup {None}, at: 0 .. MaxClock]

NoAsk == [pc |-> "idle", server |-> None, ver |-> None, at |-> 0]

VersionTypeOK ==
  /\ clock \in 0 .. MaxClock
  /\ build \in [Servers -> Builds]
  /\ served \in [Servers -> SUBSET Builds]
  /\ retired \in [Builds -> SUBSET (0 .. MaxClock)]
  /\ verFile \in VersionFiles
  /\ ask \in [Runs -> Asks]

VersionInit ==
  /\ clock = 0
  /\ build \in [Servers -> Builds]
  /\ served = [s \in Servers |-> {build[s]}]
  /\ retired = [b \in Builds |-> {}]
  /\ verFile \in {NoVersion, TornVersion}
  /\ ask = [r \in Runs |-> NoAsk]

----------------------------------------------------------------------------
(* The call *)

\* Everything but the call and the file.
world == <<clock, build, served, retired>>

Goto(r, step) == ask' = [ask EXCEPT ![r].pc = step]

Ask(r, s) ==
  /\ ask[r].pc = "idle"
  /\ ask' = [ask EXCEPT ![r] = [pc |-> "read", server |-> s, ver |-> None, at |-> 0]]
  /\ UNCHANGED <<world, verFile>>

Answer(r, v) == ask' = [ask EXCEPT ![r].pc = "answered", ![r].ver = v]

\* Variant: a version that was read once is believed for ever.
ReadForever(r) ==
  /\ ask[r].pc = "read"
  /\ IF verFile.form = "whole" THEN Answer(r, verFile.ver) ELSE Goto(r, "fetch")
  /\ UNCHANGED <<world, verFile>>

\* Variant: the error of json.Unmarshal is dropped.
ReadUnchecked(r) ==
  /\ ask[r].pc = "read"
  /\ IF verFile.form # Absent THEN Answer(r, verFile.ver) ELSE Goto(r, "fetch")
  /\ UNCHANGED <<world, verFile>>

\* readCachedVersion: an unreadable, unparseable or expired file is a miss.
ReadCachedVersion(r) ==
  /\ ask[r].pc = "read"
  /\ \/ /\ verFile.form = "whole" /\ clock - verFile.at <= TTL
        /\ Answer(r, verFile.ver)
     \/ Goto(r, "fetch")
  /\ UNCHANGED <<world, verFile>>

\* GET /version.
FetchVersion(r) ==
  /\ ask[r].pc = "fetch"
  /\ \/ ask' = [ask EXCEPT ![r].pc = "stamp", ![r].at = clock,
                           ![r].ver = build[ask[r].server]]
     \/ Goto(r, "failed")
  /\ UNCHANGED <<world, verFile>>

\* writeCachedVersion makes the directory and stamps the version; its errors
\* are ignored, here and in the next two steps.
StampVersion(r) ==
  /\ ask[r].pc = "stamp"
  /\ \/ ask' = [ask EXCEPT ![r].pc = "truncate", ![r].at = clock]
     \/ Goto(r, "answered")
  /\ UNCHANGED <<world, verFile>>

\* os.WriteFile first empties the file ...
TruncateVersionFile(r) ==
  /\ ask[r].pc = "truncate"
  /\ \/ verFile' = TornVersion /\ Goto(r, "write")
     \/ UNCHANGED verFile /\ Goto(r, "answered")
  /\ UNCHANGED world

\* Variant: the stamp is taken when the file is written.
WriteStampedNow(r) ==
  /\ ask[r].pc = "write"
  /\ verFile' \in {Stamped(clock, ask[r].ver), TornVersion}
  /\ Goto(r, "answered")
  /\ UNCHANGED world

\* ... then writes it; a short write, or what is left of the longer text of
\* another writer, does not parse.
WriteVersionFile(r) ==
  /\ ask[r].pc = "write"
  /\ verFile' \in {Stamped(ask[r].at, ask[r].ver), TornVersion}
  /\ Goto(r, "answered")
  /\ UNCHANGED world

VersionStep(r) ==
  \/ ReadCachedVersion(r) \/ FetchVersion(r) \/ StampVersion(r)
  \/ TruncateVersionFile(r) \/ WriteVersionFile(r)

\* The caller has its answer, or its process is killed: the file stays as it is.
Leave(r) ==
  /\ ask[r].pc # "idle"
  /\ ask' = [ask EXCEPT ![r] = NoAsk]
  /\ UNCHANGED <<world, verFile>>

----------------------------------------------------------------------------
(* The world around *)

\* No tick while a version has waited Lag ticks for its stamp.
Tick ==
  /\ clock < MaxClock
  /\ \A r \in Runs : ask[r].pc = "stamp" => clock - ask[r].at < Lag
  /\ clock' = clock + 1
  /\ UNCHANGED <<build, served, retired, verFile, ask>>

Upgrade(s) ==
  \E b \in Builds \ {build[s]} :
    /\ build' = [build EXCEPT ![s] = b]
    /\ served' = [served EXCEPT ![s] = @ \cup {b}]
    /\ retired' = [retired EXCEPT ![build[s]] = {clock}]
    /\ UNCHANGED <<clock, verFile, ask>>

----------------------------------------------------------------------------

VersionNext ==
  \/ \E r \in Runs : (\E s \in Servers : Ask(r, s)) \/ VersionStep(r) \/ Leave(r)
  \/ Tick
  \/ \E s \in Servers : Upgrade(s)

VersionSpec == VersionInit /\ [][VersionNext]_versionVars

----------------------------------------------------------------------------
(* Properties *)

\* Some server runs v, or did until at most d ticks before t.
LiveWithin(v, t, d) ==
  (\E s \in Servers : build[s] = v) \/ \E u \in retired[v] : t <= u + d

\* The version a caller takes up is one that no server gave up more than
\* TTL + Lag ago, however the writers of server_version.json interleave and
\* wherever they are killed (versionTTL, cache.go:175-178).
VersionsAreFresh ==
  [][\A r \in Runs : LET v == ask'[r].ver IN
       v \notin {None, ask[r].ver} => LiveWithin(v, clock, TTL + Lag)]_versionVars

\* cache.go:187: ServerVersion returns the version of the server it is asked
\* about: one this server has run.
VersionIsTheServers ==
  \A r \in Runs : ask[r].pc = "answered" => ask[r].ver \in served[ask[r].server]

----------------------------------------------------------------------------
(* The inductive invariant: how old what is written or about to be can be. *)

FileIsGenuine ==
  verFile.form = "whole" =>
    verFile.at <= clock /\ LiveWithin(verFile.ver, verFile.at, Lag)

AskIsGenuine(a) ==
  /\ a.at <= clock
  /\ a.pc # "idle" => a.server \in Servers
  /\ a.pc \in {"stamp", "truncate", "write", "answered"} => a.ver \in Builds
  /\ a.pc = "stamp" => LiveWithin(a.ver, a.at, 0) /\ clock <= a.at + Lag
  /\ a.pc \in {"truncate", "write"} => LiveWithin(a.ver, a.at, Lag)

AsksAreGenuine == \A r \in Runs : AskIsGenuine(ask[r])

VersionInv == VersionTypeOK /\ FileIsGenuine /\ AsksAreGenuine
=============================================================================
