------------------------ MODULE ServerVersion_proofs ------------------------
(***************************************************************************)
(* Proof that a version taken from server_version.json is never older than *)
(* TTL + Lag, for any number of processes, servers, builds and ticks.      *)
(*                                                                         *)
(* The invariant follows a version from the answer of the server through   *)
(* its stamp to the file: the stamp is at most Lag late, and a server that *)
(* gives the build up later only moves the time it was given up forward.   *)
(***************************************************************************)
EXTENDS ServerVersion, TLAPS

\* Time passing and upgrades never make what was live before t less so.
LEMMA LiveWithinKept ==
  ASSUME VersionTypeOK, NEW s \in Servers, Upgrade(s), NEW v \in Builds,
         NEW t \in Int, NEW d \in Nat, t <= clock, LiveWithin(v, t, d)
  PROVE  LiveWithin(v, t, d)'
<1> USE DEF VersionTypeOK
<1>1. PICK b \in Builds \ {build[s]} :
        /\ build' = [build EXCEPT ![s] = b]
        /\ retired' = [retired EXCEPT ![build[s]] = {clock}]
  BY DEF Upgrade
<1>2. clock \in Int /\ retired'[build[s]] = {clock} /\ t <= clock + d
  BY <1>1, ClockAssumption
<1>3. CASE v = build[s]
  BY <1>2, <1>3 DEF LiveWithin
<1>4. CASE v # build[s]
  <2>1. retired'[v] = retired[v]
    BY <1>1, <1>4
  <2>2. ASSUME NEW z \in Servers, build[z] = v PROVE build'[z] = v
    BY <1>1, <1>4, <2>2
  <2> QED
    BY <2>1, <2>2 DEF LiveWithin
<1> QED
  BY <1>3, <1>4

\* A version that is live, or was within d ticks of t, is within e of u if u is
\* at most e - d later than t.
LEMMA LiveWithinWeaker ==
  ASSUME VersionTypeOK, NEW v \in Builds, NEW t \in Int, NEW u \in Int,
         NEW d \in Int, NEW e \in Int, u - t <= e - d, LiveWithin(v, t, d)
  PROVE  LiveWithin(v, u, e)
<1>1. retired[v] \subseteq Int
  BY DEF VersionTypeOK
<1> QED
  BY <1>1 DEF LiveWithin

LEMMA InitVersionInv == VersionInit => VersionInv
<1> SUFFICES ASSUME VersionInit PROVE VersionInv
  OBVIOUS
<1>1. VersionTypeOK
  BY ClockAssumption
     DEF VersionInit, VersionTypeOK, VersionFiles, Asks, NoAsk
<1>2. FileIsGenuine
  BY NamesAssumption DEF VersionInit, FileIsGenuine, NoVersion, TornVersion
<1>3. AsksAreGenuine
  <2>1. AskIsGenuine(NoAsk)
    BY DEF VersionInit, AskIsGenuine, NoAsk
  <2> QED
    BY <2>1 DEF VersionInit, AsksAreGenuine
<1> QED
  BY <1>1, <1>2, <1>3 DEF VersionInv

----------------------------------------------------------------------------
(* The steps of a call change the file and one call, nothing else. *)

LEMMA CallStep ==
  ASSUME VersionInv, UNCHANGED world, NEW r \in Runs, NEW a \in Asks,
         ask' = [ask EXCEPT ![r] = a], AskIsGenuine(a)
  PROVE  ask' \in [Runs -> Asks] /\ AsksAreGenuine'
<1>1. \A v, t, d : LiveWithin(v, t, d)' <=> LiveWithin(v, t, d)
  BY DEF LiveWithin, world
<1>2. \A q \in Runs : AskIsGenuine(ask'[q])
  BY DEF VersionInv, VersionTypeOK, AsksAreGenuine
<1>3. \A q \in Runs : AskIsGenuine(ask[q])'
  BY <1>1, <1>2 DEF AskIsGenuine, world
<1> QED
  BY <1>3 DEF AsksAreGenuine, VersionInv, VersionTypeOK

\* Goto changes nothing but the place.
LEMMA GotoAsk ==
  ASSUME VersionTypeOK, NEW r \in Runs,
         NEW step \in {"fetch", "write", "answered", "failed"}, Goto(r, step)
  PROVE  \E a \in Asks :
           /\ ask' = [ask EXCEPT ![r] = a]
           /\ a.pc = step /\ a.server = ask[r].server
           /\ a.ver = ask[r].ver /\ a.at = ask[r].at
<1> DEFINE a == [ask[r] EXCEPT !.pc = step]
<1>1. ask[r] \in Asks
  BY DEF VersionTypeOK
<1>2. a \in Asks /\ a.pc = step /\ a.server = ask[r].server
      /\ a.ver = ask[r].ver /\ a.at = ask[r].at
  BY <1>1 DEF Asks
<1>3. ask' = [ask EXCEPT ![r] = a]
  BY DEF Goto, VersionTypeOK
<1> QED
  BY <1>2, <1>3

\* A call that takes such a step keeps the invariant if its version is known.
LEMMA GotoStep ==
  ASSUME VersionInv, UNCHANGED world, NEW r \in Runs,
         NEW step \in {"fetch", "write", "answered", "failed"}, Goto(r, step),
         ask[r].pc # "idle",
         step = "answered" => ask[r].ver \in Builds,
         step = "write" => ask[r].pc = "truncate"
  PROVE  ask' \in [Runs -> Asks] /\ AsksAreGenuine'
<1>1. PICK a \in Asks :
        /\ ask' = [ask EXCEPT ![r] = a]
        /\ a.pc = step /\ a.server = ask[r].server
        /\ a.ver = ask[r].ver /\ a.at = ask[r].at
  BY GotoAsk DEF VersionInv
<1>2. AskIsGenuine(ask[r])
  BY DEF VersionInv, AsksAreGenuine
<1>3. AskIsGenuine(a)
  BY <1>1, <1>2 DEF AskIsGenuine
<1> QED
  BY <1>1, <1>3, CallStep

LEMMA FileKept ==
  ASSUME VersionInv, UNCHANGED <<world, verFile>>
  PROVE  FileIsGenuine'
BY DEF VersionInv, FileIsGenuine, LiveWithin, world

LEMMA VersionStepInv ==
  ASSUME VersionInv, NEW r \in Runs,
         (\E s \in Servers : Ask(r, s)) \/ VersionStep(r) \/ Leave(r)
  PROVE  VersionInv'
<1>0. /\ VersionTypeOK /\ AskIsGenuine(ask[r]) /\ ask[r] \in Asks
      /\ UNCHANGED world
  BY DEF VersionInv, VersionTypeOK, AsksAreGenuine, Ask, VersionStep, Leave,
         ReadCachedVersion, FetchVersion, StampVersion, TruncateVersionFile,
         WriteVersionFile
<1>1. SUFFICES /\ ask' \in [Runs -> Asks] /\ AsksAreGenuine'
               /\ verFile' \in VersionFiles /\ FileIsGenuine'
  BY <1>0 DEF VersionInv, VersionTypeOK, world
<1>2. ASSUME NEW s \in Servers, Ask(r, s)
      PROVE  ask' \in [Runs -> Asks] /\ AsksAreGenuine' /\ UNCHANGED verFile
  <2> DEFINE a == [pc |-> "read", server |-> s, ver |-> None, at |-> 0]
  <2>1. a \in Asks /\ AskIsGenuine(a)
    BY <1>0, ClockAssumption DEF Asks, AskIsGenuine, VersionTypeOK
  <2> QED
    BY <1>0, <1>2, <2>1, CallStep DEF Ask
<1>3. CASE ReadCachedVersion(r)
  <2>1. CASE Goto(r, "fetch")
    BY <1>0, <1>3, <2>1, GotoStep, FileKept DEF ReadCachedVersion, VersionTypeOK
  <2>2. CASE verFile.form = "whole" /\ Answer(r, verFile.ver)
    <3> DEFINE a == [ask[r] EXCEPT !.pc = "answered", !.ver = verFile.ver]
    <3>1. verFile.ver \in Builds
      BY <1>0, <2>2, NamesAssumption
         DEF VersionTypeOK, VersionFiles, NoVersion, TornVersion
    <3>2. a \in Asks /\ AskIsGenuine(a)
      BY <1>0, <1>3, <3>1 DEF Asks, AskIsGenuine, ReadCachedVersion
    <3>3. ask' = [ask EXCEPT ![r] = a]
      BY <1>0, <2>2 DEF Answer, VersionTypeOK
    <3> QED
      BY <1>0, <1>3, <3>2, <3>3, CallStep, FileKept DEF ReadCachedVersion, VersionTypeOK
  <2> QED
    BY <1>3, <2>1, <2>2 DEF ReadCachedVersion
<1>4. CASE FetchVersion(r)
  <2>1. CASE Goto(r, "failed")
    BY <1>0, <1>4, <2>1, GotoStep, FileKept DEF FetchVersion, VersionTypeOK
  <2>2. CASE ask' = [ask EXCEPT ![r].pc = "stamp", ![r].at = clock,
                                ![r].ver = build[ask[r].server]]
    <3> DEFINE a == [ask[r] EXCEPT !.pc = "stamp", !.at = clock,
                                   !.ver = build[ask[r].server]]
    <3>1. ask[r].server \in Servers /\ build[ask[r].server] \in Builds
      BY <1>0, <1>4 DEF FetchVersion, AskIsGenuine, VersionTypeOK
    <3>2. a \in Asks
      BY <1>0, <3>1 DEF Asks, VersionTypeOK
    <3>3. /\ a.pc = "stamp" /\ a.at = clock /\ a.ver = build[ask[r].server]
          /\ a.server = ask[r].server
      BY <1>0 DEF Asks
    <3>4. LiveWithin(a.ver, a.at, 0)
      BY <3>1, <3>3 DEF LiveWithin
    <3>5. AskIsGenuine(a)
      BY <1>0, <3>1, <3>3, <3>4, ClockAssumption DEF AskIsGenuine, VersionTypeOK
    <3>6. ask' = [ask EXCEPT ![r] = a]
      BY <1>0, <2>2 DEF VersionTypeOK
    <3> QED
      BY <1>0, <1>4, <3>2, <3>5, <3>6, CallStep, FileKept DEF FetchVersion, VersionTypeOK
  <2> QED
    BY <1>4, <2>1, <2>2 DEF FetchVersion
<1>5. CASE StampVersion(r)
  <2>0. ask[r].ver \in Builds /\ ask[r].pc = "stamp"
    BY <1>0, <1>5 DEF StampVersion, AskIsGenuine
  <2>1. CASE Goto(r, "answered")
    BY <1>0, <1>5, <2>0, <2>1, GotoStep, FileKept DEF StampVersion, VersionTypeOK
  <2>2. CASE ask' = [ask EXCEPT ![r].pc = "truncate", ![r].at = clock]
    <3> DEFINE a == [ask[r] EXCEPT !.pc = "truncate", !.at = clock]
    <3>1. /\ a \in Asks /\ a.pc = "truncate" /\ a.at = clock
          /\ a.ver = ask[r].ver /\ a.server = ask[r].server
      BY <1>0 DEF Asks, VersionTypeOK
    <3>2. /\ clock \in Int /\ ask[r].at \in Int
          /\ clock - ask[r].at <= Lag /\ LiveWithin(ask[r].ver, ask[r].at, 0)
      BY <1>0, <2>0, ClockAssumption DEF AskIsGenuine, VersionTypeOK, Asks
    <3>3. LiveWithin(a.ver, a.at, Lag)
      BY <1>0, <2>0, <3>1, <3>2, LiveWithinWeaker, ClockAssumption
    <3>4. AskIsGenuine(a)
      BY <1>0, <2>0, <3>1, <3>2, <3>3 DEF AskIsGenuine
    <3>5. ask' = [ask EXCEPT ![r] = a]
      BY <1>0, <2>2 DEF VersionTypeOK
    <3> QED
      BY <1>0, <1>5, <3>1, <3>4, <3>5, CallStep, FileKept DEF StampVersion, VersionTypeOK
  <2> QED
    BY <1>5, <2>1, <2>2 DEF StampVersion
<1>6. CASE TruncateVersionFile(r)
  <2>0. ask[r].ver \in Builds /\ ask[r].pc = "truncate"
    BY <1>0, <1>6 DEF TruncateVersionFile, AskIsGenuine
  <2>1. ask' \in [Runs -> Asks] /\ AsksAreGenuine'
    BY <1>0, <1>6, <2>0, GotoStep DEF TruncateVersionFile
  <2>2. CASE UNCHANGED verFile
    BY <1>0, <2>1, <2>2, FileKept DEF VersionTypeOK
  <2>3. CASE verFile' = TornVersion
    BY <2>1, <2>3, NamesAssumption DEF VersionFiles, FileIsGenuine, TornVersion
  <2> QED
    BY <1>6, <2>2, <2>3 DEF TruncateVersionFile
<1>7. CASE WriteVersionFile(r)
  <2>0. /\ ask[r].ver \in Builds /\ ask[r].at \in 0 .. MaxClock
        /\ ask[r].at <= clock /\ LiveWithin(ask[r].ver, ask[r].at, Lag)
        /\ ask[r].pc = "write"
    BY <1>0, <1>7 DEF WriteVersionFile, AskIsGenuine, Asks
  <2>1. ask' \in [Runs -> Asks] /\ AsksAreGenuine'
    BY <1>0, <1>7, <2>0, GotoStep DEF WriteVersionFile
  <2>2. CASE verFile' = Stamped(ask[r].at, ask[r].ver)
    <3>1. /\ verFile'.form = "whole" /\ verFile'.at = ask[r].at
          /\ verFile'.ver = ask[r].ver /\ verFile' \in VersionFiles
      BY <2>0, <2>2 DEF Stamped, VersionFiles
    <3>2. FileIsGenuine'
      BY <1>0, <2>0, <3>1 DEF FileIsGenuine, LiveWithin, world
    <3> QED
      BY <2>1, <3>1, <3>2
  <2>3. CASE verFile' = TornVersion
    BY <2>1, <2>3, NamesAssumption DEF VersionFiles, FileIsGenuine, TornVersion
  <2> QED
    BY <1>7, <2>2, <2>3 DEF WriteVersionFile
<1>8. CASE Leave(r)
  <2>1. NoAsk \in Asks /\ AskIsGenuine(NoAsk)
    BY <1>0, ClockAssumption DEF NoAsk, Asks, AskIsGenuine, VersionTypeOK
  <2> QED
    BY <1>0, <1>8, <2>1, CallStep, FileKept DEF Leave, VersionTypeOK
<1> QED
  BY <1>0, <1>2, <1>3, <1>4, <1>5, <1>6, <1>7, <1>8, FileKept
     DEF VersionStep, VersionTypeOK, Ask

----------------------------------------------------------------------------
(* Time and upgrades *)

LEMMA TickInv == ASSUME VersionInv, Tick PROVE VersionInv'
<1>0. /\ VersionTypeOK /\ clock \in Int /\ clock' = clock + 1 /\ clock' \in 0 .. MaxClock
      /\ UNCHANGED <<build, served, retired, verFile, ask>>
  BY ClockAssumption DEF VersionInv, VersionTypeOK, Tick
<1>1. \A v, t, d : LiveWithin(v, t, d)' <=> LiveWithin(v, t, d)
  BY <1>0 DEF LiveWithin
<1>2. VersionTypeOK'
  BY <1>0 DEF VersionTypeOK
<1>3. FileIsGenuine'
  <2>1. verFile.form = "whole" => verFile.at \in Int
    BY <1>0, NamesAssumption DEF VersionTypeOK, VersionFiles, NoVersion, TornVersion
  <2> QED
    BY <1>0, <1>1, <2>1 DEF VersionInv, FileIsGenuine
<1>4. ASSUME NEW r \in Runs PROVE AskIsGenuine(ask[r])'
  <2>1. AskIsGenuine(ask[r]) /\ ask[r].at \in Int
    BY <1>0 DEF VersionInv, AsksAreGenuine, VersionTypeOK, Asks
  <2>2. ask[r].pc = "stamp" => clock - ask[r].at < Lag
    BY DEF Tick
  <2> QED
    BY <1>0, <1>1, <2>1, <2>2, ClockAssumption DEF AskIsGenuine
<1> QED
  BY <1>2, <1>3, <1>4 DEF VersionInv, AsksAreGenuine

LEMMA UpgradeInv ==
  ASSUME VersionInv, NEW s \in Servers, Upgrade(s) PROVE VersionInv'
<1>0. VersionTypeOK /\ UNCHANGED <<clock, verFile, ask>> /\ clock \in Int
  BY ClockAssumption DEF VersionInv, VersionTypeOK, Upgrade
<1>1. VersionTypeOK'
  BY <1>0 DEF VersionTypeOK, Upgrade
<1>2. FileIsGenuine'
  <2>1. verFile.form = "whole" => verFile.at \in Int /\ verFile.ver \in Builds
    BY <1>0, NamesAssumption DEF VersionTypeOK, VersionFiles, NoVersion, TornVersion
  <2>2. CASE verFile.form = "whole"
    <3>1. verFile.at <= clock /\ LiveWithin(verFile.ver, verFile.at, Lag)
      BY <2>2 DEF VersionInv, FileIsGenuine
    <3>2. LiveWithin(verFile.ver, verFile.at, Lag)'
      <4>1. ASSUME NEW v \in Builds, NEW t \in Int, t <= clock, LiveWithin(v, t, Lag)
            PROVE  LiveWithin(v, t, Lag)'
        BY <1>0, <4>1, LiveWithinKept, ClockAssumption
      <4>2. verFile.ver = verFile'.ver /\ verFile.at = verFile'.at
        BY <1>0
      <4> QED
        BY <2>1, <2>2, <3>1, <4>1, <4>2 DEF LiveWithin
    <3> QED
      BY <1>0, <3>1, <3>2 DEF FileIsGenuine
  <2> QED
    BY <1>0, <2>2 DEF FileIsGenuine
<1>3. ASSUME NEW r \in Runs PROVE AskIsGenuine(ask[r])'
  <2>1. AskIsGenuine(ask[r]) /\ ask[r].at \in Int /\ ask[r].at <= clock
    BY <1>0 DEF VersionInv, AsksAreGenuine, VersionTypeOK, Asks, AskIsGenuine
  <2>2. ASSUME NEW v \in Builds, NEW t \in Int, NEW d \in Nat,
               t <= clock, LiveWithin(v, t, d)
        PROVE  LiveWithin(v, t, d)'
    BY <1>0, <2>2, LiveWithinKept
  <2>3. ask'[r] = ask[r] /\ clock' = clock
    BY <1>0
  <2>4. ask[r].pc = "stamp" => LiveWithin(ask[r].ver, ask[r].at, 0)'
    <3>1. CASE ask[r].pc = "stamp"
      <4>1. ask[r].ver \in Builds /\ LiveWithin(ask[r].ver, ask[r].at, 0)
        BY <2>1, <3>1 DEF AskIsGenuine
      <4> QED
        BY <2>1, <2>2, <2>3, <4>1 DEF LiveWithin
    <3> QED
      BY <3>1
  <2>5. ask[r].pc \in {"truncate", "write"} => LiveWithin(ask[r].ver, ask[r].at, Lag)'
    <3>1. CASE ask[r].pc \in {"truncate", "write"}
      <4>1. ask[r].ver \in Builds /\ LiveWithin(ask[r].ver, ask[r].at, Lag)
        BY <2>1, <3>1 DEF AskIsGenuine
      <4> QED
        BY <2>1, <2>2, <2>3, <4>1, ClockAssumption DEF LiveWithin
    <3> QED
      BY <3>1
  <2> QED
    BY <2>1, <2>3, <2>4, <2>5 DEF AskIsGenuine
<1> QED
  BY <1>1, <1>2, <1>3 DEF VersionInv, AsksAreGenuine

----------------------------------------------------------------------------
(* The theorems *)

\* No step, of a call, of the clock or of a server, breaks the invariant.
LEMMA VersionNextInv ==
  ASSUME VersionInv, [VersionNext]_versionVars PROVE VersionInv'
<1>1. CASE UNCHANGED versionVars
  BY <1>1 DEF versionVars, VersionInv, VersionTypeOK, FileIsGenuine,
              AsksAreGenuine, AskIsGenuine, LiveWithin
<1> QED
  BY <1>1, VersionStepInv, TickInv, UpgradeInv DEF VersionNext

LEMMA VersionInvariance == VersionSpec => []VersionInv
<1>1. VersionInit => VersionInv
  BY InitVersionInv
<1>2. VersionInv /\ [VersionNext]_versionVars => VersionInv'
  BY VersionNextInv
<1> QED
  BY <1>1, <1>2, PTL DEF VersionSpec

\* The file and the calls of ServerVersion are well-typed: nothing that did not
\* parse is ever taken for a version (readCachedVersion, cache.go:207-220).
THEOREM VersionTypeCorrect == VersionSpec => []VersionTypeOK
<1>1. VersionInv => VersionTypeOK
  BY DEF VersionInv
<1> QED
  BY <1>1, VersionInvariance, PTL

\* A version a call takes up is fresh: it comes from a file of at most TTL ticks that
\* was written at most Lag ticks late, or from the server.
LEMMA TakenUpIsFresh ==
  ASSUME VersionInv, [VersionNext]_versionVars, NEW r \in Runs,
         ask'[r].ver \notin {None, ask[r].ver}
  PROVE  LiveWithin(ask'[r].ver, clock, TTL + Lag)
<1>0. /\ VersionTypeOK /\ ask \in [Runs -> Asks] /\ clock \in Int
      /\ AskIsGenuine(ask[r])
  BY ClockAssumption DEF VersionInv, VersionTypeOK, AsksAreGenuine
<1>1. \/ ReadCachedVersion(r) /\ verFile.form = "whole"
         /\ clock - verFile.at <= TTL /\ Answer(r, verFile.ver)
      \/ FetchVersion(r) /\ ask'[r].ver = build[ask[r].server]
  <2>1. ASSUME NEW q \in Runs,
               StampVersion(q) \/ TruncateVersionFile(q) \/ WriteVersionFile(q)
                 \/ Leave(q) \/ (\E s \in Servers : Ask(q, s))
        PROVE  ask'[r].ver \in {None, ask[r].ver}
    BY <1>0, <2>1 DEF StampVersion, TruncateVersionFile, WriteVersionFile, Leave, Ask,
                      Goto, NoAsk, Asks
  <2>2. ASSUME NEW q \in Runs, ReadCachedVersion(q) PROVE
          \/ ask'[r].ver = ask[r].ver
          \/ q = r /\ verFile.form = "whole" /\ clock - verFile.at <= TTL
             /\ Answer(r, verFile.ver)
    BY <1>0, <2>2 DEF ReadCachedVersion, Answer, Goto, Asks
  <2>3. ASSUME NEW q \in Runs, FetchVersion(q) PROVE
          \/ ask'[r].ver = ask[r].ver
          \/ q = r /\ ask'[r].ver = build[ask[r].server]
    BY <1>0, <2>3 DEF FetchVersion, Goto, Asks
  <2>4. CASE Tick \/ (\E s \in Servers : Upgrade(s)) \/ UNCHANGED versionVars
    BY <2>4 DEF Tick, Upgrade, versionVars
  <2> QED
    BY <2>1, <2>2, <2>3, <2>4 DEF VersionNext, VersionStep
<1>2. CASE FetchVersion(r) /\ ask'[r].ver = build[ask[r].server]
  BY <1>0, <1>2 DEF FetchVersion, AskIsGenuine, LiveWithin
<1>3. CASE /\ verFile.form = "whole" /\ clock - verFile.at <= TTL
           /\ Answer(r, verFile.ver)
  <2>1. ask'[r].ver = verFile.ver
    BY <1>0, <1>3 DEF Answer, Asks
  <2>2. verFile.ver \in Builds /\ verFile.at \in Int
    BY <1>0, <1>3, NamesAssumption
       DEF VersionTypeOK, VersionFiles, NoVersion, TornVersion
  <2>3. LiveWithin(verFile.ver, verFile.at, Lag)
    BY <1>3 DEF VersionInv, FileIsGenuine
  <2>4. Lag \in Int /\ TTL + Lag \in Int /\ clock - verFile.at <= (TTL + Lag) - Lag
    BY <1>0, <1>3, <2>2, ClockAssumption
  <2> QED
    BY <1>0, <2>1, <2>2, <2>3, <2>4, LiveWithinWeaker
<1> QED
  BY <1>1, <1>2, <1>3

\* ServerVersion never hands out a version that no server has run for more than
\* TTL + Lag, for every number of processes racing on the file (cache.go:191-231).
THEOREM VersionsStayFresh == VersionSpec => VersionsAreFresh
<1>1. VersionInv /\ [VersionNext]_versionVars =>
        [\A r \in Runs : LET v == ask'[r].ver IN
           v \notin {None, ask[r].ver} => LiveWithin(v, clock, TTL + Lag)]_versionVars
  BY TakenUpIsFresh
<1> QED
  BY <1>1, VersionInvariance, PTL DEF VersionSpec, VersionsAreFresh
=============================================================================
