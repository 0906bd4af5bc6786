---------------------------- MODULE AtomicCache ----------------------------
(***************************************************************************)
(* What cache.go promises of a Cache (the interface at cache.go:19-26 and  *)
(* the comment on FileCache.Put): a map from keys to responses on which    *)
(* every Get and every Put takes effect at one instant between its call    *)
(* and its return, whatever the other goroutines and processes do.  A Put  *)
(* that reports an error has had no effect; a Get reports a whole response *)
(* that some Put stored, a miss, or an error, and never a mixture.         *)
(*                                                                         *)
(* FileCache.tla is the code; it is shown to implement this module.        *)
(***************************************************************************)

CONSTANTS
  Clients,    \* callers: goroutines of one docli process or of several
  Keys,       \* cache keys (CacheKey digests)
  Responses   \* ConvertResponse payloads

None   == "none"    \* no value yet
Absent == "absent"  \* no entry under the key; as a result, a miss
Torn   == "torn"    \* an entry that does not decode
Failed == "failed"  \* the call returned an error
Stored == "stored"  \* Put returned nil

VARIABLES
  store,      \* store[k]: what a reader of k finds
  call        \* call[c]: the call client c has in flight

vars == <<store, call>>

Contents == Responses \cup {Absent, Torn}

IdleCall     == [op |-> "idle", key |-> None, val |-> None, res |-> None]
NewGet(k)    == [op |-> "get",  key |-> k,    val |-> None, res |-> None]
NewPut(k, v) == [op |-> "put",  key |-> k,    val |-> v,    res |-> None]

\* A cache directory may hold entries of earlier runs, unreadable ones among
\* them; no call is in flight.
Init ==
  /\ store \in [Keys -> Contents]
  /\ call = [c \in Clients |-> IdleCall]

\* What a Get of an entry with this content reports.
Outcome(content) == IF content = Torn THEN Failed ELSE content

Invoke(c) ==
  /\ call[c].op = "idle"
  /\ \E k \in Keys :
       \/ call' = [call EXCEPT ![c] = NewGet(k)]
       \/ \E v \in Responses : call' = [call EXCEPT ![c] = NewPut(k, v)]
  /\ UNCHANGED store

\* The instant at which a Put replaces the entry.
TakeEffect(c) ==
  /\ call[c].op = "put" /\ call[c].res = None
  /\ store' = [store EXCEPT ![call[c].key] = call[c].val]
  /\ call' = [call EXCEPT ![c].res = Stored]

\* The instant at which a Get sees the entry.
Observe(c) ==
  /\ call[c].op = "get" /\ call[c].res = None
  /\ call' = [call EXCEPT ![c].res = Outcome(store[call[c].key])]
  /\ UNCHANGED store

\* A Get may fail until it returns, a Put only before it takes effect.
Fail(c) ==
  /\ \/ call[c].op = "get"
     \/ call[c].op = "put" /\ call[c].res = None
  /\ call' = [call EXCEPT ![c].res = Failed]
  /\ UNCHANGED store

Return(c) ==
  /\ call[c].res # None
  /\ call' = [call EXCEPT ![c] = IdleCall]
  /\ UNCHANGED store

\* The calling process dies: the call never returns.
Crash(c) ==
  /\ call[c].op # "idle"
  /\ call' = [call EXCEPT ![c] = IdleCall]
  /\ UNCHANGED store

\* README.md "Caching": a namespace may be pruned by hand at any time.
Prune(k) ==
  /\ store[k] # Absent
  /\ store' = [store EXCEPT ![k] = Absent]
  /\ UNCHANGED call

Next ==
  \/ \E c \in Clients :
       Invoke(c) \/ TakeEffect(c) \/ Observe(c) \/ Fail(c) \/ Return(c) \/ Crash(c)
  \/ \E k \in Keys : Prune(k)

Spec == Init /\ [][Next]_vars
=============================================================================
