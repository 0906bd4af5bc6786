----------------------------- MODULE FileCache -----------------------------
(***************************************************************************)
(* FileCache (cache.go): one namespace directory <Root>/<Version> shared   *)
(* by every goroutine and every docli process that uses it.  The steps of  *)
(* Get and Put are the system calls they make; between two of them any     *)
(* other caller may run, the caller may be killed, and somebody may prune  *)
(* the directory (README.md "Caching": rm -rf <cache>/<hash>/).            *)
(*                                                                         *)
(* A file is an inode: it lives as long as a name or an open descriptor    *)
(* refers to it.  A final name <key>.json.zst is entry[key]; the names     *)
(* .tmp-*.zst that os.CreateTemp makes are unique, so temps is simply the  *)
(* set of the files that have one.                                         *)
(***************************************************************************)
EXTENDS Naturals

CONSTANTS
  Clients,    \* callers: goroutines of one docli process or of several
  Keys,       \* cache keys
  Responses,  \* ConvertResponse payloads
  Files       \* inodes the file system can hold at a time

None   == "none"
Absent == "absent"
Torn   == "torn"
Failed == "failed"
Stored == "stored"
NoFile == "nofile"

ASSUME ResponsesAssumption ==
  Responses \cap {None, Absent, Torn, Failed, Stored} = {}

ASSUME FilesAssumption == NoFile \notin Files

VARIABLES
  made,       \* the namespace directory exists
  entry,      \* entry[k]: the file named <k>.json.zst, or NoFile
  temps,      \* the files that have a temporary name in the directory
  data,       \* data[f]: what is written in file f
  call,       \* call[c]: the Get or Put client c is executing, and how far
  orphans     \* history: temporary files whose Put is over, by a kill or a
              \* failed rename

vars == <<made, entry, temps, data, call, orphans>>

----------------------------------------------------------------------------
(* Files *)

Results == Responses \cup {Absent, Failed, Stored}

\* The bytes of a file: nothing, a prefix of an encoded response, all of it,
\* or something that does not decode (left by a power loss: Put does not sync).
Blank    == [form |-> "blank", resp |-> None]
Part(v)  == [form |-> "part",  resp |-> v]
Whole(v) == [form |-> "whole", resp |-> v]
TornData == [form |-> "torn",  resp |-> Torn]

Data == {Blank, TornData} \cup UNION {{Part(v), Whole(v)} : v \in Responses}

\* Variant: Get forgets the error of the decoder.
DecodedUnchecked(d) == d.resp

\* Decoding succeeds on a complete zstd stream only.
Decoded(d) == IF d.form = "whole" THEN d.resp ELSE Failed

WriteSteps == {"encode", "finish", "close", "rename"}
PutSteps == {"create"} \cup WriteSteps
GetSteps == {"open", "decode"}
Steps    == PutSteps \cup GetSteps \cup {"idle", "return"}

IdleCall ==
  [op |-> "idle", pc |-> "idle", key |-> None, val |-> None,
   file |-> NoFile, res |-> None]
NewPut(k, v) ==
  [op |-> "put", pc |-> "create", key |-> k, val |-> v,
   file |-> NoFile, res |-> None]
NewGet(k) ==
  [op |-> "get", pc |-> "open", key |-> k, val |-> None,
   file |-> NoFile, res |-> None]

Calls == [op: {"idle", "get", "put"}, pc: Steps, key: Keys \cup {None},
          val: Responses \cup {None}, file: Files \cup {NoFile},
          res: Results \cup {None}]

\* The files nothing refers to any more.
Unused(f) ==
  /\ f \notin temps
  /\ \A k \in Keys : entry[k] # f
  /\ \A c \in Clients : call[c].file # f

----------------------------------------------------------------------------
(* What an earlier boot left in the directory: whole entries, entries the  *)
(* power loss tore, temporary files of killed Puts.                        *)

Init ==
  /\ made \in BOOLEAN
  /\ entry \in [Keys -> Files \cup {NoFile}]
  /\ \A j, k \in Keys : entry[j] = entry[k] /\ entry[j] # NoFile => j = k
  /\ temps \in SUBSET Files
  /\ \A k \in Keys : entry[k] \notin temps
  /\ ~made => temps = {} /\ \A k \in Keys : entry[k] = NoFile
  /\ orphans = temps
  /\ data \in [Files -> {Blank, TornData} \cup {Whole(v) : v \in Responses}]
  /\ \A k \in Keys : entry[k] # NoFile => data[entry[k]] # Blank
  /\ \A f \in Files : (\A k \in Keys : entry[k] # f) => data[f] = Blank
  /\ call = [c \in Clients |-> IdleCall]

----------------------------------------------------------------------------
(* Steps that end a call *)

\* The call has its result; only its return is left.
Finish(c, result) ==
  call' = [call EXCEPT ![c].pc = "return", ![c].res = result, ![c].file = NoFile]

Goto(c, step) == call' = [call EXCEPT ![c].pc = step]

\* The cleanup closure of Put and os.Remove(tmpName): the temporary name goes.
\* A name that was pruned in the meantime is not an error.
Cleanup(c) == temps' = temps \ {call[c].file}

----------------------------------------------------------------------------
(* NewFileCache: MkdirAll of the namespace directory.                      *)

NewFileCache ==
  /\ ~made
  /\ made' = TRUE
  /\ UNCHANGED <<entry, temps, data, call, orphans>>

----------------------------------------------------------------------------
(* Put *)

PutCall(c) ==
  /\ call[c].pc = "idle"
  /\ \E k \in Keys, v \in Responses :
       call' = [call EXCEPT ![c] = NewPut(k, v)]
  /\ UNCHANGED <<made, entry, temps, data, orphans>>

\* What os.CreateTemp does on success: a new name on file f, and no other.
StartFile(c, f) ==
  /\ temps' = temps \cup {f}
  /\ data' = [data EXCEPT ![f] = Blank]
  /\ call' = [call EXCEPT ![c].pc = "encode", ![c].file = f]

\* Variant: a fixed temporary name, opened without O_EXCL.
CreateTempShared(c) ==
  /\ call[c].pc = "create" /\ made
  /\ \E f \in Files : (f \in temps \/ Unused(f)) /\ StartFile(c, f)
  /\ UNCHANGED <<made, entry, orphans>>

\* Variant: no temporary file, the final one is truncated and rewritten.
CreateTempInPlace(c) ==
  /\ call[c].pc = "create" /\ made
  /\ \E f \in Files :
       /\ IF entry[call[c].key] = NoFile THEN Unused(f) ELSE f = entry[call[c].key]
       /\ StartFile(c, f)
  /\ UNCHANGED <<made, entry, orphans>>

\* Variant: a temporary name that serves as a lock, waited for while it exists.
CreateTempLocked(c) ==
  /\ call[c].pc = "create" /\ made /\ temps = {}
  /\ \E f \in Files : Unused(f) /\ StartFile(c, f)
  /\ UNCHANGED <<made, entry, orphans>>

\* os.CreateTemp: fails when the directory is gone, or on any I/O error.
CreateTemp(c) ==
  /\ call[c].pc = "create"
  /\ \/ /\ made
        /\ \E f \in Files : Unused(f) /\ StartFile(c, f)
     \/ /\ Finish(c, Failed)
        /\ UNCHANGED <<temps, data>>
  /\ UNCHANGED <<made, entry, orphans>>

\* Variant: the encoder is not closed before the file is.
EncodeWithoutClose(c) ==
  /\ call[c].pc = "encode"
  /\ data' = [data EXCEPT ![call[c].file] = Part(call[c].val)]
  /\ Goto(c, "close")
  /\ UNCHANGED <<made, entry, temps, orphans>>

\* The encoder writes some blocks, or an error makes Put clean up.
Encode(c) ==
  /\ call[c].pc = "encode"
  /\ \/ /\ data' = [data EXCEPT ![call[c].file] = Part(call[c].val)]
        /\ Goto(c, "finish")
        /\ UNCHANGED temps
     \/ /\ Cleanup(c)
        /\ Finish(c, Failed)
        /\ UNCHANGED data
  /\ UNCHANGED <<made, entry, orphans>>

\* enc.Close writes the rest of the zstd stream.
CloseEncoder(c) ==
  /\ call[c].pc = "finish"
  /\ \/ /\ data' = [data EXCEPT ![call[c].file] = Whole(call[c].val)]
        /\ Goto(c, "close")
        /\ UNCHANGED temps
     \/ /\ Cleanup(c)
        /\ Finish(c, Failed)
        /\ UNCHANGED data
  /\ UNCHANGED <<made, entry, orphans>>

\* Variant: a failing Close returns without removing the file.
CloseTempLeaking(c) ==
  /\ call[c].pc = "close"
  /\ Goto(c, "rename") \/ Finish(c, Failed)
  /\ UNCHANGED <<made, entry, temps, data, orphans>>

CloseTemp(c) ==
  /\ call[c].pc = "close"
  /\ \/ /\ Goto(c, "rename")
        /\ UNCHANGED temps
     \/ /\ Cleanup(c)
        /\ Finish(c, Failed)
  /\ UNCHANGED <<made, entry, data, orphans>>

\* Variant: the error of os.Rename is dropped.
RenameUnchecked(c) ==
  /\ call[c].pc = "rename"
  /\ \/ /\ call[c].file \in temps
        /\ entry' = [entry EXCEPT ![call[c].key] = call[c].file]
        /\ temps' = temps \ {call[c].file}
        /\ UNCHANGED orphans
     \/ /\ orphans' = orphans \cup ({call[c].file} \cap temps)
        /\ UNCHANGED <<entry, temps>>
  /\ Finish(c, Stored)
  /\ UNCHANGED <<made, data>>

\* os.Rename replaces the final name in one step.  It fails when the temporary
\* name was pruned, or on an I/O error; Put then returns without a cleanup.
Rename(c) ==
  /\ call[c].pc = "rename"
  /\ \/ /\ call[c].file \in temps
        /\ entry' = [entry EXCEPT ![call[c].key] = call[c].file]
        /\ temps' = temps \ {call[c].file}
        /\ Finish(c, Stored)
        /\ UNCHANGED orphans
     \/ /\ orphans' = orphans \cup ({call[c].file} \cap temps)
        /\ Finish(c, Failed)
        /\ UNCHANGED <<entry, temps>>
  /\ UNCHANGED <<made, data>>

----------------------------------------------------------------------------
(* Get *)

GetCall(c) ==
  /\ call[c].pc = "idle"
  /\ \E k \in Keys :
       call' = [call EXCEPT ![c] = NewGet(k)]
  /\ UNCHANGED <<made, entry, temps, data, orphans>>

\* os.Open: the descriptor keeps the file, whatever happens to its name.
Open(c) ==
  /\ call[c].pc = "open"
  /\ \/ /\ entry[call[c].key] = NoFile
        /\ Finish(c, Absent)
     \/ /\ entry[call[c].key] # NoFile
        /\ call' = [call EXCEPT ![c].pc = "decode",
                                ![c].file = entry[call[c].key]]
     \/ Finish(c, Failed)
  /\ UNCHANGED <<made, entry, temps, data, orphans>>

Decode(c) ==
  /\ call[c].pc = "decode"
  /\ \/ Finish(c, Decoded(data[call[c].file]))
     \/ Finish(c, Failed)
  /\ UNCHANGED <<made, entry, temps, data, orphans>>

----------------------------------------------------------------------------

Return(c) ==
  /\ call[c].pc = "return"
  /\ call' = [call EXCEPT ![c] = IdleCall]
  /\ UNCHANGED <<made, entry, temps, data, orphans>>

\* The process is killed in the middle of a call: its descriptors close, its
\* temporary name stays.
Crash(c) ==
  /\ call[c].pc # "idle"
  /\ orphans' = orphans \cup ({call[c].file} \cap temps)
  /\ call' = [call EXCEPT ![c] = IdleCall]
  /\ UNCHANGED <<made, entry, temps, data>>

\* rm -rf of the namespace directory, one unlink at a time.
PruneEntry(k) ==
  /\ entry[k] # NoFile
  /\ entry' = [entry EXCEPT ![k] = NoFile]
  /\ UNCHANGED <<made, temps, data, call, orphans>>

PruneTemp(f) ==
  /\ f \in temps
  /\ temps' = temps \ {f}
  /\ orphans' = orphans \ {f}
  /\ UNCHANGED <<made, entry, data, call>>

PruneDir ==
  /\ made /\ temps = {} /\ \A k \in Keys : entry[k] = NoFile
  /\ made' = FALSE
  /\ UNCHANGED <<entry, temps, data, call, orphans>>

----------------------------------------------------------------------------

\* The steps a running call takes; every one of them can always be taken.
Step(c) ==
  \/ CreateTemp(c) \/ Encode(c) \/ CloseEncoder(c) \/ CloseTemp(c) \/ Rename(c)
  \/ Open(c) \/ Decode(c) \/ Return(c)

Next ==
  \/ NewFileCache
  \/ \E c \in Clients : PutCall(c) \/ GetCall(c) \/ Step(c) \/ Crash(c)
  \/ \E k \in Keys : PruneEntry(k)
  \/ \E f \in Files : PruneTemp(f)
  \/ PruneDir

Spec == Init /\ [][Next]_vars

\* The operating system runs every live process.
FairSpec == Spec /\ \A c \in Clients : WF_vars(Step(c))

----------------------------------------------------------------------------
(* Properties *)

TypeOK ==
  /\ made \in BOOLEAN
  /\ entry \in [Keys -> Files \cup {NoFile}]
  /\ temps \in SUBSET Files
  /\ data \in [Files -> Data]
  /\ call \in [Clients -> Calls]
  /\ orphans \in SUBSET Files

Writing(c) == call[c].pc \in WriteSteps

\* Whatever the calls, kills and prunes before it, a final name never leads to
\* a file a Put has not finished: what does not decode was torn by a power loss
\* before (cache.go:141, "replacing any existing entry atomically").
NoPartialEntry ==
  \A k \in Keys : entry[k] # NoFile => data[entry[k]].form \in {"whole", "torn"}

\* Two writers never share a file, and no writer works on a file that a reader
\* holds open or that has a final name (os.CreateTemp in cache.go:144).
WritersAreAlone ==
  \A c \in Clients : Writing(c) =>
    /\ \A k \in Keys : entry[k] # call[c].file
    /\ \A d \in Clients \ {c} : call[d].file # call[c].file

\* A temporary file belongs to a Put in progress, or its Put was killed or failed
\* in os.Rename: every other error path of Put removes it (cache.go:149-171).
NoLeakedTemp ==
  \A f \in temps \ orphans : \E c \in Clients : Writing(c) /\ call[c].file = f

\* A file that has a final name is never written again: a reader that opened it
\* decodes what it was when it was opened, however long it takes (cache.go:113).
EntriesAreImmutable ==
  [][\A k \in Keys : entry[k] # NoFile => data'[entry[k]] = data[entry[k]]]_vars

\* Nobody waits for anybody: a call returns, or its process dies, even when
\* another process was killed in the middle of a Put of the same key
\* (cache.go:19-22: no locks, rename-on-write).
CallsReturn == \A c \in Clients : call[c].pc # "idle" ~> call[c].pc = "idle"

----------------------------------------------------------------------------
(* The inductive invariant: the properties above, and what the place a call *)
(* has reached says of its fields and of the file it writes.                *)

ShapeOK(r) ==
  /\ r.pc = "idle"   => r = IdleCall
  /\ r.pc \in PutSteps => r.op = "put" /\ r.key \in Keys /\ r.val \in Responses
  /\ r.pc \in GetSteps => r.op = "get" /\ r.key \in Keys
  /\ r.pc = "return" => r.op # "idle" /\ r.res \in Results
  /\ r.pc # "return" => r.res = None
  /\ r.pc \in WriteSteps \cup {"decode"} <=> r.file # NoFile

CallShape == \A c \in Clients : ShapeOK(call[c])

\* Once its encoder is closed, a Put's file holds exactly its response.
WholeBeforeRename ==
  \A c \in Clients : call[c].pc \in {"close", "rename"} =>
    data[call[c].file] = Whole(call[c].val)

IInv ==
  /\ TypeOK
  /\ CallShape
  /\ WholeBeforeRename
  /\ NoPartialEntry
  /\ WritersAreAlone
  /\ NoLeakedTemp

----------------------------------------------------------------------------
(* The file cache implements the atomic cache: a Put takes effect when its *)
(* rename does, a Get when it opens the file.                              *)

storeBar ==
  [k \in Keys |-> IF entry[k] = NoFile THEN Absent
                  ELSE IF data[entry[k]].form = "whole" THEN data[entry[k]].resp
                  ELSE Torn]

callBar ==
  [c \in Clients |->
    [op  |-> call[c].op, key |-> call[c].key, val |-> call[c].val,
     res |-> IF call[c].pc = "decode" THEN Decoded(data[call[c].file])
             ELSE call[c].res]]

Atomic == INSTANCE AtomicCache WITH store <- storeBar, call <- callBar

\* Every behaviour of the file cache is one of the atomic cache (cache.go:19-26).
ImplementsAtomicCache == Atomic!Spec
=============================================================================
