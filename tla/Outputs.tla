------------------------------ MODULE Outputs ------------------------------
(***************************************************************************)
(* What docli convert does with a response: convert's RunE, writeStatus,   *)
(* writeOutputs and writeContent (main.go), for several docli processes    *)
(* that were given the same --output directory and whose documents have    *)
(* the same base name, such as paper.pdf and paper.docx: others do not     *)
(* meet.  runConvertCached is one step here; CachedConvert.tla has it.     *)
(***************************************************************************)
EXTENDS Naturals, Sequences, FiniteSets

CONSTANTS
  Runs,       \* docli processes
  Formats,    \* output formats
  MaxFormats, \* bound on the length of --to
  Absent,     \* no file
  Empty,      \* a file that was truncated and not yet written
  Torn        \* a file with a part of its content, or parts of two contents

ASSUME OutputsAssumption ==
  /\ MaxFormats \in Nat \ {0}
  /\ {Absent, Empty, Torn} \cap Runs = {} /\ Cardinality({Absent, Empty, Torn}) = 3

VARIABLES
  files,      \* files[f]: whose content <base><ext of f> holds
  run         \* run[r]: how far process r is in RunE

vars == <<files, run>>

----------------------------------------------------------------------------
(* Data *)

Statuses == {"success", "partial_success", "failure"}

\* A ConvertResponse: its status, and the formats it has a content for that is not
\* empty.
Responses == [status: Statuses, contents: SUBSET Formats]

NoResponse == [status |-> "none", contents |-> {}]

\* parseOutputFormats: --to in order; a format may be named twice.
FormatLists == UNION {[1 .. n -> Formats] : n \in 1 .. MaxFormats}

Requested(r) == {run[r].to[i] : i \in DOMAIN run[r].to}

\* ConvertResponse.Err.
Err(resp, partialIsError) ==
  \/ resp.status = "failure"
  \/ resp.status = "partial_success" /\ partialIsError

Steps == {"idle", "convert", "report", "check", "mkdir", "open", "write",
          "stdout", "done"}

\* toDir: --output is set; status: --status is set; reported and printed: the status
\* is on stderr, a content on stdout; wrote: the files it has truncated.
Processes ==
  [pc: Steps, to: FormatLists \cup {<< >>}, toDir: BOOLEAN, status: BOOLEAN,
   resp: Responses \cup {NoResponse}, next: 1 .. MaxFormats + 1,
   reported: BOOLEAN, printed: SUBSET Formats, wrote: SUBSET Formats,
   res: {"none", "ok", "error", "stderr", "killed"}]

NewRun(step, to, toDir, status) ==
  [pc |-> step, to |-> to, toDir |-> toDir, status |-> status, resp |-> NoResponse,
   next |-> 1, reported |-> FALSE, printed |-> {}, wrote |-> {}, res |-> "none"]

\* The file at hand.
Current(r) == run[r].to[run[r].next]

Set(r, new) == run' = [run EXCEPT ![r] = new]

Goto(r, step) == Set(r, [run[r] EXCEPT !.pc = step])

End(r, res) == Set(r, [run[r] EXCEPT !.pc = "done", !.res = res])

----------------------------------------------------------------------------

Init ==
  /\ files \in [Formats -> {Absent, Torn}]
  /\ run = [r \in Runs |-> NewRun("idle", << >>, FALSE, FALSE)]

----------------------------------------------------------------------------
(* RunE *)

\* An empty --to, an unknown format or flag value ends the run before a request.
Start(r) ==
  /\ run[r].pc = "idle"
  /\ \/ \E to \in FormatLists, toDir, status \in BOOLEAN :
          Set(r, NewRun("convert", to, toDir, status))
     \/ End(r, "error")
  /\ UNCHANGED files

\* Variant: the status is reported only for what passes Err.
ConvertChecked(r) ==
  /\ run[r].pc = "convert"
  /\ \/ \E resp \in Responses :
          Set(r, [run[r] EXCEPT !.pc = IF Err(resp, FALSE) THEN "done" ELSE "report",
                                !.res = IF Err(resp, FALSE) THEN "error" ELSE "none",
                                !.resp = resp])
     \/ End(r, "error")
  /\ UNCHANGED files

\* runConvertCached: an error, or a response, which may lack formats.
Convert(r) ==
  /\ run[r].pc = "convert"
  /\ \/ \E resp \in Responses :
          Set(r, [run[r] EXCEPT !.pc = "report", !.resp = resp])
     \/ End(r, "error")
  /\ UNCHANGED files

\* writeStatus; a write to stderr that fails ends the run.
Report(r) ==
  /\ run[r].pc = "report"
  /\ IF ~run[r].status THEN Goto(r, "check")
     ELSE \/ Set(r, [run[r] EXCEPT !.pc = "check", !.reported = TRUE])
          \/ End(r, "stderr")
  /\ UNCHANGED files

\* Variant: the response's status is not looked at.
CheckNothing(r) ==
  /\ run[r].pc = "check"
  /\ Goto(r, IF run[r].toDir THEN "mkdir" ELSE "stdout")
  /\ UNCHANGED files

\* A failed conversion is an error; a partial one is not.
Check(r) ==
  /\ run[r].pc = "check"
  /\ IF Err(run[r].resp, FALSE) THEN End(r, "error")
     ELSE Goto(r, IF run[r].toDir THEN "mkdir" ELSE "stdout")
  /\ UNCHANGED files

----------------------------------------------------------------------------
(* writeOutputs *)

\* Variant: the error of MkdirAll is noted and the run goes on.
MakeDirUnchecked(r) ==
  /\ run[r].pc = "mkdir"
  /\ \E res \in {"none", "error"} :
       Set(r, [run[r] EXCEPT !.pc = "open", !.res = res])
  /\ UNCHANGED files

MakeDir(r) ==
  /\ run[r].pc = "mkdir"
  /\ Goto(r, "open") \/ End(r, "error")
  /\ UNCHANGED files

\* After the last format the run is over.
LastFile(r) ==
  /\ run[r].pc = "open" /\ run[r].next > Len(run[r].to)
  /\ End(r, "ok")
  /\ UNCHANGED files

\* Each format is looked at when its turn comes; WriteFile truncates the file.
OpenFile(r) ==
  /\ run[r].pc = "open" /\ run[r].next <= Len(run[r].to)
  /\ \/ /\ Current(r) \in run[r].resp.contents
        /\ files' = [files EXCEPT ![Current(r)] = Empty]
        /\ Set(r, [run[r] EXCEPT !.pc = "write", !.wrote = @ \cup {Current(r)}])
     \/ End(r, "error") /\ UNCHANGED files

\* Variant: what WriteFile returns is ignored.
WriteFileUnchecked(r) ==
  /\ run[r].pc = "write"
  /\ files' \in {[files EXCEPT ![Current(r)] = x] : x \in {r, Torn}}
  /\ Set(r, [run[r] EXCEPT !.pc = "open", !.next = @ + 1])

\* WriteFile writes from the start of the file it opened: what another run wrote
\* there in the meantime may be longer.  A write that fails ends the run.
WriteFile(r) ==
  /\ run[r].pc = "write"
  /\ \/ /\ \E x \in {r, Torn} :
             /\ files[Current(r)] = Empty => x = r
             /\ files' = [files EXCEPT ![Current(r)] = x]
        /\ Set(r, [run[r] EXCEPT !.pc = "open", !.next = @ + 1])
     \/ /\ files' = [files EXCEPT ![Current(r)] = Torn]
        /\ End(r, "error")

----------------------------------------------------------------------------
(* writeContent *)

\* Without --output the first format of --to goes to stdout.
Stdout(r) ==
  /\ run[r].pc = "stdout"
  /\ \/ /\ run[r].to[1] \in run[r].resp.contents
        /\ \E res \in {"ok", "error"} :
             Set(r, [run[r] EXCEPT !.pc = "done", !.res = res, !.printed = {run[r].to[1]}])
     \/ /\ run[r].to[1] \notin run[r].resp.contents
        /\ End(r, "error")
  /\ UNCHANGED files

\* The process is killed.
Crash(r) ==
  /\ run[r].pc \notin {"idle", "done"}
  /\ End(r, "killed")
  /\ UNCHANGED files

----------------------------------------------------------------------------

Next == \E r \in Runs :
  \/ Start(r) \/ Convert(r) \/ Report(r) \/ Check(r)
  \/ MakeDir(r) \/ LastFile(r) \/ OpenFile(r) \/ WriteFile(r)
  \/ Stdout(r) \/ Crash(r)

Spec == Init /\ [][Next]_vars

----------------------------------------------------------------------------
(* Properties *)

TypeOK ==
  /\ files \in [Formats -> Runs \cup {Absent, Empty, Torn}]
  /\ run \in [Runs -> Processes]
  /\ \A r \in Runs : run[r].res # "none" <=> run[r].pc = "done"

\* A run that ends well has delivered: with --output every format it was asked for
\* is in its file, whole and its own, unless another run wrote files of the same
\* name; without it the first format is on stdout (main.go:94-100).
OkIsDelivered ==
  \A r \in Runs : run[r].res = "ok" =>
    IF ~run[r].toDir THEN run[r].printed = {run[r].to[1]}
    ELSE \A f \in Requested(r) :
           files[f] = r \/ \E q \in Runs \ {r} : f \in run[q].wrote

\* A conversion that failed leaves nothing in the directory or on stdout, whether it
\* came from the server or the cache (ConvertResponse.Err, types.go:570-573).
FailureLeavesNothing ==
  \A r \in Runs : run[r].resp.status = "failure" =>
    run[r].wrote = {} /\ run[r].printed = {} /\ run[r].res # "ok"

\* With --status, a run that was answered and came to an end has reported the
\* status, a failure's too, unless stderr could not be written (main.go:140-147).
StatusIsReported ==
  \A r \in Runs :
    run[r].status /\ run[r].resp # NoResponse /\ run[r].res \in {"ok", "error"}
      => run[r].reported

\* main.go:424-426: writeOutputs errors out before writing anything if the content
\* of any format is empty.
NothingWrittenIfOneIsEmpty ==
  \A r \in Runs : ~(Requested(r) \subseteq run[r].resp.contents) => run[r].wrote = {}
=============================================================================
