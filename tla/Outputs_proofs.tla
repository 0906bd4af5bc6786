--------------------------- MODULE Outputs_proofs ---------------------------
(***************************************************************************)
(* Proofs about what docli convert leaves behind, for any number of        *)
(* processes, formats and entries of --to: a run that ends well has        *)
(* delivered, a conversion that failed leaves nothing, and --status is     *)
(* heeded.                                                                 *)
(***************************************************************************)
EXTENDS Outputs, SequenceTheorems, TLAPS

----------------------------------------------------------------------------
(* The inductive invariant *)

Early == {"idle", "convert", "report", "check"}

Delivering == {"mkdir", "open", "write", "stdout"}

\* What a run is by itself.
RunOK(w) ==
  /\ w.res # "none" <=> w.pc = "done"
  /\ w.pc \in {"idle", "convert"} => w.resp = NoResponse
  /\ w.pc \notin {"idle", "done"} \/ w.res = "ok" => w.to \in FormatLists
  /\ w.pc \in Early => w.wrote = {} /\ w.printed = {}
  /\ w.pc \in Early \cup {"mkdir"} => w.next = 1
  /\ w.pc \in {"mkdir", "open", "write"} => w.toDir
  /\ w.pc = "stdout" => ~w.toDir
  /\ w.pc = "write" => w.next <= Len(w.to) /\ w.to[w.next] \in w.wrote
  /\ w.pc \in Delivering \/ w.wrote # {} \/ w.printed # {} \/ w.res = "ok" =>
       w.resp.status # "failure"
  /\ w.status /\ w.resp # NoResponse
       /\ (w.pc \in Delivering \cup {"check"} \/ w.res \in {"ok", "error"}) => w.reported
  /\ w.res = "ok" => IF w.toDir THEN w.next > Len(w.to) ELSE w.printed = {w.to[1]}

\* What other runs have written.
Theirs(r) == UNION {run[q].wrote : q \in Runs \ {r}}

\* While it writes its files, and when it has ended well, each file it is through with
\* is its own, unless it has it open again, or another run has written it; the file it
\* has open is empty or another run has written it.
Delivered(r) ==
  run[r].toDir /\ (run[r].pc \in {"open", "write"} \/ run[r].res = "ok") =>
    /\ \A i \in DOMAIN run[r].to : i < run[r].next =>
         \/ files[run[r].to[i]] = r \/ run[r].to[i] \in Theirs(r)
         \/ run[r].pc = "write" /\ run[r].to[i] = Current(r)
    /\ run[r].pc = "write" => files[Current(r)] = Empty \/ Current(r) \in Theirs(r)

IInv == TypeOK /\ \A r \in Runs : RunOK(run[r]) /\ Delivered(r)

----------------------------------------------------------------------------
(* Data *)

\* --to is a list of at least one format and at most MaxFormats.
LEMMA ListIs ==
  ASSUME NEW to \in FormatLists
  PROVE  /\ Len(to) \in 1 .. MaxFormats /\ DOMAIN to = 1 .. Len(to)
         /\ \A i \in 1 .. Len(to) : to[i] \in Formats
<1>1. PICK n \in 1 .. MaxFormats : to \in [1 .. n -> Formats]
  BY DEF FormatLists
<1>2. n \in Nat /\ n >= 1 /\ n <= MaxFormats
  BY <1>1, OutputsAssumption
<1>3. to \in Seq(Formats)
  BY <1>1, <1>2, SeqDef
<1>4. Len(to) \in Nat /\ DOMAIN to = 1 .. Len(to)
  BY <1>3, LenProperties
<1>5. Len(to) = n
  BY <1>1, <1>2, <1>4
<1> QED
  BY <1>1, <1>2, <1>4, <1>5

\* A run stays one when a field of it is set.
LEMMA FieldSet ==
  ASSUME NEW w \in Processes
  PROVE  /\ \A x \in Steps : [w EXCEPT !.pc = x] \in Processes
         /\ \A x \in Responses : [w EXCEPT !.resp = x] \in Processes
         /\ \A x \in 1 .. MaxFormats + 1 : [w EXCEPT !.next = x] \in Processes
         /\ [w EXCEPT !.reported = TRUE] \in Processes
         /\ \A x \in SUBSET Formats : [w EXCEPT !.printed = x] \in Processes
         /\ \A x \in SUBSET Formats : [w EXCEPT !.wrote = x] \in Processes
         /\ \A x \in {"ok", "error", "stderr", "killed"} : [w EXCEPT !.res = x] \in Processes
<1>1. \A x \in Steps : [w EXCEPT !.pc = x] \in Processes
  BY DEF Processes
<1>2. \A x \in Responses : [w EXCEPT !.resp = x] \in Processes
  BY DEF Processes
<1>3. \A x \in 1 .. MaxFormats + 1 : [w EXCEPT !.next = x] \in Processes
  BY DEF Processes
<1>4. [w EXCEPT !.reported = TRUE] \in Processes
  BY DEF Processes
<1>5. \A x \in SUBSET Formats : [w EXCEPT !.printed = x] \in Processes
  BY DEF Processes
<1>6. \A x \in SUBSET Formats : [w EXCEPT !.wrote = x] \in Processes
  BY DEF Processes
<1>7. \A x \in {"ok", "error", "stderr", "killed"} : [w EXCEPT !.res = x] \in Processes
  BY DEF Processes
<1> QED
  BY <1>1, <1>2, <1>3, <1>4, <1>5, <1>6, <1>7

----------------------------------------------------------------------------
(* A step of one run *)

\* What another run has delivered stays delivered: a file that changes was opened by
\* the run that changes it, and a run never forgets what it has opened.
LEMMA RunStep ==
  ASSUME IInv, NEW r \in Runs, NEW w \in Processes, Set(r, w), RunOK(w),
         run[r].wrote \subseteq w.wrote,
         files' \in [Formats -> Runs \cup {Absent, Empty, Torn}],
         \A f \in Formats : files'[f] = files[f] \/ f \in w.wrote,
         Delivered(r)'
  PROVE  IInv'
<1>1. run \in [Runs -> Processes] /\ run'[r] = w /\ \A q \in Runs \ {r} : run'[q] = run[q]
  BY DEF IInv, TypeOK, Set
<1>2. ASSUME NEW q \in Runs PROVE RunOK(run[q])'
  <2>1. RunOK(run'[q])
    BY <1>1 DEF IInv
  <2> QED
    BY <2>1 DEF RunOK
<1>3. ASSUME NEW q \in Runs \ {r}, Delivered(q), RunOK(run[q]) PROVE Delivered(q)'
  <2>1. Theirs(q) \subseteq Theirs(q)'
    BY <1>1 DEF Theirs
  <2>2. \A f \in Formats : files'[f] = files[f] \/ f \in Theirs(q)'
    BY <1>1 DEF Theirs
  <2>3. run'[q] = run[q] /\ Current(q)' = Current(q)
    BY <1>1 DEF Current
  <2>4. SUFFICES ASSUME run[q].toDir, run[q].pc \in {"open", "write"} \/ run[q].res = "ok"
                 PROVE  Delivered(q)'
    BY <2>3 DEF Delivered
  <2>5. /\ DOMAIN run[q].to = 1 .. Len(run[q].to)
        /\ \A i \in DOMAIN run[q].to : run[q].to[i] \in Formats
    BY <1>3, <2>4, ListIs DEF RunOK
  <2>6. run[q].pc = "write" => Current(q) \in Formats
    <3>1. run[q].next \in Nat /\ run[q].next >= 1
      BY <1>1, OutputsAssumption DEF Processes
    <3>2. run[q].pc = "write" => run[q].next \in DOMAIN run[q].to
      BY <1>3, <2>4, <2>5, <3>1, ListIs DEF RunOK
    <3> QED
      BY <2>5, <3>2 DEF Current
  <2>7. ASSUME NEW i \in DOMAIN run[q].to, i < run[q].next
        PROVE  \/ files'[run[q].to[i]] = q \/ run[q].to[i] \in Theirs(q)'
               \/ run[q].pc = "write" /\ run[q].to[i] = Current(q)
    BY <1>3, <2>1, <2>2, <2>4, <2>5, <2>7 DEF Delivered
  <2>8. run[q].pc = "write" => files'[Current(q)] = Empty \/ Current(q) \in Theirs(q)'
    BY <1>3, <2>1, <2>2, <2>4, <2>6 DEF Delivered
  <2> QED
    BY <2>3, <2>7, <2>8 DEF Delivered
<1>4. TypeOK'
  <2>1. w.res # "none" <=> w.pc = "done"
    BY DEF RunOK
  <2>2. \A q \in Runs : run'[q].res # "none" <=> run'[q].pc = "done"
    BY <1>1, <2>1 DEF IInv, TypeOK
  <2>3. run' \in [Runs -> Processes]
    BY <1>1 DEF Set
  <2> QED
    BY <2>2, <2>3 DEF TypeOK
<1> QED
  BY <1>2, <1>3, <1>4 DEF IInv

\* What is known of a run before a step.
LEMMA Before ==
  ASSUME IInv, NEW r \in Runs
  PROVE  /\ run[r] \in Processes /\ run \in [Runs -> Processes] /\ RunOK(run[r])
         /\ files \in [Formats -> Runs \cup {Absent, Empty, Torn}]
         /\ run[r].wrote \subseteq Formats /\ run[r].next \in Nat \ {0}
<1>1. run[r] \in Processes
  BY DEF IInv, TypeOK
<1> QED
  BY <1>1, OutputsAssumption DEF IInv, TypeOK, Processes

\* A run that ends otherwise than well owes nothing but the report of its status.
LEMMA EndStep ==
  ASSUME IInv, NEW r \in Runs, NEW res \in {"error", "stderr", "killed"}, End(r, res),
         run[r].pc # "done",
         files' \in [Formats -> Runs \cup {Absent, Empty, Torn}],
         \A f \in Formats : files'[f] = files[f] \/ f \in run[r].wrote,
         res = "error" /\ run[r].status /\ run[r].resp # NoResponse => run[r].reported
  PROVE  IInv'
<1> DEFINE w == [run[r] EXCEPT !.pc = "done", !.res = res]
<1>1. w \in Processes
  BY Before, FieldSet DEF Steps
<1>2. RunOK(w) /\ w.wrote = run[r].wrote /\ w.pc = "done" /\ w.res = res
  BY Before DEF RunOK, Processes, Early, Delivering
<1>3. Set(r, w) /\ run'[r] = w
  BY Before DEF End, Set
<1> HIDE DEF w
<1>4. Delivered(r)'
  BY <1>2, <1>3 DEF Delivered
<1> QED
  BY <1>1, <1>2, <1>3, <1>4, RunStep

\* A step before the first file is opened, or one that leaves the directory alone
\* and is not the last.
LEMMA QuietStep ==
  ASSUME IInv, UNCHANGED files, NEW r \in Runs, NEW w \in Processes, Set(r, w), RunOK(w),
         run[r].wrote = w.wrote, w.pc \notin {"open", "write"}, w.res # "ok" \/ ~w.toDir
  PROVE  IInv'
<1>1. run'[r] = w
  BY Before DEF Set
<1>2. Delivered(r)'
  BY <1>1 DEF Delivered
<1> QED
  BY <1>2, Before, RunStep

----------------------------------------------------------------------------
(* RunE *)

LEMMA StartInv == ASSUME IInv, NEW r \in Runs, Start(r) PROVE IInv'
<1>1. run[r].pc = "idle" /\ UNCHANGED files
  BY DEF Start
<1>2. ASSUME NEW to \in FormatLists, NEW toDir \in BOOLEAN, NEW status \in BOOLEAN,
             Set(r, NewRun("convert", to, toDir, status))
      PROVE  IInv'
  <2> DEFINE w == NewRun("convert", to, toDir, status)
  <2>1. w \in Processes
    BY OutputsAssumption DEF NewRun, Processes, Steps
  <2>2. RunOK(w)
    BY DEF NewRun, RunOK, Early, Delivering
  <2>3. run[r].wrote = w.wrote
    BY <1>1, Before DEF RunOK, NewRun, Early
  <2>4. w.pc = "convert" /\ w.res = "none"
    BY DEF NewRun
  <2> HIDE DEF w
  <2> QED
    BY <1>1, <1>2, <2>1, <2>2, <2>3, <2>4, QuietStep DEF w
<1>3. CASE End(r, "error")
  <2>1. run[r].resp = NoResponse
    BY <1>1, Before DEF RunOK
  <2> QED
    BY <1>1, <1>3, <2>1, Before, EndStep
<1> QED
  BY <1>2, <1>3 DEF Start

LEMMA ConvertInv == ASSUME IInv, NEW r \in Runs, Convert(r) PROVE IInv'
<1>1. run[r].pc = "convert" /\ UNCHANGED files /\ run[r].resp = NoResponse
  BY Before DEF Convert, RunOK
<1>2. ASSUME NEW resp \in Responses, Set(r, [run[r] EXCEPT !.pc = "report", !.resp = resp])
      PROVE  IInv'
  <2> DEFINE w == [run[r] EXCEPT !.pc = "report", !.resp = resp]
  <2>1. w \in Processes
    BY Before, FieldSet DEF Steps
  <2>2. /\ RunOK(w) /\ run[r].wrote = w.wrote /\ w.pc = "report" /\ w.res = "none"
    BY <1>1, Before DEF RunOK, Processes, Early, Delivering
  <2> QED
    BY <1>1, <1>2, <2>1, <2>2, QuietStep
<1>3. CASE End(r, "error")
  BY <1>1, <1>3, Before, EndStep
<1> QED
  BY <1>2, <1>3 DEF Convert

\* The status is reported before it is checked.
LEMMA ReportInv == ASSUME IInv, NEW r \in Runs, Report(r) PROVE IInv'
<1>1. run[r].pc = "report" /\ UNCHANGED files
  BY DEF Report
<1>2. CASE ~run[r].status /\ Goto(r, "check")
  <2> DEFINE w == [run[r] EXCEPT !.pc = "check"]
  <2>1. w \in Processes
    BY Before, FieldSet DEF Steps
  <2>2. /\ RunOK(w) /\ run[r].wrote = w.wrote /\ w.pc = "check" /\ w.res = "none"
    BY <1>1, <1>2, Before DEF RunOK, Processes, Early, Delivering
  <2> QED
    BY <1>1, <1>2, <2>1, <2>2, QuietStep DEF Goto
<1>3. CASE Set(r, [run[r] EXCEPT !.pc = "check", !.reported = TRUE])
  <2> DEFINE w == [run[r] EXCEPT !.pc = "check", !.reported = TRUE]
  <2>1. w \in Processes
    BY Before, FieldSet DEF Steps
  <2>2. /\ RunOK(w) /\ run[r].wrote = w.wrote /\ w.pc = "check" /\ w.res = "none"
    BY <1>1, Before DEF RunOK, Processes, Early, Delivering
  <2> QED
    BY <1>1, <1>3, <2>1, <2>2, QuietStep
<1>4. CASE End(r, "stderr")
  BY <1>1, <1>4, Before, EndStep
<1> QED
  BY <1>2, <1>3, <1>4 DEF Report

\* Only a conversion that has not failed gets past the check.
LEMMA CheckInv == ASSUME IInv, NEW r \in Runs, Check(r) PROVE IInv'
<1>1. run[r].pc = "check" /\ UNCHANGED files
  BY DEF Check
<1>2. CASE End(r, "error")
  BY <1>1, <1>2, Before, EndStep DEF RunOK
<1>3. CASE /\ ~Err(run[r].resp, FALSE)
           /\ Goto(r, IF run[r].toDir THEN "mkdir" ELSE "stdout")
  <2> DEFINE step == IF run[r].toDir THEN "mkdir" ELSE "stdout"
             w    == [run[r] EXCEPT !.pc = step]
  <2>1. w \in Processes
    BY Before, FieldSet DEF Steps
  <2>2. run[r].resp.status # "failure"
    BY <1>3 DEF Err
  <2>3. /\ RunOK(w) /\ run[r].wrote = w.wrote /\ w.pc = step /\ w.res = "none"
    BY <1>1, <2>2, Before DEF RunOK, Processes, Early, Delivering
  <2>4. Set(r, w) /\ step \notin {"open", "write"}
    BY <1>3 DEF Goto
  <2> HIDE DEF step
  <2> QED
    BY <1>1, <2>1, <2>3, <2>4, QuietStep
<1> QED
  BY <1>2, <1>3 DEF Check

----------------------------------------------------------------------------
(* writeOutputs *)

LEMMA MakeDirInv == ASSUME IInv, NEW r \in Runs, MakeDir(r) PROVE IInv'
<1>1. run[r].pc = "mkdir" /\ UNCHANGED files
  BY DEF MakeDir
<1>2. CASE Goto(r, "open")
  <2> DEFINE w == [run[r] EXCEPT !.pc = "open"]
  <2>1. w \in Processes
    BY Before, FieldSet DEF Steps
  <2>2. RunOK(w) /\ w.wrote = run[r].wrote
    BY <1>1, Before DEF RunOK, Processes, Early, Delivering
  <2>3. Set(r, w) /\ run'[r] = w
    BY <1>2, Before DEF Goto, Set
  <2>4. w.next = 1 /\ w.pc = "open" /\ w.to = run[r].to
    BY <1>1, Before DEF RunOK, Processes, Early
  <2>5. DOMAIN w.to = 1 .. Len(w.to)
    BY <1>1, <2>4, Before, ListIs DEF RunOK
  <2> HIDE DEF w
  <2>6. Delivered(r)'
    BY <2>3, <2>4, <2>5 DEF Delivered
  <2> QED
    BY <1>1, <2>1, <2>2, <2>3, <2>6, Before, RunStep
<1>3. CASE End(r, "error")
  BY <1>1, <1>3, Before, EndStep DEF RunOK, Delivering
<1> QED
  BY <1>2, <1>3 DEF MakeDir

\* A run that ends well is through with all it was asked for.
LEMMA LastFileInv == ASSUME IInv, NEW r \in Runs, LastFile(r) PROVE IInv'
<1> DEFINE w == [run[r] EXCEPT !.pc = "done", !.res = "ok"]
<1>1. run[r].pc = "open" /\ run[r].next > Len(run[r].to) /\ UNCHANGED files
  BY DEF LastFile
<1>2. w \in Processes
  BY Before, FieldSet DEF Steps
<1>3. RunOK(w) /\ w.wrote = run[r].wrote
  BY <1>1, Before DEF RunOK, Processes, Early, Delivering
<1>4. Set(r, w) /\ run'[r] = w
  BY Before DEF LastFile, End, Set
<1>5. w.pc = "done" /\ w.to = run[r].to /\ w.next = run[r].next /\ w.toDir = run[r].toDir
  BY Before DEF Processes
<1> HIDE DEF w
<1>6. Theirs(r)' = Theirs(r)
  BY <1>4, Before DEF Theirs, Set
<1>7. run[r].pc # "write" /\ Delivered(r) /\ run[r].toDir
  BY <1>1, Before DEF IInv, RunOK
<1>8. Delivered(r)'
  BY <1>1, <1>4, <1>5, <1>6, <1>7 DEF Delivered
<1> QED
  BY <1>1, <1>2, <1>3, <1>4, <1>8, Before, RunStep

\* Opening a file that the run has already written empties it again.
LEMMA OpenFileInv == ASSUME IInv, NEW r \in Runs, OpenFile(r) PROVE IInv'
<1> DEFINE f == Current(r)
<1>1. run[r].pc = "open" /\ run[r].next <= Len(run[r].to)
  BY DEF OpenFile
<1>2. /\ DOMAIN run[r].to = 1 .. Len(run[r].to) /\ run[r].next \in DOMAIN run[r].to
      /\ \A i \in DOMAIN run[r].to : run[r].to[i] \in Formats
      /\ f \in Formats
  BY <1>1, Before, ListIs DEF RunOK, Current
<1>3. CASE End(r, "error") /\ UNCHANGED files
  BY <1>1, <1>3, Before, EndStep DEF RunOK, Delivering
<1>4. CASE /\ files' = [files EXCEPT ![f] = Empty]
           /\ Set(r, [run[r] EXCEPT !.pc = "write", !.wrote = @ \cup {f}])
  <2> DEFINE w == [run[r] EXCEPT !.pc = "write", !.wrote = run[r].wrote \cup {f}]
  <2>1. w \in Processes
    BY <1>2, Before, FieldSet DEF Steps
  <2>2. /\ w.wrote = run[r].wrote \cup {f} /\ w.pc = "write" /\ w.res = run[r].res
        /\ w.to = run[r].to /\ w.next = run[r].next /\ w.toDir = run[r].toDir
        /\ w.resp = run[r].resp /\ w.status = run[r].status
        /\ w.reported = run[r].reported /\ w.printed = run[r].printed
    BY Before DEF Processes
  <2>3. Set(r, w) /\ run'[r] = w
    BY <1>4, Before DEF Set
  <2> HIDE DEF w
  <2>4. RunOK(w)
    BY <1>1, <2>2, Before DEF RunOK, Early, Delivering, Current
  <2>5. /\ files' \in [Formats -> Runs \cup {Absent, Empty, Torn}] /\ files'[f] = Empty
        /\ \A g \in Formats : g # f => files'[g] = files[g]
    BY <1>2, <1>4, Before
  <2>6. Theirs(r)' = Theirs(r) /\ Current(r)' = f
    BY <2>2, <2>3, Before DEF Theirs, Set, Current
  <2>7. Delivered(r)'
    <3>1. Delivered(r) /\ run[r].toDir
      BY <1>1, Before DEF IInv, RunOK
    <3>2. ASSUME NEW i \in DOMAIN run[r].to, i < run[r].next, run[r].to[i] # f
          PROVE  files'[run[r].to[i]] = r \/ run[r].to[i] \in Theirs(r)
      <4>1. files[run[r].to[i]] = r \/ run[r].to[i] \in Theirs(r)
        BY <1>1, <3>1, <3>2 DEF Delivered
      <4>2. files'[run[r].to[i]] = files[run[r].to[i]]
        <5> HIDE DEF f
        <5>1. run[r].to[i] \in Formats
          BY <1>2, Zenon
        <5> QED
          BY <2>5, <3>2, <5>1, Zenon
      <4> QED
        BY <4>1, <4>2
    <3> QED
      BY <2>2, <2>3, <2>5, <2>6, <3>2 DEF Delivered
  <2> QED
    BY <2>1, <2>2, <2>3, <2>4, <2>5, <2>7, RunStep
<1> QED
  BY <1>3, <1>4 DEF OpenFile

\* What is written into a file that is still empty is whole, unless the write fails;
\* a file that is not empty any more was opened by another run.
LEMMA WriteFileInv == ASSUME IInv, NEW r \in Runs, WriteFile(r) PROVE IInv'
<1> DEFINE f == Current(r)
<1>1. run[r].pc = "write" /\ run[r].next <= Len(run[r].to) /\ f \in run[r].wrote
      /\ Delivered(r) /\ run[r].toDir
  <2>1. run[r].pc = "write"
    BY DEF WriteFile
  <2> QED
    BY <2>1, Before DEF RunOK, IInv, Current
<1>2. /\ DOMAIN run[r].to = 1 .. Len(run[r].to) /\ run[r].next \in DOMAIN run[r].to
      /\ \A i \in DOMAIN run[r].to : run[r].to[i] \in Formats
      /\ f \in Formats /\ run[r].next + 1 \in 1 .. MaxFormats + 1
  BY <1>1, Before, ListIs, OutputsAssumption DEF RunOK, Current
<1>3. CASE files' = [files EXCEPT ![f] = Torn] /\ End(r, "error")
  <2>1. /\ files' \in [Formats -> Runs \cup {Absent, Empty, Torn}]
        /\ \A g \in Formats : files'[g] = files[g] \/ g \in run[r].wrote
    BY <1>1, <1>2, <1>3, Before
  <2> QED
    BY <1>1, <1>3, <2>1, Before, EndStep DEF RunOK, Delivering
<1>4. ASSUME NEW x \in {r, Torn}, files[f] = Empty => x = r,
             files' = [files EXCEPT ![f] = x],
             Set(r, [run[r] EXCEPT !.pc = "open", !.next = @ + 1])
      PROVE  IInv'
  <2> DEFINE w == [run[r] EXCEPT !.pc = "open", !.next = run[r].next + 1]
  <2>1. w \in Processes
    BY <1>2, Before, FieldSet DEF Steps
  <2>2. /\ w.wrote = run[r].wrote /\ w.pc = "open" /\ w.res = run[r].res
        /\ w.to = run[r].to /\ w.next = run[r].next + 1 /\ w.toDir = run[r].toDir
        /\ w.resp = run[r].resp /\ w.status = run[r].status
        /\ w.reported = run[r].reported /\ w.printed = run[r].printed
    BY Before DEF Processes
  <2>3. Set(r, w) /\ run'[r] = w
    BY <1>4, Before DEF Set
  <2> HIDE DEF w
  <2>4. RunOK(w)
    BY <1>1, <2>2, Before DEF RunOK, Early, Delivering
  <2>5. /\ files' \in [Formats -> Runs \cup {Absent, Empty, Torn}] /\ files'[f] = x
        /\ \A g \in Formats : g # f => files'[g] = files[g]
    BY <1>2, <1>4, Before
  <2>6. Theirs(r)' = Theirs(r)
    BY <2>2, <2>3, Before DEF Theirs, Set
  <2>7. x = r \/ f \in Theirs(r)
    BY <1>1, <1>4 DEF Delivered
  <2>8. ASSUME NEW i \in DOMAIN run[r].to, i < run[r].next + 1
        PROVE  files'[run[r].to[i]] = r \/ run[r].to[i] \in Theirs(r)
    <3>1. CASE run[r].to[i] = f
      BY <2>5, <2>7, <3>1
    <3>2. CASE run[r].to[i] # f
      <4>1. i < run[r].next
        BY <1>2, <2>8, <3>2, Before DEF Current
      <4> QED
        BY <1>1, <1>2, <2>5, <3>2, <4>1 DEF Delivered
    <3> QED
      BY <3>1, <3>2
  <2>9. Delivered(r)'
    BY <2>2, <2>3, <2>6, <2>8 DEF Delivered
  <2> QED
    BY <1>1, <2>1, <2>2, <2>3, <2>4, <2>5, <2>9, RunStep
<1>5. CASE \E x \in {r, Torn} :
             /\ files[f] = Empty => x = r
             /\ files' = [files EXCEPT ![f] = x]
             /\ Set(r, [run[r] EXCEPT !.pc = "open", !.next = @ + 1])
  BY ONLY <1>4, <1>5, Zenon
<1> QED
  BY <1>3, <1>5, Zenon DEF WriteFile

----------------------------------------------------------------------------
(* writeContent *)

LEMMA StdoutInv == ASSUME IInv, NEW r \in Runs, Stdout(r) PROVE IInv'
<1> DEFINE f == run[r].to[1]
<1>1. run[r].pc = "stdout" /\ UNCHANGED files
  BY DEF Stdout
<1>2. f \in Formats
  BY <1>1, Before, ListIs DEF RunOK
<1>3. ASSUME NEW res \in {"ok", "error"},
             Set(r, [run[r] EXCEPT !.pc = "done", !.res = res, !.printed = {f}])
      PROVE  IInv'
  <2> DEFINE w == [run[r] EXCEPT !.pc = "done", !.res = res, !.printed = {f}]
  <2>1. w \in Processes
    BY <1>2, Before, FieldSet DEF Steps
  <2>2. /\ w.wrote = run[r].wrote /\ w.pc = "done" /\ w.res = res
        /\ w.to = run[r].to /\ w.next = run[r].next /\ w.toDir = run[r].toDir
        /\ w.resp = run[r].resp /\ w.status = run[r].status
        /\ w.reported = run[r].reported /\ w.printed = {f}
    BY Before DEF Processes
  <2> HIDE DEF w
  <2>3. RunOK(w) /\ ~w.toDir
    BY <1>1, <2>2, Before DEF RunOK, Early, Delivering
  <2> QED
    BY <1>1, <1>3, <2>1, <2>2, <2>3, QuietStep DEF w
<1>4. CASE End(r, "error")
  BY <1>1, <1>4, Before, EndStep DEF RunOK, Delivering
<1> QED
  BY <1>3, <1>4 DEF Stdout

LEMMA CrashInv == ASSUME IInv, NEW r \in Runs, Crash(r) PROVE IInv'
BY Before, EndStep DEF Crash

----------------------------------------------------------------------------
(* The theorems *)

LEMMA InitIInv == Init => IInv
<1> SUFFICES ASSUME Init PROVE IInv
  OBVIOUS
<1> DEFINE w == NewRun("idle", << >>, FALSE, FALSE)
<1>1. w \in Processes /\ w.res = "none" /\ w.pc = "idle" /\ w.toDir = FALSE
  BY OutputsAssumption DEF NewRun, Processes, Steps
<1>2. RunOK(w)
  BY DEF NewRun, RunOK, Early, Delivering
<1>3. \A r \in Runs : run[r] = w
  BY DEF Init
<1> HIDE DEF w
<1>4. TypeOK
  <2>1. run \in [Runs -> Processes]
    BY <1>1 DEF Init, w
  <2> QED
    BY <1>1, <1>3, <2>1 DEF Init, TypeOK
<1>5. \A r \in Runs : Delivered(r)
  BY <1>1, <1>3 DEF Delivered
<1> QED
  BY <1>2, <1>3, <1>4, <1>5 DEF IInv

LEMMA NextIInv == IInv /\ [Next]_vars => IInv'
<1> SUFFICES ASSUME IInv, [Next]_vars PROVE IInv'
  OBVIOUS
<1>1. CASE UNCHANGED vars
  BY <1>1 DEF vars, IInv, TypeOK, RunOK, Delivered, Theirs, Current
<1> QED
  BY <1>1, StartInv, ConvertInv, ReportInv, CheckInv, MakeDirInv, LastFileInv, OpenFileInv,
     WriteFileInv, StdoutInv, CrashInv DEF Next

LEMMA Invariance == Spec => []IInv
BY InitIInv, NextIInv, PTL DEF Spec

\* The files and the runs keep their types, and a run has a result exactly when it has
\* ended.
THEOREM TypeCorrect == Spec => []TypeOK
<1>1. IInv => TypeOK
  BY DEF IInv
<1> QED
  BY <1>1, Invariance, PTL

\* A run that ends well has delivered every format it was asked for, whatever the order
\* in which runs open and write files of the same name, and however often a format is
\* named (main.go:94-100, 427-455).
THEOREM OkDelivers == Spec => []OkIsDelivered
<1>1. ASSUME IInv, NEW r \in Runs, run[r].res = "ok"
      PROVE  IF ~run[r].toDir THEN run[r].printed = {run[r].to[1]}
             ELSE \A f \in Requested(r) :
                    files[f] = r \/ \E q \in Runs \ {r} : f \in run[q].wrote
  <2>1. /\ RunOK(run[r]) /\ Delivered(r) /\ run[r].pc = "done"
    BY <1>1 DEF IInv, TypeOK
  <2>2. CASE ~run[r].toDir
    BY <1>1, <2>1, <2>2 DEF RunOK
  <2>3. CASE run[r].toDir
    <3>1. /\ run[r].next > Len(run[r].to) /\ DOMAIN run[r].to = 1 .. Len(run[r].to)
          /\ Len(run[r].to) \in Nat /\ run[r].next \in Nat
      BY <1>1, <2>1, <2>3, Before, ListIs, OutputsAssumption DEF RunOK
    <3>2. ASSUME NEW f \in Requested(r) PROVE files[f] = r \/ f \in Theirs(r)
      BY <1>1, <2>1, <2>3, <3>1 DEF Requested, Delivered
    <3> QED
      BY <2>3, <3>2 DEF Theirs
  <2> QED
    BY <2>2, <2>3
<1>2. IInv => OkIsDelivered
  BY <1>1 DEF OkIsDelivered
<1> QED
  BY <1>2, Invariance, PTL

\* A conversion that failed leaves nothing in the directory or on stdout
\* (types.go:570-573).
THEOREM FailuresLeaveNothing == Spec => []FailureLeavesNothing
<1>1. IInv => FailureLeavesNothing
  BY DEF IInv, RunOK, FailureLeavesNothing
<1> QED
  BY <1>1, Invariance, PTL

\* The status that was asked for is reported whenever there is one, a failure's too
\* (main.go:140-147).
THEOREM StatusesAreReported == Spec => []StatusIsReported
<1>1. IInv => StatusIsReported
  BY DEF IInv, RunOK, StatusIsReported
<1> QED
  BY <1>1, Invariance, PTL
=============================================================================
