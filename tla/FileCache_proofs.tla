-------------------------- MODULE FileCache_proofs --------------------------
(***************************************************************************)
(* Proofs about FileCache, for any sets of clients, keys, responses and    *)
(* files: its safety invariants, the immutability of visible entries, and  *)
(* that it implements AtomicCache.                                         *)
(***************************************************************************)
EXTENDS FileCache, TLAPS

LEMMA InitIInv == Init => IInv
<1> SUFFICES ASSUME Init PROVE IInv
  OBVIOUS
<1>1. TypeOK
  BY DEF Init, TypeOK, IdleCall, Calls, Steps, Data, Blank, TornData, Whole
<1>2. CallShape
  BY DEF Init, CallShape, ShapeOK, IdleCall, PutSteps, GetSteps, WriteSteps
<1>3. WholeBeforeRename /\ WritersAreAlone
  BY DEF Init, WholeBeforeRename, WritersAreAlone, Writing, WriteSteps, IdleCall
<1>4. NoPartialEntry
  BY DEF Init, NoPartialEntry, Blank, TornData, Whole
<1>5. NoLeakedTemp
  BY DEF Init, NoLeakedTemp
<1> QED
  BY <1>1, <1>2, <1>3, <1>4, <1>5 DEF IInv

----------------------------------------------------------------------------
(* Lemmas about the steps *)

\* The two ways a step leaves a call keep it well-typed.
LEMMA FinishType ==
  ASSUME call \in [Clients -> Calls], NEW c \in Clients, NEW r \in Results,
         Finish(c, r)
  PROVE  call' \in [Clients -> Calls]
<1> DEFINE new == [call[c] EXCEPT !.pc = "return", !.res = r, !.file = NoFile]
<1>1. call[c] \in Calls
  OBVIOUS
<1>2. new \in Calls
  BY <1>1 DEF Calls, Steps
<1>3. call' = [call EXCEPT ![c] = new]
  BY DEF Finish
<1> QED
  BY <1>2, <1>3

LEMMA GotoType ==
  ASSUME call \in [Clients -> Calls], NEW c \in Clients, NEW s \in Steps,
         Goto(c, s)
  PROVE  call' \in [Clients -> Calls]
BY DEF Goto, Calls

\* What every step of Put may use of the call it belongs to.
LEMMA WritingCall ==
  ASSUME IInv, NEW c \in Clients, Writing(c)
  PROVE  /\ call[c].op = "put" /\ call[c].key \in Keys
         /\ call[c].val \in Responses /\ call[c].file \in Files
         /\ call[c].res = None
<1>1. call[c] \in Calls
  BY DEF IInv, TypeOK
<1> QED
  BY <1>1 DEF IInv, CallShape, ShapeOK, Calls, Writing, WriteSteps, PutSteps, WriteSteps

\* A reader holds a file, and what it may decode there is a result.
LEMMA ReadingCall ==
  ASSUME IInv, NEW c \in Clients, call[c].pc = "decode"
  PROVE  /\ call[c].file \in Files
         /\ call[c].key \in Keys /\ call[c].op = "get" /\ call[c].res = None
<1>1. call[c] \in Calls
  BY DEF IInv, TypeOK
<1> QED
  BY <1>1 DEF IInv, CallShape, ShapeOK, Calls, GetSteps

LEMMA IdleCallType == IdleCall \in Calls
BY DEF IdleCall, Calls, Steps

----------------------------------------------------------------------------
(* Each part of the invariant is preserved *)

LEMMA NextTypeOK == IInv /\ [Next]_vars => TypeOK'
<1> SUFFICES ASSUME IInv, [Next]_vars PROVE TypeOK'
  OBVIOUS
<1> USE DEF TypeOK
<1>0. TypeOK
  BY DEF IInv
<1>1. CASE NewFileCache
  BY <1>0, <1>1 DEF NewFileCache
<1>2. ASSUME NEW c \in Clients, PutCall(c) PROVE TypeOK'
  <2>1. PICK k \in Keys, v \in Responses : call' = [call EXCEPT ![c] = NewPut(k, v)]
    BY <1>2 DEF PutCall
  <2>2. NewPut(k, v) \in Calls
    BY DEF NewPut, Calls, Steps, PutSteps, WriteSteps
  <2> QED
    BY <1>0, <1>2, <2>1, <2>2 DEF PutCall
<1>3. ASSUME NEW c \in Clients, CreateTemp(c) PROVE TypeOK'
  <2>1. CASE Finish(c, Failed) /\ UNCHANGED <<temps, data>>
    BY <1>0, <1>3, <2>1, FinishType DEF CreateTemp, Results
  <2>2. ASSUME NEW f \in Files,
               temps' = temps \cup {f}, data' = [data EXCEPT ![f] = Blank],
               call' = [call EXCEPT ![c].pc = "encode", ![c].file = f]
        PROVE  TypeOK'
    <3>1. [call[c] EXCEPT !.pc = "encode", !.file = f] \in Calls
      BY <1>0 DEF Calls, Steps, PutSteps, WriteSteps
    <3>2. call' = [call EXCEPT ![c] = [call[c] EXCEPT !.pc = "encode", !.file = f]]
      BY <1>0, <2>2
    <3>3. Blank \in Data
      BY DEF Blank, Data
    <3> QED
      BY <1>0, <1>3, <2>2, <3>1, <3>2, <3>3 DEF CreateTemp
  <2> QED
    BY <1>3, <2>1, <2>2 DEF CreateTemp, StartFile
<1>4. ASSUME NEW c \in Clients, Encode(c) PROVE TypeOK'
  <2>1. call[c].file \in Files /\ Part(call[c].val) \in Data
    BY <1>4, WritingCall DEF Encode, Writing, WriteSteps, Part, Data
  <2>2. call' \in [Clients -> Calls]
    BY <1>0, <1>4, FinishType, GotoType DEF Encode, Results, Steps, PutSteps, WriteSteps
  <2> QED
    BY <1>0, <1>4, <2>1, <2>2 DEF Encode, Cleanup
<1>5. ASSUME NEW c \in Clients, CloseEncoder(c) PROVE TypeOK'
  <2>1. call[c].file \in Files /\ Whole(call[c].val) \in Data
    BY <1>5, WritingCall DEF CloseEncoder, Writing, WriteSteps, Whole, Data
  <2>2. call' \in [Clients -> Calls]
    BY <1>0, <1>5, FinishType, GotoType DEF CloseEncoder, Results, Steps, PutSteps, WriteSteps
  <2> QED
    BY <1>0, <1>5, <2>1, <2>2 DEF CloseEncoder, Cleanup
<1>6. ASSUME NEW c \in Clients, CloseTemp(c) PROVE TypeOK'
  <2>1. call' \in [Clients -> Calls]
    BY <1>0, <1>6, FinishType, GotoType DEF CloseTemp, Results, Steps, PutSteps, WriteSteps
  <2> QED
    BY <1>0, <1>6, <2>1 DEF CloseTemp, Cleanup
<1>7. ASSUME NEW c \in Clients, Rename(c) PROVE TypeOK'
  <2>1. call[c].file \in Files
    BY <1>7, WritingCall DEF Rename, Writing, WriteSteps
  <2>2. call' \in [Clients -> Calls]
    BY <1>0, <1>7, FinishType DEF Rename, Results
  <2> QED
    BY <1>0, <1>7, <2>1, <2>2 DEF Rename
<1>8. ASSUME NEW c \in Clients, GetCall(c) PROVE TypeOK'
  <2>1. PICK k \in Keys : call' = [call EXCEPT ![c] = NewGet(k)]
    BY <1>8 DEF GetCall
  <2>2. NewGet(k) \in Calls
    BY DEF NewGet, Calls, Steps, GetSteps
  <2> QED
    BY <1>0, <1>8, <2>1, <2>2 DEF GetCall
<1>9. ASSUME NEW c \in Clients, Open(c) PROVE TypeOK'
  <2>1. CASE Finish(c, Absent) \/ Finish(c, Failed)
    BY <1>0, <1>9, <2>1, FinishType DEF Open, Results
  <2>2. CASE /\ entry[call[c].key] # NoFile
             /\ call' = [call EXCEPT ![c].pc = "decode",
                                     ![c].file = entry[call[c].key]]
    <3> DEFINE new == [call[c] EXCEPT !.pc = "decode", !.file = entry[call[c].key]]
    <3>1. call[c].key \in Keys
      BY <1>9 DEF Open, IInv, CallShape, ShapeOK, GetSteps
    <3>2. new \in Calls
      BY <1>0, <3>1 DEF Calls, Steps, GetSteps
    <3>3. call' = [call EXCEPT ![c] = new]
      BY <1>0, <2>2
    <3> QED
      BY <1>0, <1>9, <3>2, <3>3 DEF Open
  <2> QED
    BY <1>9, <2>1, <2>2 DEF Open
<1>10. ASSUME NEW c \in Clients, Decode(c) PROVE TypeOK'
  <2>1. Decoded(data[call[c].file]) \in Results
    BY <1>0, <1>10, ReadingCall DEF Decode, Decoded, Results, Data, Blank, TornData, Part, Whole
  <2>2. call' \in [Clients -> Calls]
    BY <1>0, <1>10, <2>1, FinishType DEF Decode, Results
  <2> QED
    BY <1>0, <1>10, <2>2 DEF Decode
<1>11. ASSUME NEW c \in Clients, Return(c) PROVE TypeOK'
  BY <1>0, <1>11, IdleCallType DEF Return
<1>12. ASSUME NEW c \in Clients, Crash(c) PROVE TypeOK'
  BY <1>0, <1>12, IdleCallType DEF Crash
<1>13. ASSUME NEW k \in Keys, PruneEntry(k) PROVE TypeOK'
  BY <1>0, <1>13 DEF PruneEntry
<1>14. ASSUME NEW f \in Files, PruneTemp(f) PROVE TypeOK'
  BY <1>0, <1>14 DEF PruneTemp
<1>15. CASE PruneDir
  BY <1>0, <1>15 DEF PruneDir
<1>16. CASE UNCHANGED vars
  BY <1>0, <1>16 DEF vars
<1> QED
  BY <1>1, <1>2, <1>3, <1>4, <1>5, <1>6, <1>7, <1>8, <1>9, <1>10, <1>11,
     <1>12, <1>13, <1>14, <1>15, <1>16 DEF Next, Step

LEMMA FinishShape ==
  ASSUME IInv, NEW c \in Clients, NEW r \in Results, Finish(c, r),
         call[c].op # "idle"
  PROVE  CallShape'
<1> DEFINE new == [call[c] EXCEPT !.pc = "return", !.res = r, !.file = NoFile]
<1>0. call \in [Clients -> Calls] /\ call[c] \in Calls
  BY DEF IInv, TypeOK
<1>1. call' = [call EXCEPT ![c] = new]
  BY <1>0 DEF Finish
<1>2. new.pc = "return" /\ new.op # "idle" /\ new.res = r /\ new.file = NoFile
  BY <1>0 DEF Calls
<1>3. ShapeOK(new)
  BY <1>2 DEF ShapeOK, PutSteps, GetSteps, WriteSteps
<1> QED
  BY <1>0, <1>1, <1>3 DEF IInv, CallShape

LEMMA GotoShape ==
  ASSUME IInv, NEW c \in Clients, Writing(c), NEW s \in WriteSteps, Goto(c, s)
  PROVE  CallShape'
<1> DEFINE new == [call[c] EXCEPT !.pc = s]
<1>0. call \in [Clients -> Calls] /\ call[c] \in Calls
  BY DEF IInv, TypeOK
<1>1. call' = [call EXCEPT ![c] = new]
  BY <1>0 DEF Goto
<1>2. /\ new.pc = s /\ new.op = "put" /\ new.key \in Keys
      /\ new.val \in Responses /\ new.res = None /\ new.file # NoFile
  BY <1>0, WritingCall, FilesAssumption DEF Calls
<1>3. ShapeOK(new)
  BY <1>2 DEF ShapeOK, PutSteps, GetSteps, WriteSteps
<1> QED
  BY <1>0, <1>1, <1>3 DEF IInv, CallShape

LEMMA NextCallShape == IInv /\ [Next]_vars => CallShape'
<1> SUFFICES ASSUME IInv, [Next]_vars PROVE CallShape'
  OBVIOUS
<1>0. call \in [Clients -> Calls] /\ CallShape
  BY DEF IInv, TypeOK
<1>1. ASSUME UNCHANGED call PROVE CallShape'
  BY <1>0, <1>1 DEF CallShape
<1>2. ASSUME NEW c \in Clients, PutCall(c) PROVE CallShape'
  <2>1. PICK k \in Keys, v \in Responses : call' = [call EXCEPT ![c] = NewPut(k, v)]
    BY <1>2 DEF PutCall
  <2>2. ShapeOK(NewPut(k, v))
    BY DEF ShapeOK, NewPut, PutSteps, GetSteps, WriteSteps
  <2> QED
    BY <1>0, <2>1, <2>2 DEF CallShape
<1>3. ASSUME NEW c \in Clients, CreateTemp(c) PROVE CallShape'
  <2>0. /\ call[c].op = "put" /\ call[c].key \in Keys /\ call[c].val \in Responses
        /\ call[c].res = None
    BY <1>0, <1>3 DEF CreateTemp, CallShape, ShapeOK, PutSteps
  <2>1. CASE Finish(c, Failed)
    BY <2>0, <2>1, FinishShape DEF Results
  <2>2. ASSUME NEW f \in Files,
               call' = [call EXCEPT ![c].pc = "encode", ![c].file = f]
        PROVE  CallShape'
    <3> DEFINE new == [call[c] EXCEPT !.pc = "encode", !.file = f]
    <3>1. call' = [call EXCEPT ![c] = new] /\ call[c] \in Calls
      BY <1>0, <2>2
    <3>2. ShapeOK(new)
      BY <2>0, <3>1, FilesAssumption
         DEF ShapeOK, Calls, PutSteps, GetSteps, WriteSteps
    <3> QED
      BY <1>0, <3>1, <3>2 DEF CallShape
  <2> QED
    BY <1>3, <2>1, <2>2 DEF CreateTemp, StartFile
<1>4. ASSUME NEW c \in Clients,
             Encode(c) \/ CloseEncoder(c) \/ CloseTemp(c) \/ Rename(c)
      PROVE  CallShape'
  <2>1. Writing(c)
    BY <1>4 DEF Encode, CloseEncoder, CloseTemp, Rename, Writing, WriteSteps
  <2>2. \/ \E s \in WriteSteps : Goto(c, s)
        \/ \E r \in Results : Finish(c, r)
    BY <1>4 DEF Encode, CloseEncoder, CloseTemp, Rename, WriteSteps, Results
  <2> QED
    BY <2>1, <2>2, WritingCall, GotoShape, FinishShape
<1>5. ASSUME NEW c \in Clients, GetCall(c) PROVE CallShape'
  <2>1. PICK k \in Keys : call' = [call EXCEPT ![c] = NewGet(k)]
    BY <1>5 DEF GetCall
  <2>2. ShapeOK(NewGet(k))
    BY DEF ShapeOK, NewGet, PutSteps, GetSteps, WriteSteps
  <2> QED
    BY <1>0, <2>1, <2>2 DEF CallShape
<1>6. ASSUME NEW c \in Clients, Open(c) PROVE CallShape'
  <2>0. call[c].op = "get" /\ call[c].key \in Keys /\ call[c].res = None
    BY <1>0, <1>6 DEF Open, CallShape, ShapeOK, GetSteps
  <2>1. CASE Finish(c, Absent) \/ Finish(c, Failed)
    BY <2>0, <2>1, FinishShape DEF Results
  <2>2. CASE /\ entry[call[c].key] # NoFile
             /\ call' = [call EXCEPT ![c].pc = "decode",
                                     ![c].file = entry[call[c].key]]
    <3> DEFINE new == [call[c] EXCEPT !.pc = "decode", !.file = entry[call[c].key]]
    <3>1. call' = [call EXCEPT ![c] = new] /\ call[c] \in Calls
      BY <1>0, <2>2
    <3>2. ShapeOK(new)
      BY <2>0, <2>2, <3>1 DEF ShapeOK, Calls, PutSteps, GetSteps, WriteSteps
    <3> QED
      BY <1>0, <3>1, <3>2 DEF CallShape
  <2> QED
    BY <1>6, <2>1, <2>2 DEF Open
<1>7. ASSUME NEW c \in Clients, Decode(c) PROVE CallShape'
  <2>1. Decoded(data[call[c].file]) \in Results
    BY <1>7, ReadingCall
       DEF Decode, IInv, TypeOK, Decoded, Results, Data, Blank, TornData, Part, Whole
  <2> QED
    BY <1>7, <2>1, ReadingCall, FinishShape DEF Decode, Results
<1>8. ASSUME NEW c \in Clients, Return(c) \/ Crash(c) PROVE CallShape'
  <2>1. ShapeOK(IdleCall)
    BY DEF ShapeOK, IdleCall, PutSteps, GetSteps, WriteSteps
  <2> QED
    BY <1>0, <1>8, <2>1 DEF Return, Crash, CallShape
<1> QED
  BY <1>1, <1>2, <1>3, <1>4, <1>5, <1>6, <1>7, <1>8
     DEF Next, Step, NewFileCache, PruneEntry, PruneTemp, PruneDir, vars

\* What a step does to its own call, and that it leaves the others alone.
LEMMA FinishCall ==
  ASSUME TypeOK, NEW c \in Clients, NEW r, Finish(c, r)
  PROVE  /\ call'[c].pc = "return" /\ call'[c].file = NoFile /\ call'[c].res = r
         /\ \A d \in Clients \ {c} : call'[d] = call[d]
<1>1. call \in [Clients -> Calls] /\ call[c] \in Calls
  BY DEF TypeOK
<1> QED
  BY <1>1 DEF Finish, Calls

LEMMA GotoCall ==
  ASSUME TypeOK, NEW c \in Clients, NEW s, Goto(c, s)
  PROVE  /\ call'[c].pc = s
         /\ call'[c].file = call[c].file /\ call'[c].val = call[c].val
         /\ \A d \in Clients \ {c} : call'[d] = call[d]
<1>1. call \in [Clients -> Calls] /\ call[c] \in Calls
  BY DEF TypeOK
<1> QED
  BY <1>1 DEF Goto, Calls

LEMMA OpenCall ==
  ASSUME TypeOK, NEW c \in Clients, NEW s, NEW f,
         call' = [call EXCEPT ![c].pc = s, ![c].file = f]
  PROVE  /\ call'[c].pc = s /\ call'[c].file = f
         /\ \A d \in Clients \ {c} : call'[d] = call[d]
<1>1. call \in [Clients -> Calls] /\ call[c] \in Calls
  BY DEF TypeOK
<1> QED
  BY <1>1 DEF Calls

\* Nobody else's file, and no entry, is the one a writer works on.
LEMMA Alone ==
  ASSUME IInv, NEW c \in Clients, Writing(c)
  PROVE  /\ call[c].file \in Files
         /\ \A k \in Keys : entry[k] # call[c].file
         /\ \A d \in Clients \ {c} : call[d].file # call[c].file
BY WritingCall DEF IInv, WritersAreAlone

LEMMA NextWholeBeforeRename == IInv /\ [Next]_vars => WholeBeforeRename'
<1> SUFFICES ASSUME IInv, [Next]_vars,
                    NEW d \in Clients, call'[d].pc \in {"close", "rename"}
             PROVE  data'[call'[d].file] = Whole(call'[d].val)
  BY DEF WholeBeforeRename
<1>0. /\ TypeOK
      /\ call[d].pc \in {"close", "rename"} => data[call[d].file] = Whole(call[d].val)
  BY DEF IInv, WholeBeforeRename
<1>1. CASE UNCHANGED <<call, data>>
  BY <1>0, <1>1
<1>2. ASSUME NEW c \in Clients, CreateTemp(c)
      PROVE  data'[call'[d].file] = Whole(call'[d].val)
  <2>1. CASE Finish(c, Failed) /\ UNCHANGED data
    BY <1>0, <2>1, FinishCall
  <2>2. ASSUME NEW f \in Files, Unused(f), data' = [data EXCEPT ![f] = Blank],
               call' = [call EXCEPT ![c].pc = "encode", ![c].file = f]
        PROVE  data'[call'[d].file] = Whole(call'[d].val)
    <3>0. /\ call'[c].pc = "encode"
          /\ \A e \in Clients \ {c} : call'[e] = call[e]
      BY <1>0, <2>2, OpenCall
    <3>1. d # c /\ call'[d] = call[d] /\ call[d].file # f
      BY <2>2, <3>0 DEF Unused
    <3>2. data \in [Files -> Data] /\ call[d].file \in Files
      BY <1>0, <3>1, WritingCall DEF TypeOK, Writing, WriteSteps
    <3> QED
      BY <1>0, <2>2, <3>1, <3>2
  <2> QED
    BY <1>2, <2>1, <2>2 DEF CreateTemp, StartFile
<1>3. ASSUME NEW c \in Clients, Encode(c)
      PROVE  data'[call'[d].file] = Whole(call'[d].val)
  <2>1. d # c /\ call'[d] = call[d]
    BY <1>0, <1>3, FinishCall, GotoCall DEF Encode
  <2>2. call[d].file # call[c].file
    BY <1>3, <2>1, Alone DEF Encode, Writing, WriteSteps
  <2>3. data'[call[d].file] = data[call[d].file]
    BY <1>0, <1>3, <2>1, <2>2, WritingCall DEF Encode, TypeOK, Writing, WriteSteps
  <2> QED
    BY <1>0, <2>1, <2>3
<1>4. ASSUME NEW c \in Clients, CloseEncoder(c)
      PROVE  data'[call'[d].file] = Whole(call'[d].val)
  <2>0. Writing(c)
    BY <1>4 DEF CloseEncoder, Writing, WriteSteps
  <2>1. CASE d = c
    <3>1. Goto(c, "close") /\ data' = [data EXCEPT ![call[c].file] = Whole(call[c].val)]
      BY <1>0, <1>4, <2>1, FinishCall DEF CloseEncoder
    <3> QED
      BY <1>0, <2>0, <2>1, <3>1, GotoCall, WritingCall DEF TypeOK
  <2>2. CASE d # c
    <3>1. call'[d] = call[d] /\ call[d].file # call[c].file
      BY <1>0, <1>4, <2>0, <2>2, FinishCall, GotoCall, Alone DEF CloseEncoder
    <3>2. data'[call[d].file] = data[call[d].file]
      BY <1>0, <1>4, <3>1, WritingCall DEF CloseEncoder, TypeOK, Writing, WriteSteps
    <3> QED
      BY <1>0, <3>1, <3>2
  <2> QED
    BY <2>1, <2>2
<1>5. ASSUME NEW c \in Clients, CloseTemp(c)
      PROVE  data'[call'[d].file] = Whole(call'[d].val)
  BY <1>0, <1>5, FinishCall, GotoCall DEF CloseTemp
<1>6. ASSUME NEW c \in Clients, Rename(c) \/ Open(c) \/ Decode(c)
      PROVE  data'[call'[d].file] = Whole(call'[d].val)
  <2>1. /\ call'[c].pc \in {"return", "decode"}
        /\ \A e \in Clients \ {c} : call'[e] = call[e]
    <3>1. CASE \E r : Finish(c, r)
      BY <1>0, <3>1, FinishCall
    <3>2. CASE call' = [call EXCEPT ![c].pc = "decode",
                                   ![c].file = entry[call[c].key]]
      BY <1>0, <3>2, OpenCall
    <3> QED
      BY <1>6, <3>1, <3>2 DEF Rename, Open, Decode
  <2>2. UNCHANGED data /\ d # c /\ call'[d] = call[d]
    BY <1>6, <2>1 DEF Rename, Open, Decode
  <2> QED
    BY <1>0, <2>2
<1>7. ASSUME NEW c \in Clients, PutCall(c) \/ GetCall(c) \/ Return(c) \/ Crash(c)
      PROVE  data'[call'[d].file] = Whole(call'[d].val)
  <2>1. UNCHANGED data /\ d # c /\ call'[d] = call[d]
    BY <1>0, <1>7
       DEF PutCall, GetCall, Return, Crash, TypeOK, NewPut, NewGet, IdleCall
  <2> QED
    BY <1>0, <2>1
<1> QED
  BY <1>1, <1>2, <1>3, <1>4, <1>5, <1>6, <1>7
     DEF Next, Step, NewFileCache, PruneEntry, PruneTemp, PruneDir, vars

\* The files the steps write: new ones and those of writers.
LEMMA EntryDataKept ==
  ASSUME IInv, [Next]_vars, NEW k \in Keys, entry[k] # NoFile
  PROVE  data'[entry[k]] = data[entry[k]]
<1>0. TypeOK /\ entry[k] \in Files
  BY DEF IInv, TypeOK
<1>1. ASSUME NEW c \in Clients, CreateTemp(c)
      PROVE  data'[entry[k]] = data[entry[k]]
  BY <1>0, <1>1 DEF CreateTemp, StartFile, Unused, TypeOK
<1>2. ASSUME NEW c \in Clients, Encode(c) \/ CloseEncoder(c)
      PROVE  data'[entry[k]] = data[entry[k]]
  <2>1. entry[k] # call[c].file
    BY <1>2, Alone DEF Encode, CloseEncoder, Writing, WriteSteps
  <2> QED
    BY <1>0, <1>2, <2>1 DEF Encode, CloseEncoder, TypeOK
<1>3. CASE UNCHANGED data
  BY <1>3
<1> QED
  BY <1>1, <1>2, <1>3
     DEF Next, Step, vars, NewFileCache, PutCall, GetCall, CloseTemp, Rename, Open,
         Decode, Return, Crash, PruneEntry, PruneTemp, PruneDir

LEMMA NextNoPartialEntry == IInv /\ [Next]_vars => NoPartialEntry'
<1> SUFFICES ASSUME IInv, [Next]_vars, NEW k \in Keys, entry'[k] # NoFile
             PROVE  data'[entry'[k]].form \in {"whole", "torn"}
  BY DEF NoPartialEntry
<1>1. CASE entry'[k] = entry[k]
  BY <1>1, EntryDataKept DEF IInv, NoPartialEntry
<1>2. CASE entry'[k] # entry[k]
  <2>1. \A j \in Keys : PruneEntry(j) => entry'[k] = entry[k] \/ entry'[k] = NoFile
    BY DEF PruneEntry, IInv, TypeOK
  <2>2. PICK c \in Clients : Rename(c)
    BY <1>2, <2>1
       DEF Next, Step, vars, NewFileCache, PutCall, GetCall, CreateTemp, StartFile, Encode,
           CloseEncoder, CloseTemp, Open, Decode, Return, Crash, PruneTemp, PruneDir
  <2>3. entry'[k] = call[c].file /\ UNCHANGED data /\ call[c].pc = "rename"
    BY <1>2, <2>2 DEF Rename, IInv, TypeOK
  <2>4. data[call[c].file] = Whole(call[c].val)
    BY <2>3 DEF IInv, WholeBeforeRename
  <2>5. data[call[c].file].form = "whole"
    BY <2>4 DEF Whole
  <2> QED
    BY <2>3, <2>5
<1> QED
  BY <1>1, <1>2

\* A file is written by its creator only, and is shown under a final name only
\* when its creator has finished with it.
LEMMA NextWritersAreAlone == IInv /\ [Next]_vars => WritersAreAlone'
<1> DEFINE Kept(d) == call'[d] = call[d]
<1> SUFFICES ASSUME IInv, [Next]_vars, NEW w \in Clients, Writing(w)'
             PROVE  /\ \A k \in Keys : entry'[k] # call'[w].file
                    /\ \A d \in Clients \ {w} : call'[d].file # call'[w].file
  BY DEF WritersAreAlone
<1> USE DEF Kept
<1> DEFINE Goal == /\ \A k \in Keys : entry'[k] # call'[w].file
                   /\ \A d \in Clients \ {w} : call'[d].file # call'[w].file
<1>0. TypeOK /\ call'[w].pc \in WriteSteps
  BY DEF IInv, Writing
<1>1. ASSUME Kept(w), UNCHANGED entry,
             \A d \in Clients \ {w} : Kept(d) \/ call'[d].file = NoFile
      PROVE  Goal
  <2>1. Writing(w) /\ call[w].file # NoFile
    BY <1>0, <1>1, WritingCall, FilesAssumption DEF Writing
  <2> QED
    BY <1>1, <2>1, Alone
<1>2. ASSUME NEW c \in Clients, CreateTemp(c) PROVE Goal
  <2>1. CASE Finish(c, Failed)
    BY <1>0, <1>1, <1>2, <2>1, FinishCall DEF CreateTemp, WriteSteps
  <2>2. ASSUME NEW f \in Files, Unused(f),
               call' = [call EXCEPT ![c].pc = "encode", ![c].file = f]
        PROVE  Goal
    <3>1. /\ call'[c].file = f
          /\ \A d \in Clients \ {c} : Kept(d)
      BY <1>0, <2>2, OpenCall
    <3>2. UNCHANGED entry /\ \A k \in Keys : entry[k] # f
      BY <1>2, <2>2 DEF CreateTemp, StartFile, Unused
    <3>3. \A d \in Clients : call[d].file # f
      BY <2>2 DEF Unused
    <3>4. CASE w = c
      BY <3>1, <3>2, <3>3, <3>4
    <3>5. CASE w # c
      <4>1. Writing(w) /\ Kept(w)
        BY <1>0, <3>1, <3>5 DEF Writing
      <4> QED
        BY <3>1, <3>2, <3>3, <3>5, <4>1, Alone
    <3> QED
      BY <3>4, <3>5
  <2> QED
    BY <1>2, <2>1, <2>2 DEF CreateTemp, StartFile
<1>3. ASSUME NEW c \in Clients, Encode(c) \/ CloseEncoder(c) \/ CloseTemp(c)
      PROVE  Goal
  <2>0. Writing(c) /\ UNCHANGED entry
    BY <1>3 DEF Encode, CloseEncoder, CloseTemp, Writing, WriteSteps
  <2>1. CASE Finish(c, Failed)
    BY <1>0, <1>1, <2>0, <2>1, FinishCall DEF WriteSteps
  <2>2. ASSUME NEW s, Goto(c, s) PROVE Goal
    <3>1. /\ \A d \in Clients : call'[d].file = call[d].file
          /\ \A d \in Clients \ {c} : Kept(d)
      BY <1>0, <2>2, GotoCall
    <3>2. Writing(w)
      BY <1>0, <2>0, <3>1 DEF Writing
    <3> QED
      BY <2>0, <3>1, <3>2, Alone
  <2> QED
    BY <1>3, <2>1, <2>2 DEF Encode, CloseEncoder, CloseTemp
<1>4. ASSUME NEW c \in Clients, Rename(c) PROVE Goal
  <2>0. Writing(c)
    BY <1>4 DEF Rename, Writing, WriteSteps
  <2>1. /\ call'[c].pc = "return" /\ call'[c].file = NoFile
        /\ \A d \in Clients \ {c} : Kept(d)
    BY <1>0, <1>4, FinishCall DEF Rename
  <2>2. w # c /\ Writing(w) /\ Kept(w)
    BY <1>0, <2>1 DEF Writing, WriteSteps
  <2>3. call[w].file # call[c].file /\ call[w].file # NoFile
    BY <2>0, <2>2, Alone, FilesAssumption
  <2>4. \A k \in Keys : entry'[k] \in {entry[k], call[c].file}
    BY <1>4 DEF Rename, IInv, TypeOK
  <2> QED
    BY <2>1, <2>2, <2>3, <2>4, Alone
<1>5. ASSUME NEW c \in Clients, Open(c) \/ Decode(c) PROVE Goal
  <2>1. CASE \E r : Finish(c, r)
    BY <1>0, <1>1, <1>5, <2>1, FinishCall DEF Open, Decode, WriteSteps
  <2>2. CASE /\ call[c].pc = "open"
             /\ call' = [call EXCEPT ![c].pc = "decode",
                                     ![c].file = entry[call[c].key]]
    <3>1. /\ call'[c].pc = "decode" /\ call'[c].file = entry[call[c].key]
          /\ \A d \in Clients \ {c} : Kept(d)
      BY <1>0, <2>2, OpenCall
    <3>2. w # c /\ Writing(w) /\ Kept(w)
      BY <1>0, <3>1 DEF Writing, WriteSteps
    <3>3. call[c].key \in Keys
      BY <2>2 DEF IInv, CallShape, ShapeOK, GetSteps
    <3>4. UNCHANGED entry
      BY <1>5 DEF Open, Decode
    <3> QED
      BY <3>1, <3>2, <3>3, <3>4, Alone
  <2> QED
    BY <1>5, <2>1, <2>2 DEF Open, Decode
<1>6. ASSUME NEW c \in Clients, PutCall(c) \/ GetCall(c) \/ Return(c) \/ Crash(c)
      PROVE  Goal
  <2>1. /\ call'[c].pc \notin WriteSteps /\ call'[c].file = NoFile
        /\ \A d \in Clients \ {c} : Kept(d)
    BY <1>0, <1>6 DEF PutCall, GetCall, Return, Crash, TypeOK,
                      NewPut, NewGet, IdleCall, WriteSteps
  <2>2. UNCHANGED entry
    BY <1>6 DEF PutCall, GetCall, Return, Crash
  <2> QED
    BY <1>0, <1>1, <2>1, <2>2
<1>7. ASSUME NEW k \in Keys, PruneEntry(k) PROVE Goal
  <2>1. Writing(w) /\ UNCHANGED call /\ call[w].file # NoFile
    BY <1>0, <1>7, WritingCall, FilesAssumption DEF PruneEntry, Writing
  <2>2. \A j \in Keys : entry'[j] \in {entry[j], NoFile}
    BY <1>7 DEF PruneEntry, IInv, TypeOK
  <2> QED
    BY <2>1, <2>2, Alone
<1>8. CASE UNCHANGED <<call, entry>>
  BY <1>1, <1>8
<1> QED
  BY <1>2, <1>3, <1>4, <1>5, <1>6, <1>7, <1>8
     DEF Next, Step, vars, NewFileCache, PruneTemp, PruneDir

\* Put's error paths remove the temporary name; what a kill or a failed rename
\* leaves goes to orphans.
LEMMA NextNoLeakedTemp == IInv /\ [Next]_vars => NoLeakedTemp'
<1> SUFFICES ASSUME IInv, [Next]_vars, NEW f \in temps' \ orphans'
             PROVE  \E d \in Clients : Writing(d)' /\ call'[d].file = f
  BY DEF NoLeakedTemp
<1> DEFINE Owned == \E d \in Clients : Writing(d)' /\ call'[d].file = f
<1>0. /\ TypeOK
      /\ f \in temps \ orphans =>
           \E d \in Clients : Writing(d) /\ call[d].file = f
  BY DEF IInv, NoLeakedTemp
<1>1. ASSUME NEW c \in Clients, f \in temps \ orphans, call[c].file # f,
             \A d \in Clients \ {c} : call'[d] = call[d]
      PROVE  Owned
  BY <1>0, <1>1 DEF Writing
<1>2. ASSUME NEW c \in Clients, NEW g \in Files, CreateTemp(c),
             temps' = temps \cup {g},
             call' = [call EXCEPT ![c].pc = "encode", ![c].file = g]
      PROVE  Owned
  <2>1. /\ call'[c].pc = "encode" /\ call'[c].file = g
        /\ \A d \in Clients \ {c} : call'[d] = call[d]
    BY <1>0, <1>2, OpenCall
  <2>2. CASE f = g
    BY <2>1, <2>2 DEF Writing, WriteSteps
  <2>3. CASE f # g
    <3>1. f \in temps \ orphans
      BY <1>2, <2>3 DEF CreateTemp, StartFile
    <3>2. ~Writing(c)
      BY <1>2 DEF CreateTemp, Writing, WriteSteps
    <3> QED
      BY <1>0, <2>1, <3>1, <3>2 DEF Writing
  <2> QED
    BY <2>2, <2>3
<1>3. ASSUME NEW c \in Clients, CreateTemp(c), Finish(c, Failed), UNCHANGED temps
      PROVE  Owned
  <2>1. ~Writing(c) /\ f \in temps \ orphans
    BY <1>3 DEF CreateTemp, Writing, WriteSteps
  <2> QED
    BY <1>0, <1>3, <2>1, FinishCall DEF Writing
<1>4. ASSUME NEW c \in Clients, Encode(c) \/ CloseEncoder(c) \/ CloseTemp(c)
      PROVE  Owned
  <2>1. Writing(c) /\ UNCHANGED orphans
    BY <1>4 DEF Encode, CloseEncoder, CloseTemp, Writing, WriteSteps
  <2>2. CASE Finish(c, Failed) /\ Cleanup(c)
    BY <1>0, <1>1, <2>1, <2>2, FinishCall DEF Cleanup
  <2>3. ASSUME NEW s \in WriteSteps, Goto(c, s), UNCHANGED temps PROVE Owned
    <3>1. /\ call'[c].pc = s /\ call'[c].file = call[c].file
          /\ \A d \in Clients \ {c} : call'[d] = call[d]
      BY <1>0, <2>3, GotoCall
    <3> QED
      BY <1>0, <2>1, <2>3, <3>1 DEF Writing
  <2> QED
    BY <1>4, <2>2, <2>3 DEF Encode, CloseEncoder, CloseTemp, WriteSteps
<1>5. ASSUME NEW c \in Clients, Rename(c) PROVE Owned
  <2>1. \A d \in Clients \ {c} : call'[d] = call[d]
    BY <1>0, <1>5, FinishCall DEF Rename
  <2>2. f \in temps \ orphans /\ call[c].file # f
    BY <1>5 DEF Rename
  <2> QED
    BY <1>1, <2>1, <2>2
<1>6. ASSUME NEW c \in Clients,
             PutCall(c) \/ GetCall(c) \/ Open(c) \/ Decode(c) \/ Return(c)
      PROVE  Owned
  <2>1. ~Writing(c) /\ f \in temps \ orphans
    BY <1>6 DEF PutCall, GetCall, Open, Decode, Return, Writing, WriteSteps
  <2>2. \A d \in Clients \ {c} : call'[d] = call[d]
    <3>1. CASE \E r : Finish(c, r)
      BY <1>0, <3>1, FinishCall
    <3>2. CASE \E s, g : call' = [call EXCEPT ![c].pc = s, ![c].file = g]
      BY <1>0, <3>2, OpenCall
    <3>3. CASE \E r : call' = [call EXCEPT ![c] = r]
      BY <1>0, <3>3 DEF TypeOK
    <3> QED
      BY <1>6, <3>1, <3>2, <3>3 DEF PutCall, GetCall, Open, Decode, Return
  <2> QED
    BY <1>0, <2>1, <2>2 DEF Writing
<1>7. ASSUME NEW c \in Clients, Crash(c) PROVE Owned
  <2>1. \A d \in Clients \ {c} : call'[d] = call[d]
    BY <1>0, <1>7 DEF Crash, TypeOK
  <2>2. f \in temps \ orphans /\ call[c].file # f
    BY <1>7 DEF Crash
  <2> QED
    BY <1>1, <2>1, <2>2
<1>8. ASSUME NEW g \in Files, PruneTemp(g) PROVE Owned
  BY <1>0, <1>8 DEF PruneTemp, Writing
<1>9. CASE UNCHANGED <<call, temps, orphans>>
  BY <1>0, <1>9 DEF Writing
<1> QED
  BY <1>2, <1>3, <1>4, <1>5, <1>6, <1>7, <1>8, <1>9
     DEF Next, Step, CreateTemp, StartFile, vars, NewFileCache, PruneEntry, PruneDir

----------------------------------------------------------------------------
(* The theorems *)

LEMMA Invariance == Spec => []IInv
<1>1. Init => IInv
  BY InitIInv
<1>2. IInv /\ [Next]_vars => IInv'
  BY NextTypeOK, NextCallShape, NextWholeBeforeRename, NextNoPartialEntry,
     NextWritersAreAlone, NextNoLeakedTemp DEF IInv
<1> QED
  BY <1>1, <1>2, PTL DEF Spec

\* Every reachable state of the cache directory and of the calls is well-typed.
THEOREM TypeCorrect == Spec => []TypeOK
<1>1. IInv => TypeOK
  BY DEF IInv
<1> QED
  BY <1>1, Invariance, PTL

\* No kill, failure or interleaving of Puts leaves a half-written file under a
\* final name (FileCache.Put, cache.go:141-173).
THEOREM NeverPartial == Spec => []NoPartialEntry
<1>1. IInv => NoPartialEntry
  BY DEF IInv
<1> QED
  BY <1>1, Invariance, PTL

\* No two Puts, and no Put and Get, ever share a file (os.CreateTemp at
\* cache.go:144 against os.Open at 119).
THEOREM WritersStayAlone == Spec => []WritersAreAlone
<1>1. IInv => WritersAreAlone
  BY DEF IInv
<1> QED
  BY <1>1, Invariance, PTL

\* Put's error paths leave no temporary file; only a kill or a failed rename
\* does (cache.go:149-172).
THEOREM NeverLeaks == Spec => []NoLeakedTemp
<1>1. IInv => NoLeakedTemp
  BY DEF IInv
<1> QED
  BY <1>1, Invariance, PTL

\* No step writes a file that has a final name (cache.go:141-173).
THEOREM VisibleEntriesStay == Spec => EntriesAreImmutable
<1>1. IInv /\ [Next]_vars =>
        [\A k \in Keys : entry[k] # NoFile => data'[entry[k]] = data[entry[k]]]_vars
  BY EntryDataKept
<1> QED
  BY <1>1, Invariance, PTL DEF Spec, EntriesAreImmutable

----------------------------------------------------------------------------
(***************************************************************************)
(* The file cache implements the atomic cache: its initial states map to   *)
(* initial states of AtomicCache, and each of its steps to a step of       *)
(* AtomicCache or to none.  Rename is the instant of a Put, Open that of a *)
(* Get; every other step inside a call maps to a stutter, or to Fail when  *)
(* it gives up.                                                            *)
(***************************************************************************)


\* Nobody writes the file a reader holds.
LEMMA ReadDataKept ==
  ASSUME IInv, [Next]_vars, NEW d \in Clients, call[d].pc = "decode"
  PROVE  data'[call[d].file] = data[call[d].file]
<1>0. TypeOK /\ call[d].file \in Files
  BY ReadingCall DEF IInv
<1>1. ASSUME NEW c \in Clients, CreateTemp(c)
      PROVE  data'[call[d].file] = data[call[d].file]
  BY <1>0, <1>1 DEF CreateTemp, StartFile, Unused, TypeOK
<1>2. ASSUME NEW c \in Clients, Encode(c) \/ CloseEncoder(c)
      PROVE  data'[call[d].file] = data[call[d].file]
  <2>1. d # c /\ call[d].file # call[c].file
    BY <1>2, Alone DEF Encode, CloseEncoder, Writing, WriteSteps
  <2> QED
    BY <1>0, <1>2, <2>1 DEF Encode, CloseEncoder, TypeOK
<1>3. CASE UNCHANGED data
  BY <1>3
<1> QED
  BY <1>1, <1>2, <1>3
     DEF Next, Step, vars, NewFileCache, PutCall, GetCall, CloseTemp, Rename, Open,
         Decode, Return, Crash, PruneEntry, PruneTemp, PruneDir

LEMMA CallBarKept ==
  ASSUME IInv, [Next]_vars, NEW d \in Clients, call'[d] = call[d]
  PROVE  callBar'[d] = callBar[d]
<1>1. CASE call[d].pc = "decode"
  <2>1. Decoded(data'[call[d].file]) = Decoded(data[call[d].file])
    BY <1>1, ReadDataKept
  <2> QED
    BY <1>1, <2>1 DEF callBar, Decoded
<1>2. CASE call[d].pc # "decode"
  BY <1>2 DEF callBar
<1> QED
  BY <1>1, <1>2

LEMMA StoreBarKept ==
  ASSUME IInv, [Next]_vars, NEW k \in Keys, entry'[k] = entry[k]
  PROVE  storeBar'[k] = storeBar[k]
BY EntryDataKept DEF storeBar

LEMMA StoreBarUnchanged ==
  ASSUME IInv, [Next]_vars, UNCHANGED entry
  PROVE  UNCHANGED storeBar
<1>1. \A k \in Keys : storeBar'[k] = storeBar[k]
  BY StoreBarKept
<1> QED
  BY <1>1 DEF storeBar

LEMMA CallBarChanged ==
  ASSUME IInv, [Next]_vars, NEW c \in Clients,
         \A d \in Clients \ {c} : call'[d] = call[d]
  PROVE  callBar' = [callBar EXCEPT ![c] = callBar'[c]]
<1>1. \A d \in Clients \ {c} : callBar'[d] = callBar[d]
  BY CallBarKept
<1>2. /\ callBar = [d \in Clients |-> callBar[d]]
      /\ callBar' = [d \in Clients |-> callBar'[d]]
  BY DEF callBar
<1> QED
  BY <1>1, <1>2

\* A call that fails before its effect is a Fail of the atomic cache.
LEMMA FailImplements ==
  ASSUME IInv, [Next]_vars, NEW c \in Clients, Finish(c, Failed), UNCHANGED entry,
         \/ call[c].op = "put" /\ call[c].res = None /\ call[c].pc # "decode"
         \/ call[c].op = "get"
  PROVE  Atomic!Fail(c)
<1>1. UNCHANGED storeBar
  BY StoreBarUnchanged
<1>2. callBar' = [callBar EXCEPT ![c] = callBar'[c]]
  BY FinishCall, CallBarChanged DEF IInv
<1>3. call \in [Clients -> Calls] /\ call[c] \in Calls
  BY DEF IInv, TypeOK
<1>4. callBar'[c] = [callBar[c] EXCEPT !.res = Failed]
  BY <1>3 DEF Finish, callBar, Calls
<1>5. callBar' = [callBar EXCEPT ![c].res = Failed]
  BY <1>2, <1>4 DEF callBar
<1>6. \/ callBar[c].op = "get"
      \/ callBar[c].op = "put" /\ callBar[c].res = None
  BY DEF callBar
<1> QED
  BY <1>1, <1>5, <1>6 DEF Atomic!Fail, Atomic!Failed, Failed, Atomic!None, None

\* A writer that goes on has done nothing an observer can see.
LEMMA GotoImplements ==
  ASSUME IInv, [Next]_vars, NEW c \in Clients, Writing(c), NEW s \in WriteSteps,
         Goto(c, s), UNCHANGED entry
  PROVE  UNCHANGED <<storeBar, callBar>>
<1>1. UNCHANGED storeBar
  BY StoreBarUnchanged
<1>2. callBar' = [callBar EXCEPT ![c] = callBar'[c]]
  BY GotoCall, CallBarChanged DEF IInv
<1>3. call \in [Clients -> Calls] /\ call[c] \in Calls
  BY DEF IInv, TypeOK
<1>4. callBar'[c] = callBar[c]
  BY <1>3 DEF Goto, callBar, Calls, Writing, WriteSteps
<1> QED
  BY <1>1, <1>2, <1>4 DEF callBar

LEMMA WholeResponse ==
  ASSUME TypeOK, NEW f \in Files, data[f].form = "whole"
  PROVE  data[f].resp \in Responses
<1>1. data[f] \in Data
  BY DEF TypeOK
<1>2. data[f] # Blank /\ data[f] # TornData
  BY DEF Blank, TornData
<1>3. PICK v \in Responses : data[f] \in {Part(v), Whole(v)}
  BY <1>1, <1>2 DEF Data
<1>4. Part(v).resp = v /\ Whole(v).resp = v
  BY DEF Part, Whole
<1> QED
  BY <1>3, <1>4

\* What an observer is told of an entry is what Get decodes there.
LEMMA OutcomeDecoded ==
  ASSUME TypeOK, NEW k \in Keys, entry[k] # NoFile
  PROVE  /\ Atomic!Outcome(storeBar[k]) = Decoded(data[entry[k]])
         /\ storeBar[k] # Absent
<1>2. data[entry[k]].form = "whole" => data[entry[k]].resp \in Responses
  BY WholeResponse DEF TypeOK
<1>3. storeBar[k] = IF data[entry[k]].form = "whole" THEN data[entry[k]].resp ELSE Torn
  BY DEF storeBar
<1> QED
  BY <1>2, <1>3, ResponsesAssumption
     DEF Atomic!Outcome, Decoded, Atomic!Torn, Torn, Atomic!Failed, Failed, Absent

LEMMA InitImplements == Init => Atomic!Init
<1> SUFFICES ASSUME Init PROVE Atomic!Init
  OBVIOUS
<1>1. TypeOK
  BY InitIInv DEF IInv
<1>2. callBar = [c \in Clients |-> Atomic!IdleCall]
  BY DEF Init, callBar, IdleCall, Atomic!IdleCall, None, Atomic!None
<1>3. ASSUME NEW k \in Keys PROVE storeBar[k] \in Atomic!Contents
  <2>1. entry[k] # NoFile =>
          (data[entry[k]].form = "whole" => data[entry[k]].resp \in Responses)
    BY <1>1, WholeResponse DEF TypeOK
  <2> QED
    BY <2>1
       DEF storeBar, Atomic!Contents, Absent, Torn, Atomic!Absent, Atomic!Torn
<1>4. storeBar \in [Keys -> Atomic!Contents]
  BY <1>3 DEF storeBar
<1> QED
  BY <1>2, <1>4 DEF Atomic!Init

LEMMA NextImplements ==
  IInv /\ [Next]_vars => [Atomic!Next]_(Atomic!vars)
<1> SUFFICES ASSUME IInv, [Next]_vars
             PROVE  Atomic!Next \/ UNCHANGED <<storeBar, callBar>>
  BY DEF Atomic!vars
<1> DEFINE Mapped == Atomic!Next \/ UNCHANGED <<storeBar, callBar>>
<1>0. TypeOK /\ CallShape /\ call \in [Clients -> Calls]
  BY DEF IInv, TypeOK
<1>1. ASSUME UNCHANGED <<entry, call>> PROVE Mapped
  <2>1. \A c \in Clients : callBar'[c] = callBar[c]
    BY <1>1, CallBarKept
  <2>2. UNCHANGED callBar
    BY <2>1 DEF callBar
  <2> QED
    BY <1>1, <2>2, StoreBarUnchanged
<1>2. ASSUME NEW c \in Clients, PutCall(c) PROVE Mapped
  <2>1. PICK k \in Keys, v \in Responses : call' = [call EXCEPT ![c] = NewPut(k, v)]
    BY <1>2 DEF PutCall
  <2>2. /\ call'[c] = NewPut(k, v)
        /\ \A d \in Clients \ {c} : call'[d] = call[d]
    BY <1>0, <2>1
  <2>3. callBar'[c] = Atomic!NewPut(k, v)
    BY <2>2 DEF callBar, NewPut, Atomic!NewPut, None, Atomic!None
  <2>4. callBar' = [callBar EXCEPT ![c] = Atomic!NewPut(k, v)]
    BY <2>2, <2>3, CallBarChanged
  <2>5. UNCHANGED storeBar
    BY <1>2, StoreBarUnchanged DEF PutCall
  <2>6. callBar[c].op = "idle"
    BY <1>0, <1>2 DEF PutCall, CallShape, ShapeOK, callBar, IdleCall
  <2> QED
    BY <2>4, <2>5, <2>6 DEF Atomic!Next, Atomic!Invoke
<1>3. ASSUME NEW c \in Clients, GetCall(c) PROVE Mapped
  <2>1. PICK k \in Keys : call' = [call EXCEPT ![c] = NewGet(k)]
    BY <1>3 DEF GetCall
  <2>2. /\ call'[c] = NewGet(k)
        /\ \A d \in Clients \ {c} : call'[d] = call[d]
    BY <1>0, <2>1
  <2>3. callBar'[c] = Atomic!NewGet(k)
    BY <2>2 DEF callBar, NewGet, Atomic!NewGet, None, Atomic!None
  <2>4. callBar' = [callBar EXCEPT ![c] = Atomic!NewGet(k)]
    BY <2>2, <2>3, CallBarChanged
  <2>5. UNCHANGED storeBar
    BY <1>3, StoreBarUnchanged DEF GetCall
  <2>6. callBar[c].op = "idle"
    BY <1>0, <1>3 DEF GetCall, CallShape, ShapeOK, callBar, IdleCall
  <2> QED
    BY <2>4, <2>5, <2>6 DEF Atomic!Next, Atomic!Invoke
<1>4. ASSUME NEW c \in Clients, CreateTemp(c) PROVE Mapped
  <2>0. call[c].op = "put" /\ call[c].res = None /\ UNCHANGED entry
    BY <1>0, <1>4 DEF CreateTemp, CallShape, ShapeOK, PutSteps
  <2>1. CASE Finish(c, Failed)
    BY <1>4, <2>0, <2>1, FailImplements DEF CreateTemp, Atomic!Next
  <2>2. ASSUME NEW f \in Files,
               call' = [call EXCEPT ![c].pc = "encode", ![c].file = f]
        PROVE  Mapped
    <3>1. callBar' = [callBar EXCEPT ![c] = callBar'[c]]
      BY <1>0, <2>2, OpenCall, CallBarChanged
    <3>2. call[c] \in Calls /\ call[c].pc = "create"
      BY <1>0, <1>4 DEF CreateTemp
    <3>3. call'[c] = [call[c] EXCEPT !.pc = "encode", !.file = f]
      BY <1>0, <2>2
    <3>4. callBar'[c] = callBar[c]
      BY <3>2, <3>3 DEF callBar, Calls
    <3> QED
      BY <2>0, <3>1, <3>4, StoreBarUnchanged DEF callBar
  <2> QED
    BY <1>4, <2>1, <2>2 DEF CreateTemp, StartFile
<1>5. ASSUME NEW c \in Clients, Encode(c) \/ CloseEncoder(c) \/ CloseTemp(c)
      PROVE  Mapped
  <2>1. Writing(c) /\ call[c].pc # "decode" /\ UNCHANGED entry
    BY <1>5 DEF Encode, CloseEncoder, CloseTemp, Writing, WriteSteps
  <2>2. CASE Finish(c, Failed)
    BY <2>1, <2>2, WritingCall, FailImplements DEF Atomic!Next
  <2>3. CASE \E s \in WriteSteps : Goto(c, s)
    BY <2>1, <2>3, GotoImplements
  <2> QED
    BY <1>5, <2>2, <2>3 DEF Encode, CloseEncoder, CloseTemp, WriteSteps
<1>6. ASSUME NEW c \in Clients, Rename(c) PROVE Mapped
  <2>0. /\ Writing(c) /\ call[c].pc = "rename" /\ call[c] \in Calls
        /\ UNCHANGED data
    BY <1>0, <1>6 DEF Rename, Writing, WriteSteps
  <2>1. CASE Finish(c, Failed) /\ UNCHANGED entry
    BY <2>0, <2>1, WritingCall, FailImplements DEF Atomic!Next
  <2>2. CASE /\ entry' = [entry EXCEPT ![call[c].key] = call[c].file]
             /\ Finish(c, Stored)
    <3> DEFINE k == call[c].key
    <3>1. k \in Keys /\ call[c].op = "put" /\ call[c].res = None
      BY <2>0, WritingCall
    <3>2. /\ data'[call[c].file] = Whole(call[c].val)
          /\ call[c].file # NoFile
      BY <2>0, Alone, FilesAssumption DEF IInv, WholeBeforeRename
    <3>3. entry'[k] = call[c].file /\ \A j \in Keys \ {k} : entry'[j] = entry[j]
      BY <1>0, <2>2, <3>1 DEF TypeOK
    <3>4. storeBar'[k] = call[c].val
      BY <3>1, <3>2, <3>3 DEF storeBar, Whole
    <3>5. storeBar' = [storeBar EXCEPT ![k] = call[c].val]
      <4>1. \A j \in Keys \ {k} : storeBar'[j] = storeBar[j]
        BY <3>3, StoreBarKept
      <4>2. /\ storeBar = [j \in Keys |-> storeBar[j]]
            /\ storeBar' = [j \in Keys |-> storeBar'[j]]
        BY DEF storeBar
      <4> QED
        BY <3>4, <4>1, <4>2
    <3>6. callBar' = [callBar EXCEPT ![c] = callBar'[c]]
      BY <1>0, <2>2, FinishCall, CallBarChanged
    <3>7. callBar'[c] = [callBar[c] EXCEPT !.res = Stored]
      BY <1>0, <2>0, <2>2 DEF Finish, callBar, Calls
    <3>8. callBar' = [callBar EXCEPT ![c].res = Stored]
      BY <3>6, <3>7 DEF callBar
    <3>9. /\ callBar[c].op = "put" /\ callBar[c].res = None
          /\ callBar[c].key = k /\ callBar[c].val = call[c].val
      BY <2>0, <3>1 DEF callBar
    <3> QED
      BY <3>5, <3>8, <3>9
         DEF Atomic!Next, Atomic!TakeEffect, Atomic!None, None, Atomic!Stored, Stored
  <2> QED
    BY <1>6, <2>1, <2>2 DEF Rename
<1>7. ASSUME NEW c \in Clients, Open(c) PROVE Mapped
  <2> DEFINE k == call[c].key
  <2>0. /\ call[c].op = "get" /\ k \in Keys /\ call[c].res = None
        /\ call[c].pc = "open" /\ call[c] \in Calls
        /\ UNCHANGED <<entry, data>>
    BY <1>0, <1>7 DEF Open, CallShape, ShapeOK, GetSteps
  <2>1. CASE Finish(c, Failed)
    BY <2>0, <2>1, FailImplements DEF Atomic!Next
  <2>2. ASSUME \A d \in Clients \ {c} : call'[d] = call[d],
               callBar'[c] = [callBar[c] EXCEPT !.res = Atomic!Outcome(storeBar[k])]
        PROVE  Mapped
    <3>1. callBar' = [callBar EXCEPT ![c].res = Atomic!Outcome(storeBar[k])]
      BY <2>2, CallBarChanged DEF callBar
    <3>2. callBar[c].op = "get" /\ callBar[c].res = None /\ callBar[c].key = k
      BY <2>0 DEF callBar
    <3> QED
      BY <2>0, <3>1, <3>2, StoreBarUnchanged
         DEF Atomic!Next, Atomic!Observe, Atomic!None, None
  <2>3. CASE entry[k] = NoFile /\ Finish(c, Absent)
    <3>1. Atomic!Outcome(storeBar[k]) = Absent
      BY <2>0, <2>3 DEF Atomic!Outcome, storeBar, Absent, Atomic!Torn
    <3>2. callBar'[c] = [callBar[c] EXCEPT !.res = Absent]
      BY <1>0, <2>0, <2>3 DEF Finish, callBar, Calls
    <3> QED
      BY <1>0, <2>2, <2>3, <3>1, <3>2, FinishCall
  <2>4. CASE /\ entry[k] # NoFile
             /\ call' = [call EXCEPT ![c].pc = "decode", ![c].file = entry[k]]
    <3>1. Atomic!Outcome(storeBar[k]) = Decoded(data[entry[k]])
      BY <1>0, <2>0, <2>4, OutcomeDecoded
    <3>2. call'[c] = [call[c] EXCEPT !.pc = "decode", !.file = entry[k]]
      BY <1>0, <2>4
    <3>3. /\ call'[c].op = call[c].op /\ call'[c].key = k
          /\ call'[c].val = call[c].val
          /\ call'[c].pc = "decode" /\ call'[c].file = entry[k]
      BY <2>0, <3>2 DEF Calls
    <3>4. callBar'[c] = [op |-> call[c].op, key |-> k, val |-> call[c].val,
                         res |-> Decoded(data[entry[k]])]
      BY <2>0, <3>3 DEF callBar, Decoded
    <3>5. callBar'[c] = [callBar[c] EXCEPT !.res = Decoded(data[entry[k]])]
      BY <2>0, <3>4 DEF callBar
    <3> QED
      BY <1>0, <2>2, <2>4, <3>1, <3>5, OpenCall
  <2> QED
    BY <1>7, <2>1, <2>3, <2>4 DEF Open
<1>8. ASSUME NEW c \in Clients, Decode(c) PROVE Mapped
  <2>0. /\ call[c].op = "get" /\ call[c].pc = "decode" /\ call[c] \in Calls
        /\ UNCHANGED <<entry, data>>
    BY <1>0, <1>8, ReadingCall DEF Decode
  <2>1. CASE Finish(c, Failed)
    BY <2>0, <2>1, FailImplements DEF Atomic!Next
  <2>2. CASE Finish(c, Decoded(data[call[c].file]))
    <3>1. callBar' = [callBar EXCEPT ![c] = callBar'[c]]
      BY <1>0, <2>2, FinishCall, CallBarChanged
    <3>2. callBar'[c] = callBar[c]
      BY <1>0, <2>0, <2>2 DEF Finish, callBar, Calls
    <3> QED
      BY <2>0, <3>1, <3>2, StoreBarUnchanged DEF callBar
  <2> QED
    BY <1>8, <2>1, <2>2 DEF Decode
<1>9. ASSUME NEW c \in Clients, Return(c) \/ Crash(c) PROVE Mapped
  <2>1. /\ call'[c] = IdleCall /\ UNCHANGED entry
        /\ \A d \in Clients \ {c} : call'[d] = call[d]
    BY <1>0, <1>9 DEF Return, Crash
  <2>2. callBar'[c] = Atomic!IdleCall
    BY <2>1 DEF callBar, IdleCall, Atomic!IdleCall, None, Atomic!None
  <2>3. callBar' = [callBar EXCEPT ![c] = Atomic!IdleCall]
    BY <2>1, <2>2, CallBarChanged
  <2>4. CASE Return(c)
    <3>1. call[c].res \in Results /\ call[c].pc = "return"
      BY <1>0, <2>4 DEF Return, CallShape, ShapeOK
    <3>2. callBar[c].res # None
      BY <3>1, ResponsesAssumption
         DEF callBar, Results, None, Absent, Failed, Stored
    <3> QED
      BY <2>1, <2>3, <3>2, StoreBarUnchanged
         DEF Atomic!Next, Atomic!Return, None, Atomic!None
  <2>5. CASE Crash(c)
    <3>1. call[c].pc # "idle" /\ call[c] \in Calls
      BY <1>0, <2>5 DEF Crash
    <3>2. callBar[c].op # "idle"
      BY <1>0, <3>1
         DEF CallShape, ShapeOK, callBar, Calls, Steps, PutSteps, GetSteps
    <3> QED
      BY <2>1, <2>3, <3>2, StoreBarUnchanged DEF Atomic!Next, Atomic!Crash
  <2> QED
    BY <1>9, <2>4, <2>5
<1>10. ASSUME NEW k \in Keys, PruneEntry(k) PROVE Mapped
  <2>1. storeBar[k] # Absent
    BY <1>0, <1>10, OutcomeDecoded DEF PruneEntry
  <2>2. entry'[k] = NoFile /\ \A j \in Keys \ {k} : entry'[j] = entry[j]
    BY <1>0, <1>10 DEF PruneEntry, TypeOK
  <2>3. storeBar' = [storeBar EXCEPT ![k] = Absent]
    <3>1. \A j \in Keys \ {k} : storeBar'[j] = storeBar[j]
      BY <2>2, StoreBarKept
    <3>2. storeBar'[k] = Absent
      BY <2>2 DEF storeBar
    <3>3. /\ storeBar = [j \in Keys |-> storeBar[j]]
          /\ storeBar' = [j \in Keys |-> storeBar'[j]]
      BY DEF storeBar
    <3> QED
      BY <3>1, <3>2, <3>3
  <2>4. UNCHANGED callBar
    <3>1. \A c \in Clients : callBar'[c] = callBar[c]
      BY <1>10, CallBarKept DEF PruneEntry
    <3> QED
      BY <3>1 DEF callBar
  <2> QED
    BY <2>1, <2>3, <2>4 DEF Atomic!Next, Atomic!Prune, Atomic!Absent, Absent
<1> QED
  BY <1>1, <1>2, <1>3, <1>4, <1>5, <1>6, <1>7, <1>8, <1>9, <1>10
     DEF Next, Step, vars, NewFileCache, PruneTemp, PruneDir

\* FileCache's Get and Put are atomic, as the Cache interface promises across
\* goroutines and processes (cache.go:19-26), for any number of them.
THEOREM FileCacheIsAtomic == Spec => ImplementsAtomicCache
<1>1. Init => Atomic!Init
  BY InitImplements
<1>2. IInv /\ [Next]_vars => [Atomic!Next]_(Atomic!vars)
  BY NextImplements
<1> QED
  BY <1>1, <1>2, Invariance, PTL DEF Spec, ImplementsAtomicCache, Atomic!Spec
=============================================================================
