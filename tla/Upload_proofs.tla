---------------------------- MODULE Upload_proofs ----------------------------
(***************************************************************************)
(* Proof that an upload whose body ends cleanly is whole, and that a call  *)
(* succeeds only with a whole upload, for any number of files and pieces.  *)
(*                                                                         *)
(* The invariant ties what the server has to the part the producer is at,  *)
(* and the end of the body, through the pipe, to a producer without error. *)
(***************************************************************************)
EXTENDS Upload, TLAPS

\* The body of a request is a sequence of parts.
LEMMA PartsType ==
  ASSUME NEW r \in Requests PROVE Parts(r) \in Seq(PartNames)
<1>0. << >> \in Seq(PartNames) /\ \A x, y \in PartNames : <<x>> \in Seq(PartNames)
                                                        /\ <<x, y>> \in Seq(PartNames)
  OBVIOUS
<1>1. OptionParts(r) \in Seq(PartNames)
  <2>1. {"options", "convert_options", "chunking_options"} \subseteq PartNames
    BY DEF PartNames
  <2> QED
    BY <1>0, <2>1 DEF OptionParts
<1>2. FlagParts(r) \in Seq(PartNames)
  <2>1. {"target_type", "include_converted_doc"} \subseteq PartNames
    BY DEF PartNames
  <2> QED
    BY <1>0, <2>1 DEF FlagParts
<1>3. FileParts(r.files) \in Seq(PartNames)
  <2> DEFINE n == r.files * (Pieces + 1)
  <2>1. r.files \in Nat
    BY UploadAssumption DEF Requests
  <2>2. n \in Nat
    BY <2>1, UploadAssumption
  <2>3. \A i \in 1 .. n : FileParts(r.files)[i] \in PartNames
    BY DEF FileParts, PartNames
  <2>4. FileParts(r.files) = [i \in 1 .. n |-> FileParts(r.files)[i]]
    BY DEF FileParts
  <2> HIDE DEF n
  <2> QED
    BY <2>2, <2>3, <2>4
<1> QED
  BY <1>1, <1>2, <1>3 DEF Parts

LEMMA InitIInv == Init => IInv
<1> SUFFICES ASSUME Init PROVE IInv
  OBVIOUS
<1>1. Parts(request) \in Seq(PartNames)
  BY PartsType DEF Init
<1>2. TypeOK
  <2>1. 0 \in 0 .. Len(Parts(request))
    BY <1>1
  <2>2. << >> \in Seq(PartNames \cup {Boundary})
    OBVIOUS
  <2> QED
    BY <2>1, <2>2 DEF Init, TypeOK, Callers, Producers
<1>3. Written /\ ClosesWhole /\ EndIsFinished /\ CallerAnswered
  BY DEF Init, Written, ClosesWhole, EndIsFinished, Finished, CallerAnswered
<1> QED
  BY <1>2, <1>3 DEF IInv

\* A step that leaves the request alone leaves its body alone.
LEMMA SameBody ==
  ASSUME request' = request
  PROVE  Parts(request)' = Parts(request) /\ Whole' = Whole /\ \A i : Part(i)' = Part(i)
BY DEF Parts, OptionParts, FlagParts, Whole, Part

\* The caller's steps leave what the producer has sent alone.
LEMMA CallerKeepsIInv == IInv /\ Caller => IInv'
<1> SUFFICES ASSUME IInv, Caller PROVE IInv'
  OBVIOUS
<1> USE DEF IInv, Call, NewRequest, DoFails, Answered, DecodeAnswer
<1>1. /\ Parts(request) \in Seq(PartNames)
      /\ request' = request /\ pipe' = pipe
      /\ producer'.done = producer.done /\ producer'.err = producer.err
      /\ wire'.got = wire.got /\ wire'.answer = wire.answer
  BY PartsType DEF TypeOK, Producers, Caller
<1>2. /\ Parts(request)' = Parts(request) /\ Whole' = Whole
      /\ \A i : Part(i)' = Part(i)
  BY <1>1, SameBody
<1>3. TypeOK'
  BY <1>1, <1>2 DEF Caller, Returned, TypeOK, Callers, Producers
<1>4. \/ producer'.pc = producer.pc
      \/ producer.pc = "none" /\ producer'.pc = "source"
  BY DEF Caller, CallerAnswered, TypeOK, Producers
<1>5. Written'
  <2>1. producer'.pc = "write" => producer.pc = "write"
    BY <1>4
  <2>2. producer'.pc \in {"none", "source", "write", "closing"} =>
          producer.pc \in {"none", "source", "write", "closing"}
    BY <1>4
  <2> QED
    BY <1>1, <1>2, <2>1, <2>2 DEF Written
<1>6. ClosesWhole'
  BY <1>1, <1>2, <1>4 DEF ClosesWhole
<1>7. EndIsFinished'
  BY <1>1, <1>4 DEF Caller, EndIsFinished, Finished, TypeOK
<1>8. CallerAnswered'
  BY <1>1 DEF Caller, Returned, CallerAnswered, TypeOK, Callers
<1> QED
  BY <1>3, <1>5, <1>6, <1>7, <1>8

\* The producer closes without an error only after its last part.
LEMMA ProducerKeepsIInv == IInv /\ Producer => IInv'
<1> SUFFICES ASSUME IInv, Producer PROVE IInv'
  OBVIOUS
<1> USE DEF IInv
<1> USE DEF Source, WriteFails, CloseFails, ClosePipe
<1>1. /\ Parts(request) \in Seq(PartNames)
      /\ request' = request /\ Parts(request)' = Parts(request)
      /\ wire' = wire /\ caller' = caller
  BY PartsType DEF TypeOK, Producer, Parts, OptionParts, FlagParts
<1> USE DEF TypeOK, Callers, Producers
<1>2. TypeOK'
  <2>1. producer' \in Producers
    <3>1. CASE Source
      BY <3>1
    <3>2. CASE WriteFails \/ CloseFails
      BY <3>2
    <3>3. CASE ClosePipe
      BY <3>3
    <3> QED
      BY <3>1, <3>2, <3>3 DEF Producer
  <2>2. Producers' = Producers
    BY <1>1
  <2>3. pipe' \in [write: {"open", "EOF", "error"}, read: {"open", "closed"}]
    BY DEF Producer
  <2> QED
    BY <1>1, <2>1, <2>2, <2>3
<1>3. Written'
  BY <1>1 DEF Producer, Written, Part
<1>4. ClosesWhole'
  BY <1>1 DEF Producer, ClosesWhole, Whole
<1>5. EndIsFinished'
  BY <1>1 DEF Producer, EndIsFinished, Finished
<1>6. CallerAnswered'
  BY <1>1 DEF Producer, CallerAnswered
<1> QED
  BY <1>2, <1>3, <1>4, <1>5, <1>6

\* The transport appends what the producer is at.
LEMMA TransferKeepsIInv == IInv /\ Transfer => IInv'
<1> SUFFICES ASSUME IInv, Transfer PROVE IInv'
  OBVIOUS
<1> USE DEF IInv
<1>1. /\ Parts(request) \in Seq(PartNames)
      /\ request' = request /\ Parts(request)' = Parts(request)
      /\ pipe' = pipe /\ caller' = caller
  BY PartsType DEF TypeOK, Transfer, Parts, OptionParts, FlagParts
<1> USE DEF TypeOK, Callers, Producers
<1>2. wire.got \in Seq(PartNames \cup {Boundary})
  OBVIOUS
<1>3. CASE producer.pc = "write"
  <2> DEFINE part == Part(producer.done + 1)
  <2>1. /\ producer.done < Len(Parts(request)) /\ producer.done \in Nat
        /\ Len(wire.got) = producer.done
        /\ \A i \in 1 .. producer.done : wire.got[i] = Part(i)
    BY <1>1, <1>3 DEF Written
  <2>2. part \in PartNames
    BY <1>1, <2>1 DEF Part
  <2>3. /\ producer' = [producer EXCEPT !.pc = "source", !.done = @ + 1]
        /\ wire' = [wire EXCEPT !.got = Append(wire.got, part)]
    BY <1>3 DEF Transfer
  <2> HIDE DEF part
  <2>4. /\ wire'.got = Append(wire.got, part)
        /\ wire'.got \in Seq(PartNames \cup {Boundary})
        /\ wire'.end = wire.end /\ wire'.answer = wire.answer
    BY <1>2, <2>2, <2>3
  <2>5. TypeOK'
    <3>1. wire' \in [got: Seq(PartNames \cup {Boundary}),
                    end: {"unsent", "sending", "clean", "cut"},
                    answer: {"none", "2xx", "refused"}]
      BY <2>3, <2>4
    <3>2. producer.done + 1 \in 0 .. Len(Parts(request))
      BY <1>1, <2>1
    <3>3. producer' \in Producers'
      BY <1>1, <1>3, <2>3, <3>2
    <3> QED
      BY <1>1, <3>1, <3>3
  <2>6. Written'
    <3>1. Len(wire'.got) = producer.done + 1 /\ wire'.got[producer.done + 1] = part
      BY <1>2, <2>1, <2>4
    <3>2. \A i \in 1 .. producer.done : wire'.got[i] = wire.got[i]
      BY <1>2, <2>1, <2>4
    <3>3. \A i \in 1 .. producer.done + 1 : wire'.got[i] = Part(i)
      BY <2>1, <3>1, <3>2 DEF part
    <3>4. \A i : Part(i)' = Part(i)
      BY <1>1 DEF Part
    <3> QED
      BY <2>1, <2>3, <3>1, <3>3, <3>4 DEF Written
  <2>7. ClosesWhole' /\ EndIsFinished' /\ CallerAnswered'
    BY <1>1, <1>3, <2>3, <2>4
       DEF ClosesWhole, EndIsFinished, Finished, CallerAnswered
  <2> QED
    BY <2>5, <2>6, <2>7
<1>4. CASE producer.pc = "closing"
  <2>1. /\ producer' = [producer EXCEPT !.pc = "close"]
        /\ wire' = [wire EXCEPT !.got = Append(wire.got, Boundary)]
    BY <1>4 DEF Transfer
  <2>2. /\ wire'.got = Append(wire.got, Boundary)
        /\ wire'.got \in Seq(PartNames \cup {Boundary})
        /\ wire'.end = wire.end /\ wire'.answer = wire.answer
    BY <1>2, <2>1
  <2>3. TypeOK'
    <3>1. wire' \in [got: Seq(PartNames \cup {Boundary}),
                    end: {"unsent", "sending", "clean", "cut"},
                    answer: {"none", "2xx", "refused"}]
      BY <2>1, <2>2
    <3>2. producer' \in Producers'
      BY <1>1, <1>4, <2>1
    <3> QED
      BY <1>1, <3>1, <3>2
  <2>4. Written'
    BY <1>4, <2>1 DEF Written
  <2>5. ClosesWhole'
    <3>1. SUFFICES ASSUME producer.err = "none" PROVE wire'.got = Whole
      BY <1>1, <1>4, <2>1 DEF ClosesWhole, Whole
    <3>2. /\ Len(wire.got) = Len(Parts(request))
          /\ \A i \in 1 .. Len(wire.got) : wire.got[i] = Parts(request)[i]
      BY <1>4, <3>1 DEF Written, ClosesWhole, Part
    <3>3. wire.got = Parts(request)
      BY <1>1, <1>2, <3>2
    <3> QED
      BY <2>2, <3>3 DEF Whole
  <2>6. EndIsFinished' /\ CallerAnswered'
    BY <1>1, <1>4, <2>1, <2>2 DEF EndIsFinished, Finished, CallerAnswered
  <2> QED
    BY <2>3, <2>4, <2>5, <2>6
<1> QED
  BY <1>3, <1>4 DEF Transfer

\* The end of the body and the answer of the server.
LEMMA WireKeepsIInv ==
  IInv /\ (EndBody \/ LoseConnection \/ CloseBody \/ Answer) => IInv'
<1> SUFFICES ASSUME IInv, EndBody \/ LoseConnection \/ CloseBody \/ Answer
             PROVE  IInv'
  OBVIOUS
<1> USE DEF IInv
<1>1. /\ Parts(request) \in Seq(PartNames)
      /\ request' = request /\ Parts(request)' = Parts(request)
      /\ producer' = producer /\ caller' = caller /\ wire'.got = wire.got
  BY PartsType
     DEF TypeOK, EndBody, LoseConnection, CloseBody, Answer, Parts, OptionParts, FlagParts
<1>2. TypeOK'
  BY <1>1 DEF TypeOK, Producers, EndBody, LoseConnection, CloseBody, Answer
<1>3. Written' /\ ClosesWhole'
  BY <1>1 DEF Written, ClosesWhole, Part, Whole
<1>4. EndIsFinished'
  BY <1>1 DEF TypeOK, EndIsFinished, Finished,
              EndBody, LoseConnection, CloseBody, Answer, HasRead
<1>5. CallerAnswered'
  BY <1>1 DEF TypeOK, CallerAnswered, EndBody, LoseConnection, CloseBody, Answer
<1> QED
  BY <1>2, <1>3, <1>4, <1>5

LEMMA StutterKeepsIInv == IInv /\ UNCHANGED vars => IInv'
BY DEF vars, IInv, TypeOK, Producers, Written, ClosesWhole, EndIsFinished, Finished,
       CallerAnswered, Part, Parts, OptionParts, FlagParts, Whole

LEMMA Invariance == Spec => []IInv
<1>1. IInv /\ [Next]_vars => IInv'
  BY CallerKeepsIInv, ProducerKeepsIInv, TransferKeepsIInv, WireKeepsIInv,
     StutterKeepsIInv DEF Next, Transport
<1> QED
  BY InitIInv, <1>1, PTL DEF Spec

\* The caller, the producer, the pipe and the wire are always in one of their
\* states, and a call that has returned has a result.
THEOREM TypeCorrect == Spec => []TypeOK
<1>1. IInv => TypeOK
  BY DEF IInv
<1> QED
  BY Invariance, <1>1, PTL

\* A body that ends cleanly on the wire is whole: no error of the producer passes
\* for the end of the body.
THEOREM CleanEndsAreWhole == Spec => []CleanEndIsWhole
<1>1. IInv => CleanEndIsWhole
  BY DEF IInv, EndIsFinished, Finished, ClosesWhole, CleanEndIsWhole
<1> QED
  BY Invariance, <1>1, PTL

\* A call returns a response only if the server accepted and, when it is one that
\* reads the body to its end first, had all of the upload.
THEOREM OkUploadsAreWhole == Spec => []OkIsWhole
<1>1. IInv => OkIsWhole
  BY DEF IInv, EndIsFinished, Finished, ClosesWhole, CallerAnswered, OkIsWhole
<1> QED
  BY Invariance, <1>1, PTL
=============================================================================
