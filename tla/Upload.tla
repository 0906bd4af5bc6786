------------------------------- MODULE Upload -------------------------------
(***************************************************************************)
(* A file upload: ProcessFile (convert.go) and chunkFile (chunk.go).       *)
(*                                                                         *)
(* The caller starts a goroutine, the producer, that writes the multipart  *)
(* body into an io.Pipe, and hands the pipe's read end to net/http as the  *)
(* request's body.  The two run concurrently from then on: the transport   *)
(* pulls the body out of the pipe and sends it, the server may answer at   *)
(* any point of it, the caller may return (on an answer, an error, a       *)
(* cancelled context or the client's timeout) while the producer writes.   *)
(*                                                                         *)
(* io.Pipe, multipart.Writer, the transport and the server are modelled    *)
(* from how the code uses them.                                            *)
(***************************************************************************)
EXTENDS Naturals, Sequences

CONSTANTS
  MaxFiles,   \* bound on the files of a request
  Pieces      \* the pieces io.Copy writes a file in

ASSUME UploadAssumption == MaxFiles \in Nat /\ Pieces \in Nat

VARIABLES
  request,    \* what the caller was asked to upload, and under which circumstances
  caller,     \* pc, and the result once it has returned
  producer,   \* pc, the parts it has written, and err of the goroutine
  pipe,       \* what the write end and the read end of the pipe were closed with
  wire        \* what the server has of the body, how far the transport is with
              \* it (it ends cleanly or is cut off), and the answer

vars == <<request, caller, producer, pipe, wire>>

----------------------------------------------------------------------------
(* The body *)

\* flag: TargetType, or IncludeConvertedDoc, is set; deadline: the context or the
\* http.Client has a time limit; server: how much of the body the server reads before
\* it answers 2xx, "end", "boundary" (the closing boundary) or "start" (nothing).
Requests ==
  [kind: {"convert", "chunk"}, flag: BOOLEAN, files: 0 .. MaxFiles,
   deadline: BOOLEAN, server: {"start", "boundary", "end"}]

Boundary == "closing boundary"

\* CreateFormFile and io.Copy for each file.
FileParts(n) ==
  [i \in 1 .. n * (Pieces + 1) |->
     IF (i - 1) % (Pieces + 1) = 0 THEN "file header" ELSE "file data"]

\* encodeFormFields: the options that are set, in the order of the struct.
OptionParts(r) ==
  IF r.kind = "convert" THEN <<"options">> ELSE <<"convert_options", "chunking_options">>

FlagParts(r) ==
  IF ~r.flag THEN << >>
  ELSE IF r.kind = "convert" THEN <<"target_type">> ELSE <<"include_converted_doc">>

Parts(r) == OptionParts(r) \o FlagParts(r) \o FileParts(r.files)

\* json.Marshal or an unsupported kind may fail the options, Read the data of a
\* file; the other parts only fail with the pipe.
Fallible == {"options", "convert_options", "chunking_options", "file data"}

Part(i) == Parts(request)[i]

----------------------------------------------------------------------------

Init ==
  /\ request \in Requests
  /\ caller = [pc |-> "call", res |-> "none"]
  /\ producer = [pc |-> "none", done |-> 0, err |-> "none"]
  /\ pipe = [write |-> "open", read |-> "open"]
  /\ wire = [got |-> << >>, end |-> "unsent", answer |-> "none"]

Returned(res) == caller' = [pc |-> "returned", res |-> res]

----------------------------------------------------------------------------
(* The caller *)

\* Without files there is nothing to upload; else the producer is started.
Call ==
  /\ caller.pc = "call"
  /\ IF request.files = 0
     THEN Returned("error") /\ UNCHANGED producer
     ELSE /\ caller' = [caller EXCEPT !.pc = "request"]
          /\ producer' = [producer EXCEPT !.pc = "source"]
  /\ UNCHANGED <<request, pipe, wire>>

\* Variant: newRequest's error is in a variable of its own, and another err, which is
\* nil, is returned: the call has neither a response nor an error.
NewRequestShadowed ==
  /\ caller.pc = "request"
  /\ \/ /\ caller' = [caller EXCEPT !.pc = "do"]
        /\ wire' = [wire EXCEPT !.end = "sending"]
     \/ Returned("none") /\ UNCHANGED wire
  /\ UNCHANGED <<request, producer, pipe>>

\* newRequest fails when BaseURL does not parse.
NewRequest ==
  /\ caller.pc = "request"
  /\ \/ /\ caller' = [caller EXCEPT !.pc = "do"]
        /\ wire' = [wire EXCEPT !.end = "sending"]
     \/ Returned("error") /\ UNCHANGED wire
  /\ UNCHANGED <<request, producer, pipe>>

\* HTTPClient.Do fails: the body was cut off, the connection was lost or could
\* not be made, or the time limit has passed.
DoFails ==
  /\ caller.pc = "do"
  /\ wire.end = "cut" \/ request.deadline
  /\ Returned("error")
  /\ UNCHANGED <<request, producer, pipe, wire>>

\* Variant: doJSON decodes whatever it is answered.
AnsweredUnchecked ==
  /\ caller.pc = "do" /\ wire.answer # "none"
  /\ caller' = [caller EXCEPT !.pc = "decode"]
  /\ UNCHANGED <<request, producer, pipe, wire>>

\* Do returns an answer, and doJSON an APIError unless it is a 2xx.
Answered ==
  /\ caller.pc = "do" /\ wire.answer # "none"
  /\ IF wire.answer = "2xx" THEN caller' = [caller EXCEPT !.pc = "decode"]
                            ELSE Returned("APIError")
  /\ UNCHANGED <<request, producer, pipe, wire>>

\* Reading the answer may fail, or it is not the JSON that was expected.
DecodeAnswer ==
  /\ caller.pc = "decode"
  /\ Returned("ok") \/ Returned("error")
  /\ UNCHANGED <<request, producer, pipe, wire>>

----------------------------------------------------------------------------
(* The producer goroutine *)

\* The next part is made from the options or read from a file; after an error or
\* the last part, the deferred function runs.
Source ==
  /\ producer.pc = "source"
  /\ \/ /\ producer.done < Len(Parts(request))
        /\ producer' = [producer EXCEPT !.pc = "write"]
     \/ /\ producer.done < Len(Parts(request)) /\ Part(producer.done + 1) \in Fallible
        /\ producer' = [producer EXCEPT !.pc = "closing", !.err = "source"]
     \/ /\ producer.done = Len(Parts(request))
        /\ producer' = [producer EXCEPT !.pc = "closing"]
  /\ UNCHANGED <<request, caller, pipe, wire>>

\* Variant: a write is tried again.
WriteFailsAgain ==
  /\ producer.pc = "write" /\ pipe.read = "closed"
  /\ producer' = [producer EXCEPT !.pc = "source"]
  /\ UNCHANGED <<request, caller, pipe, wire>>

\* Once the read end is closed, Write returns io.ErrClosedPipe.
WriteFails ==
  /\ producer.pc = "write" /\ pipe.read = "closed"
  /\ producer' = [producer EXCEPT !.pc = "closing", !.err = "pipe"]
  /\ UNCHANGED <<request, caller, pipe, wire>>

\* mw.Close cannot write the closing boundary; its error counts if it is the first.
CloseFails ==
  /\ producer.pc = "closing" /\ pipe.read = "closed"
  /\ producer' = [producer EXCEPT !.pc = "close",
                                  !.err = IF @ = "none" THEN "pipe" ELSE @]
  /\ UNCHANGED <<request, caller, pipe, wire>>

\* Variant: the pipe is closed without the error.
ClosePipePlain ==
  /\ producer.pc = "close"
  /\ producer' = [producer EXCEPT !.pc = "done"]
  /\ pipe' = [pipe EXCEPT !.write = "EOF"]
  /\ UNCHANGED <<request, caller, wire>>

\* Variant: the pipe is closed only after a success.
ClosePipeOnSuccess ==
  /\ producer.pc = "close"
  /\ producer' = [producer EXCEPT !.pc = "done"]
  /\ pipe' = [pipe EXCEPT !.write = IF producer.err = "none" THEN "EOF" ELSE "open"]
  /\ UNCHANGED <<request, caller, wire>>

\* CloseWithError(err); with no error the reader gets io.EOF.
ClosePipe ==
  /\ producer.pc = "close"
  /\ producer' = [producer EXCEPT !.pc = "done"]
  /\ pipe' = [pipe EXCEPT !.write = IF producer.err = "none" THEN "EOF" ELSE "error"]
  /\ UNCHANGED <<request, caller, wire>>

----------------------------------------------------------------------------
(* The transport and the server, external *)

\* A Write of the producer meets a Read of the transport, which also sends while an
\* early answer is read: a part, or the closing boundary, which mw.Close writes
\* after an error of the source too.
Transfer ==
  /\ wire.end = "sending"
  /\ producer.pc \in {"write", "closing"}
  /\ IF producer.pc = "write"
     THEN /\ producer' = [producer EXCEPT !.pc = "source", !.done = @ + 1]
          /\ wire' = [wire EXCEPT !.got = Append(@, Part(producer.done + 1))]
     ELSE /\ producer' = [producer EXCEPT !.pc = "close"]
          /\ wire' = [wire EXCEPT !.got = Append(@, Boundary)]
  /\ UNCHANGED <<request, caller, pipe>>

\* The body ends: after EOF with the last chunk, after a read error without it;
\* either way the transport closes the read end.
EndBody ==
  /\ wire.end = "sending" /\ pipe.write # "open"
  /\ wire' = [wire EXCEPT !.end = IF pipe.write = "EOF" THEN "clean" ELSE "cut"]
  /\ pipe' = [pipe EXCEPT !.read = "closed"]
  /\ UNCHANGED <<request, caller, producer>>

\* The connection is lost, or was never made.
LoseConnection ==
  /\ caller.pc \in {"do", "decode"} /\ wire.end # "cut"
  /\ wire' = [wire EXCEPT !.end = "cut"]
  /\ pipe' = [pipe EXCEPT !.read = "closed"]
  /\ UNCHANGED <<request, caller, producer>>

\* RoundTrip closes the body in any case, maybe after Do has returned.
CloseBody ==
  /\ wire.end = "sending" /\ caller.pc = "returned"
  /\ wire' = [wire EXCEPT !.end = "cut"]
  /\ pipe' = [pipe EXCEPT !.read = "closed"]
  /\ UNCHANGED <<request, caller, producer>>

\* A server may refuse early; it accepts when it has read as much as it does.
HasRead ==
  CASE request.server = "start"    -> TRUE
    [] request.server = "boundary" -> Boundary \in {wire.got[i] : i \in DOMAIN wire.got}
    [] request.server = "end"      -> wire.end = "clean"

Answer ==
  /\ caller.pc = "do" /\ wire.end # "cut" /\ wire.answer = "none"
  /\ \E a \in {"2xx", "refused"} :
       /\ a = "2xx" => HasRead
       /\ wire' = [wire EXCEPT !.answer = a]
  /\ UNCHANGED <<request, caller, producer, pipe>>

----------------------------------------------------------------------------

Caller == Call \/ NewRequest \/ DoFails \/ Answered \/ DecodeAnswer

Producer == Source \/ WriteFails \/ CloseFails \/ ClosePipe

Transport == Transfer \/ EndBody \/ CloseBody

Next == Caller \/ Producer \/ Transport \/ LoseConnection \/ Answer

Spec == Init /\ [][Next]_vars

\* Goroutines are scheduled, the transport reads a body it has begun to send and
\* a server answers a body that has ended; no connection need be lost.
FairSpec ==
  /\ Spec
  /\ WF_vars(Caller) /\ WF_vars(Producer) /\ WF_vars(Transport)
  /\ WF_vars(Answer /\ wire.end = "clean")

----------------------------------------------------------------------------
(* Properties *)

Whole == Append(Parts(request), Boundary)

Producers ==
  [pc: {"none", "source", "write", "closing", "close", "done"},
   done: 0 .. Len(Parts(request)), err: {"none", "source", "pipe"}]

Callers ==
  [pc: {"call", "request", "do", "decode"}, res: {"none"}]
    \cup [pc: {"returned"}, res: {"ok", "APIError", "error"}]

PartNames ==
  {"options", "convert_options", "chunking_options", "target_type",
   "include_converted_doc", "file header", "file data"}

TypeOK ==
  /\ request \in Requests
  /\ caller \in Callers
  /\ producer \in Producers
  /\ pipe \in [write: {"open", "EOF", "error"}, read: {"open", "closed"}]
  /\ wire \in [got: Seq(PartNames \cup {Boundary}),
               end: {"unsent", "sending", "clean", "cut"},
               answer: {"none", "2xx", "refused"}]

\* A body that ends cleanly on the wire holds every option and every byte of every
\* file, in order: an error of the producer never passes for the end of the body,
\* though mw.Close has written the closing boundary (convert.go:57-64).
CleanEndIsWhole ==
  wire.end = "clean" => wire.got = Whole /\ producer.err = "none"

\* ProcessFile and chunkFile return a response only if the server accepted the
\* upload and, unless it is a server that answers before the end of the body, had
\* all of it (convert.go:57-58: the producer's errors are surfaced).
OkIsWhole ==
  caller.res = "ok" =>
    wire.answer = "2xx" /\ (request.server = "end" => wire.got = Whole)

\* Once the request is made, the goroutine ends, however early the caller returns:
\* it does not stay blocked in the pipe.
ProducerEnds == wire.end # "unsent" ~> producer.pc = "done"

\* The call returns, even without a time limit, since a server answers what it has
\* in full: the transport is never left waiting for a body no one is writing.
CallReturns == caller.pc # "call" ~> caller.pc = "returned"

\* convert.go:57-58: what the goroutine ran into, if anything, reaches the pipe's
\* read end, so every goroutine that is started gets to CloseWithError.
EveryProducerEnds == producer.pc # "none" ~> producer.pc = "done"

----------------------------------------------------------------------------
(* What the proofs need *)

\* Up to the closing boundary, the server has what the producer has written.
Written ==
  /\ producer.pc = "write" => producer.done < Len(Parts(request))
  /\ producer.pc \in {"none", "source", "write", "closing"} =>
       /\ Len(wire.got) = producer.done
       /\ \A i \in 1 .. producer.done : wire.got[i] = Part(i)

\* Without an error the producer closes only what is whole.
ClosesWhole ==
  producer.err = "none" =>
    /\ producer.pc = "closing" => producer.done = Len(Parts(request))
    /\ producer.pc \in {"close", "done"} => wire.got = Whole

Finished == producer.pc = "done" /\ producer.err = "none"

\* The end of the body, and the answer of a server that waits for it, come from a
\* producer that has finished.
EndIsFinished ==
  /\ pipe.write = "EOF" => Finished
  /\ wire.end = "clean" => Finished
  /\ request.server = "end" /\ wire.answer = "2xx" => Finished

CallerAnswered ==
  /\ caller.pc = "call" => producer.pc = "none"
  /\ caller.pc = "decode" \/ caller.res = "ok" => wire.answer = "2xx"

IInv == TypeOK /\ Written /\ ClosesWhole /\ EndIsFinished /\ CallerAnswered
=============================================================================
