---------------------------- MODULE Docli_proofs ----------------------------
(***************************************************************************)
(* A run of docli asks for what its flags say, prints what the server sent *)
(* and exits with 0 when it has done its work; a response from the cache   *)
(* answers the request it stands for, and an interrupted run asks for      *)
(* nothing more; for any command lines, documents and number of runs.      *)
(*                                                                         *)
(* IInv is about how far a run is, and is inductive; DInv, about the       *)
(* documents, the counts and the types, is inductive relative to it.       *)
(***************************************************************************)
EXTENDS Requests_proofs

ResponseFields == {"of", "status", "contents", "chunks", "sent"}

\* The command line and how far its run is.
LineOK ==
  /\ runs \in Nat /\ received \in Nat
  /\ runs > 0 => line \in Lines
  /\ opts = OptionsOf(line)
  /\ pc # "exited" => runs > 0 /\ ~Rejected(line) /\ code = 0
  /\ pc \in {"version", "namespace", "lookup", "store"} \/ caching => line.cmd = "convert"

\* What the run asks the server for and what it is answered.
RequestOK ==
  /\ pc # "exited" =>
       CASE line.cmd = "convert" -> asking \in {"document", "version"}
         [] line.cmd = "chunk"   -> asking = "document"
         [] OTHER                 -> asking = line.cmd
  /\ pc \in {"body", "decode"} => answer \in Answers

\* There is a response once it is looked at; a conversion's was made for the same key.
RespOK ==
  /\ pc \notin {"store", "check", "print", "exited"} => resp = NoResponse
  /\ pc \in {"store", "check", "print"} => resp # NoResponse
  /\ DOMAIN resp = ResponseFields
  /\ pc = "store" => resp.of = line
  /\ resp # NoResponse =>
       /\ ~Rejected(line)
       /\ line.cmd = "convert" => /\ resp.of.cmd = "convert" /\ ~Rejected(resp.of)
                                  /\ resp.of = line \/ KeyOf(resp.of) = KeyOf(line)
       /\ line.cmd = "chunk" => resp.chunks \in Nat

\* Every entry is of a conversion with its key.
StoreOK ==
  \A k \in DOMAIN store :
    /\ DOMAIN store[k] = ResponseFields
    /\ store[k].of.cmd = "convert" /\ ~Rejected(store[k].of) /\ k = KeyOf(store[k].of)

\* The first n items.
Printed(n) == out = [i \in 1 .. n |-> Items[i]]

\* What is on stdout.
OutOK ==
  /\ pc \notin {"print", "exited"} => out = << >>
  /\ pc = "print" => \E n \in 0 .. Len(Items) : Printed(n)
  /\ pc = "exited" /\ runs > 0 /\ code = 0 =>
       /\ resp # NoResponse
       /\ line.cmd = "convert" => Items # << >>
       /\ \/ Printed(Len(Items))
          \/ line.cmd \in {"health", "ready"} /\ \E x \in {Torn} : out = <<x>>

IInv == LineOK /\ RequestOK /\ RespOK /\ StoreOK /\ OutOK

----------------------------------------------------------------------------
(* Steps.  Most of them leave the response, the cache and stdout alone. *)

LEMMA ItemsKept == UNCHANGED <<line, opts, resp>> => Items' = Items
BY DEF Items, ContentItems, ChunkItems, PayloadItems, ChunkPretty, Primary

LEMMA NoResponseIs == NoResponse.of.cmd = "" /\ DOMAIN NoResponse = ResponseFields
<1>1. NoResponse.of = NoLine /\ NoLine.cmd = ""
  BY DEF NoResponse, Response, NoLine, Line
<1> QED
  BY <1>1 DEF NoResponse, Response, ResponseFields

LEMMA AnswersKept == UNCHANGED <<line, asking>> => Answers' = Answers
BY DEF Answers

LEMMA FindVersionInv == ASSUME IInv, FindVersion PROVE IInv'
<1>1. LineOK'
  BY DEF IInv, LineOK, RequestOK, FindVersion, GoLive
<1>2. RequestOK'
  BY AnswersKept DEF IInv, LineOK, RequestOK, FindVersion, GoLive
<1>3. RespOK'
  BY DEF IInv, LineOK, RespOK, FindVersion, GoLive
<1>4. StoreOK'
  BY DEF IInv, StoreOK, FindVersion
<1>5. OutOK'
  BY ItemsKept DEF IInv, LineOK, OutOK, Printed, FindVersion, GoLive
<1> QED
  BY <1>1, <1>2, <1>3, <1>4, <1>5 DEF IInv

LEMMA OpenNamespaceInv == ASSUME IInv, OpenNamespace PROVE IInv'
<1>1. LineOK'
  BY DEF IInv, LineOK, RequestOK, OpenNamespace, GoLive
<1>2. RequestOK'
  BY AnswersKept DEF IInv, LineOK, RequestOK, OpenNamespace, GoLive
<1>3. RespOK'
  BY DEF IInv, LineOK, RespOK, OpenNamespace, GoLive
<1>4. StoreOK'
  BY DEF IInv, StoreOK, OpenNamespace
<1>5. OutOK'
  BY ItemsKept DEF IInv, LineOK, OutOK, Printed, OpenNamespace, GoLive
<1> QED
  BY <1>1, <1>2, <1>3, <1>4, <1>5 DEF IInv

LEMMA SendInv == ASSUME IInv, Send PROVE IInv'
<1>1. LineOK'
  BY DEF IInv, LineOK, RequestOK, Send, CallFails, GoLive, Exit
<1>2. RequestOK'
  BY AnswersKept DEF IInv, LineOK, RequestOK, Send, CallFails, GoLive, Exit
<1>3. RespOK'
  BY DEF IInv, LineOK, RespOK, Send, CallFails, GoLive, Exit
<1>4. StoreOK'
  BY DEF IInv, StoreOK, Send
<1>5. OutOK'
  BY ItemsKept DEF IInv, LineOK, OutOK, Printed, Send, CallFails, GoLive, Exit
<1> QED
  BY <1>1, <1>2, <1>3, <1>4, <1>5 DEF IInv

LEMMA RespondInv == ASSUME IInv, Respond PROVE IInv'
<1>1. LineOK'
  BY DEF IInv, LineOK, RequestOK, Respond
<1>2. RequestOK'
  BY AnswersKept DEF IInv, LineOK, RequestOK, Respond
<1>3. RespOK'
  BY DEF IInv, LineOK, RespOK, Respond
<1>4. StoreOK'
  BY DEF IInv, StoreOK, Respond
<1>5. OutOK'
  BY ItemsKept DEF IInv, LineOK, OutOK, Printed, Respond
<1> QED
  BY <1>1, <1>2, <1>3, <1>4, <1>5 DEF IInv

LEMMA DeliverInv == ASSUME IInv, Deliver PROVE IInv'
<1>1. LineOK'
  BY DEF IInv, LineOK, RequestOK, Deliver
<1>2. RequestOK'
  BY AnswersKept DEF IInv, LineOK, RequestOK, Deliver
<1>3. RespOK'
  BY DEF IInv, LineOK, RespOK, Deliver
<1>4. StoreOK'
  BY DEF IInv, StoreOK, Deliver
<1>5. OutOK'
  BY ItemsKept DEF IInv, LineOK, OutOK, Printed, Deliver
<1> QED
  BY <1>1, <1>2, <1>3, <1>4, <1>5 DEF IInv

LEMMA CancelledInv == ASSUME IInv, Cancelled PROVE IInv'
<1>1. LineOK'
  BY DEF IInv, LineOK, RequestOK, Cancelled, CallFails, GoLive, Exit
<1>2. RequestOK'
  BY AnswersKept DEF IInv, LineOK, RequestOK, Cancelled, CallFails, GoLive, Exit
<1>3. RespOK'
  BY DEF IInv, LineOK, RespOK, Cancelled, CallFails, GoLive, Exit
<1>4. StoreOK'
  BY DEF IInv, StoreOK, Cancelled
<1>5. OutOK'
  BY ItemsKept DEF IInv, LineOK, OutOK, Printed, Cancelled, CallFails, GoLive, Exit
<1> QED
  BY <1>1, <1>2, <1>3, <1>4, <1>5 DEF IInv

LEMMA TimeOutInv == ASSUME IInv, TimeOut PROVE IInv'
<1>1. LineOK'
  BY DEF IInv, LineOK, RequestOK, TimeOut, CallFails, GoLive, Exit
<1>2. RequestOK'
  BY AnswersKept DEF IInv, LineOK, RequestOK, TimeOut, CallFails, GoLive, Exit
<1>3. RespOK'
  BY DEF IInv, LineOK, RespOK, TimeOut, CallFails, GoLive, Exit
<1>4. StoreOK'
  BY DEF IInv, StoreOK, TimeOut
<1>5. OutOK'
  BY ItemsKept DEF IInv, LineOK, OutOK, Printed, TimeOut, CallFails, GoLive, Exit
<1> QED
  BY <1>1, <1>2, <1>3, <1>4, <1>5 DEF IInv

LEMMA CheckInv == ASSUME IInv, Check PROVE IInv'
<1>1. LineOK'
  BY DEF IInv, LineOK, RequestOK, Check, Exit
<1>2. RequestOK'
  BY AnswersKept DEF IInv, LineOK, RequestOK, Check, Exit
<1>3. RespOK'
  BY DEF IInv, LineOK, RespOK, Check, Exit
<1>4. StoreOK'
  BY DEF IInv, StoreOK, Check
<1>5. OutOK'
  BY ItemsKept DEF IInv, LineOK, OutOK, Printed, Check, Exit
<1> QED
  BY <1>1, <1>2, <1>3, <1>4, <1>5 DEF IInv

LEMMA InterruptInv == ASSUME IInv, Interrupt PROVE IInv'
<1>1. LineOK'
  BY DEF IInv, LineOK, RequestOK, Interrupt
<1>2. RequestOK'
  BY AnswersKept DEF IInv, LineOK, RequestOK, Interrupt
<1>3. RespOK'
  BY DEF IInv, LineOK, RespOK, Interrupt
<1>4. StoreOK'
  BY DEF IInv, StoreOK, Interrupt
<1>5. OutOK'
  BY ItemsKept DEF IInv, LineOK, OutOK, Printed, Interrupt
<1> QED
  BY <1>1, <1>2, <1>3, <1>4, <1>5 DEF IInv

\* A run begins without a response and with nothing printed.
LEMMA BeginInv == ASSUME IInv, Begin PROVE IInv'
<1>1. PICK l \in Lines :
        /\ line' = l /\ opts' = OptionsOf(l)
        /\ IF Rejected(l) THEN Exit(1)
           ELSE pc' = (IF l.cmd = "convert" /\ ~l.noCache THEN "version" ELSE "send") /\ code' = 0
        /\ asking' = CASE l.cmd \in {"convert", "chunk"} -> "document"
                       [] OTHER -> l.cmd
  BY DocliAssumption DEF Begin
<1>2. /\ runs' = runs + 1 /\ received' = 0 /\ resp' = NoResponse /\ caching' = FALSE
      /\ out' = << >> /\ store' = store
  BY DEF Begin
<1>3. l.cmd \in {"convert", "chunk", "health", "ready", "version"}
  BY DocliAssumption
<1>4. LineOK'
  BY <1>1, <1>2 DEF IInv, LineOK, Exit
<1>5. RequestOK'
  BY <1>1, <1>2, <1>3 DEF RequestOK, Exit
<1>6. RespOK'
  BY <1>1, <1>2 DEF RespOK, Exit, NoResponse, Response, ResponseFields
<1>7. StoreOK'
  BY <1>2 DEF IInv, StoreOK
<1>8. OutOK'
  BY <1>1, <1>2 DEF OutOK, Exit
<1> QED
  BY <1>4, <1>5, <1>6, <1>7, <1>8 DEF IInv

\* The entry of the key, if there is one, is of a conversion with this key.
LEMMA LookupInv == ASSUME IInv, Lookup PROVE IInv'
<1>1. LineOK'
  BY DEF IInv, LineOK, Lookup, GoLive, Exit
<1>2. RequestOK'
  BY DEF IInv, LineOK, RequestOK, Lookup, GoLive, Exit
<1>3. RespOK'
  <2>1. CASE UNCHANGED resp /\ pc' \in {"send", "exited"}
    BY <2>1 DEF IInv, LineOK, RespOK, Lookup
  <2>2. CASE Key \in DOMAIN store /\ resp' = Decoded(store[Key]) /\ pc' = "check"
    <3>1. /\ DOMAIN store[Key] = ResponseFields /\ store[Key].of.cmd = "convert"
          /\ ~Rejected(store[Key].of) /\ Key = KeyOf(store[Key].of)
      BY <2>2 DEF IInv, StoreOK
    <3>2. DOMAIN resp' = ResponseFields /\ resp'.of = store[Key].of
      BY <2>2, <3>1 DEF Decoded, ResponseFields
    <3>3. resp' # NoResponse
      BY <3>1, <3>2, NoResponseIs
    <3>4. line' = line /\ ~Rejected(line) /\ line.cmd = "convert" /\ Key = KeyOf(line)
      BY DEF IInv, LineOK, Lookup, Key, KeyOf
    <3> QED
      BY <2>2, <3>1, <3>2, <3>3, <3>4 DEF RespOK, KeyOf
  <2> QED
    BY <2>1, <2>2 DEF Lookup, GoLive, Exit
<1>4. StoreOK'
  BY DEF IInv, StoreOK, Lookup
<1>5. OutOK'
  BY DEF IInv, LineOK, OutOK, Lookup, GoLive, Exit
<1> QED
  BY <1>1, <1>2, <1>3, <1>4, <1>5 DEF IInv

\* What is stored is of this conversion, with its key.
LEMMA StoreInv == ASSUME IInv, Store PROVE IInv'
<1>1. LineOK'
  BY DEF IInv, LineOK, Store
<1>2. RequestOK'
  BY DEF IInv, LineOK, RequestOK, Store
<1>3. RespOK'
  BY DEF IInv, LineOK, RespOK, Store
<1>4. StoreOK'
  <2>1. CASE UNCHANGED store
    BY <2>1 DEF IInv, StoreOK
  <2>2. CASE store' = [k \in {Key} \cup DOMAIN store |->
                         IF k = Key THEN Encoded(resp) ELSE store[k]]
    <3>1. /\ DOMAIN Encoded(resp) = ResponseFields /\ Encoded(resp).of = line
          /\ line.cmd = "convert" /\ ~Rejected(line) /\ Key = KeyOf(line)
      BY DEF IInv, LineOK, RespOK, Store, ResponseFields, Encoded, Key, KeyOf
    <3>2. ASSUME NEW k \in DOMAIN store'
          PROVE  \/ k = Key /\ store'[k] = Encoded(resp)
                 \/ k \in DOMAIN store /\ store'[k] = store[k]
      BY <2>2, <3>2
    <3> QED
      BY <3>1, <3>2 DEF IInv, StoreOK, KeyOf
  <2> QED
    BY <2>1, <2>2 DEF Store
<1>5. OutOK'
  BY DEF IInv, LineOK, OutOK, Store
<1> QED
  BY <1>1, <1>2, <1>3, <1>4, <1>5 DEF IInv

\* A 2xx of a conversion is its response, to be stored or looked at.
LEMMA DecodeInv == ASSUME IInv, Decode PROVE IInv'
<1>1. CASE UNCHANGED resp /\ pc' \in {"namespace", "send", "exited"}
  <2>1. LineOK'
    BY <1>1 DEF IInv, LineOK, RequestOK, Decode, Accept, CallFails, GoLive, Exit
  <2>2. RequestOK'
    BY <1>1 DEF IInv, LineOK, RequestOK, Decode, Accept, CallFails, GoLive, Exit
  <2>3. RespOK'
    BY <1>1 DEF IInv, LineOK, RespOK, Decode
  <2>4. StoreOK'
    BY DEF IInv, StoreOK, Decode
  <2>5. OutOK'
    BY <1>1 DEF IInv, LineOK, OutOK, Decode, Accept, CallFails, GoLive, Exit
  <2> QED
    BY <2>1, <2>2, <2>3, <2>4, <2>5 DEF IInv
<1>2. CASE answer.http = "ok" /\ Accept /\ pc' \in {"store", "check"}
  <2>1. LineOK'
    BY <1>2 DEF IInv, LineOK, RequestOK, Decode, Accept
  <2>2. RequestOK'
    BY <1>2 DEF IInv, LineOK, RequestOK, Decode, Accept
  <2>3. RespOK'
    <3>1. /\ line' = line /\ opts' = opts /\ ~Rejected(line) /\ line \in Lines
          /\ pc = "decode" /\ answer \in Answers
      BY DEF IInv, LineOK, RequestOK, Decode
    <3>2. CASE asking = "document"
      <4>1. /\ resp' = Response(line, answer.status, Unmarshal(answer.sent),
                                answer.chunks, answer.sent)
            /\ line.cmd \in {"convert", "chunk"}
        BY <1>2, <3>1, <3>2, DocliAssumption DEF IInv, LineOK, RequestOK, Accept
      <4>2. DOMAIN resp' = ResponseFields /\ resp'.of = line /\ resp'.chunks = answer.chunks
        BY <4>1 DEF Response, ResponseFields
      <4>3. line.cmd = "chunk" => answer.chunks \in Nat
        BY <1>2, <3>1, <3>2, DocliAssumption DEF Answers
      <4>4. resp' # NoResponse
        BY <4>1, <4>2, NoResponseIs
      <4> QED
        BY <1>2, <3>1, <4>2, <4>3, <4>4 DEF RespOK, KeyOf
    <3>3. CASE asking # "document"
      <4>1. /\ line.cmd \notin {"convert", "chunk"} /\ pc' = "check"
            /\ resp' = [NoResponse EXCEPT !.status = "ok"]
        BY <1>2, <3>1, <3>3 DEF IInv, LineOK, RequestOK, Accept
      <4>2. DOMAIN resp' = ResponseFields /\ resp' # NoResponse
        BY <4>1 DEF NoResponse, Response, ResponseFields
      <4> QED
        BY <3>1, <4>1, <4>2 DEF RespOK
    <3> QED
      BY <3>2, <3>3
  <2>4. StoreOK'
    BY DEF IInv, StoreOK, Decode
  <2>5. OutOK'
    BY <1>2 DEF IInv, LineOK, OutOK, Decode, Accept
  <2> QED
    BY <2>1, <2>2, <2>3, <2>4, <2>5 DEF IInv
<1> QED
  BY <1>1, <1>2 DEF Decode, Accept, CallFails, GoLive, Exit

----------------------------------------------------------------------------
(* Printing *)

\* The items are a sequence, of one but for chunk, which has as many as chunks were sent,
\* and for convert, which may have none.
LEMMA ItemsAre ==
  ASSUME IInv, resp # NoResponse, runs > 0
  PROVE  /\ IsSequence(Items)
         /\ line.cmd = "convert" /\ Items # << >> => Len(Items) = 1
         /\ line.cmd = "chunk" /\ ~ChunkPretty(line) =>
              Items = [i \in 1 .. resp.chunks |-> Item("chunk", i)]
         /\ line.cmd \notin {"convert", "chunk"} \/ ChunkPretty(line) => Len(Items) = 1
         /\ \A i \in 1 .. Len(Items) : Items[i] # Torn
<1>1. ASSUME NEW text, NEW n, n # 0 \/ text = "response" PROVE Item(text, n) # Torn
  BY <1>1 DEF Item, Torn
<1>2. ASSUME NEW text, NEW n, n # 0 \/ text = "response", Items = <<Item(text, n)>>,
             line.cmd = "chunk" => ChunkPretty(line)
      PROVE  /\ IsSequence(Items) /\ Items # << >> /\ Len(Items) = 1
             /\ \A i \in 1 .. Len(Items) : Items[i] # Torn
  BY <1>1, <1>2, OneItem
<1>3. CASE line.cmd = "convert"
  <2>1. ~ChunkPretty(line)
    BY <1>3 DEF ChunkPretty
  <2>2. Items = << >> \/ \E text : Items = <<Item(text, 1)>>
    BY <1>3 DEF Items, ContentItems
  <2>3. CASE Items = << >>
    BY <1>3, <2>1, <2>3 DEF IsSequence
  <2>4. CASE \E text : Items = <<Item(text, 1)>>
    BY <1>2, <1>3, <2>1, <2>4
  <2> QED
    BY <2>2, <2>3, <2>4
<1>4. CASE line.cmd = "chunk" /\ ChunkPretty(line)
  <2>1. Items = <<Item("response", resp.chunks)>>
    BY <1>4 DEF Items, ChunkItems
  <2> QED
    BY <1>2, <1>4, <2>1
<1>5. CASE line.cmd = "chunk" /\ ~ChunkPretty(line)
  <2>1. /\ resp.chunks \in Nat
        /\ Items = [i \in 1 .. resp.chunks |-> Item("chunk", i)]
    BY <1>5 DEF Items, ChunkItems, IInv, RespOK
  <2>2. IsSequence(Items) /\ Len(Items) = resp.chunks
    <3>1. Items = [i \in 1 .. resp.chunks |-> Items[i]]
      BY <2>1
    <3> QED
      BY <2>1, <3>1, LengthIs
  <2>3. ASSUME NEW i \in 1 .. Len(Items) PROVE Items[i] # Torn
    <3>1. Items[i] = Item("chunk", i) /\ i # 0
      BY <2>1, <2>2
    <3> QED
      BY <1>1, <3>1
  <2> QED
    BY <1>5, <2>1, <2>2, <2>3
<1>6. CASE line.cmd \notin {"convert", "chunk"}
  <2>1. Items = <<Item(line.cmd, 1)>> /\ ~ChunkPretty(line)
    BY <1>6 DEF Items, PayloadItems, ChunkPretty
  <2> QED
    BY <1>2, <1>6, <2>1
<1> QED
  BY <1>3, <1>4, <1>5, <1>6

\* A line more, or a part of one, which is the end.
LEMMA WriteItemInv == ASSUME IInv, WriteItem PROVE IInv'
<1>1. LineOK'
  BY DEF IInv, LineOK, WriteItem, Exit
<1>2. RequestOK'
  BY DEF IInv, LineOK, RequestOK, WriteItem, Exit
<1>3. RespOK'
  BY DEF IInv, LineOK, RespOK, WriteItem, Exit
<1>4. StoreOK'
  BY DEF IInv, StoreOK, WriteItem
<1>5. OutOK'
  <2>1. /\ resp # NoResponse /\ runs > 0 /\ line \in Lines /\ Items' = Items
        /\ resp' = resp /\ line' = line /\ Len(out) < Len(Items)
    BY ItemsKept DEF IInv, LineOK, RespOK, WriteItem
  <2>2. IsSequence(Items)
    BY <2>1, ItemsAre
  <2>3. PICK n \in 0 .. Len(Items) : Printed(n)
    BY DEF IInv, OutOK, WriteItem
  <2>4. n \in Nat /\ Len(out) = n /\ n < Len(Items) /\ Len(Items) \in Nat
    BY <2>1, <2>2, <2>3 DEF Printed, IsSequence
  <2>5. CASE out' = Append(out, Items[Len(out) + 1]) /\ UNCHANGED <<pc, code>>
    <3>1. Printed(n + 1)'
      BY <2>1, <2>3, <2>4, <2>5 DEF Printed
    <3>2. n + 1 \in 0 .. Len(Items)' /\ pc' = "print"
      BY <2>1, <2>4, <2>5 DEF WriteItem
    <3> QED
      BY <3>1, <3>2 DEF OutOK
  <2>6. CASE /\ out' = Append(out, Torn)
             /\ Exit(IF line.cmd \in {"health", "ready"} THEN 0 ELSE 1)
    <3>1. CASE line.cmd \in {"health", "ready"}
      <4>1. out = << >>
        BY <2>1, <2>3, <2>4, <3>1, ItemsAre DEF Printed
      <4>2. out' = <<Torn>>
        BY <2>6, <4>1
      <4> QED
        BY <2>1, <2>6, <3>1, <4>2 DEF OutOK, Exit
    <3>2. CASE line.cmd \notin {"health", "ready"}
      BY <2>1, <2>6, <3>2 DEF OutOK, Exit
    <3> QED
      BY <3>1, <3>2
  <2> QED
    BY <2>5, <2>6 DEF WriteItem
<1> QED
  BY <1>1, <1>2, <1>3, <1>4, <1>5 DEF IInv

LEMMA FinishInv == ASSUME IInv, Finish PROVE IInv'
<1>1. LineOK'
  BY DEF IInv, LineOK, Finish, Exit
<1>2. RequestOK'
  BY DEF IInv, RequestOK, Finish, Exit
<1>3. RespOK'
  BY DEF IInv, LineOK, RespOK, Finish, Exit
<1>4. StoreOK'
  BY DEF IInv, StoreOK, Finish
<1>5. OutOK'
  <2>1. /\ resp # NoResponse /\ runs > 0 /\ Items' = Items /\ out' = out
        /\ resp' = resp /\ line' = line /\ Len(out) = Len(Items) /\ pc' = "exited"
    BY ItemsKept DEF IInv, LineOK, RespOK, Finish, Exit
  <2>2. IsSequence(Items)
    BY <2>1, ItemsAre
  <2>3. PICK n \in 0 .. Len(Items) : Printed(n)
    BY DEF IInv, OutOK, Finish
  <2>4. n = Len(Items)
    BY <2>1, <2>2, <2>3 DEF Printed, IsSequence
  <2>5. Printed(Len(Items))'
    BY <2>1, <2>3, <2>4 DEF Printed
  <2> QED
    BY <2>1, <2>5 DEF OutOK, Finish, Exit
<1> QED
  BY <1>1, <1>2, <1>3, <1>4, <1>5 DEF IInv

----------------------------------------------------------------------------
(* Documents.  What a run has is what the server sent, maybe through the cache. *)

TypesOK ==
  /\ runs \in 0 .. MaxRuns /\ (runs = 0 => line = NoLine)
  /\ pc \in {"version", "namespace", "lookup", "send", "wait", "body", "decode",
             "store", "check", "print", "exited"}
  /\ context \in {"live", "cancelled"}
  /\ asking \in {"nothing", "document", "version", "health", "ready"}
  /\ caching \in BOOLEAN /\ code \in {0, 1}

\* A request for the version is the first of a run, and one for a document the last.
CountOK ==
  /\ received \in 0 .. 2
  /\ pc = "version" \/ (pc = "send" /\ asking # "document") => received = 0
  /\ pc \in {"send", "namespace", "lookup"}
       \/ (pc \in {"wait", "body", "decode"} /\ asking # "document") => received <= 1

\* Until it asks for the document a conversion has no status.
AnswerOK ==
  line.cmd = "convert" /\ (pc \in {"version", "namespace", "lookup"}
                             \/ (pc # "exited" /\ asking = "version")) => answer.status = "none"

\* The contents are those of what was sent, or, from the cache, of what was made of them.
DocumentsOK ==
  /\ resp.contents \in Seq(Contents)
  /\ line.cmd = "convert" /\ resp # NoResponse =>
       /\ resp.sent \in Wire
       /\ \/ resp.contents = Unmarshal(resp.sent)
          \/ /\ answer.status = "none"
             /\ resp.contents = Unmarshal(Marshal(Unmarshal(resp.sent)))
  /\ pc = "store" => resp.contents = Unmarshal(resp.sent)
  /\ line.cmd = "chunk" /\ resp # NoResponse => resp.chunks \in 0 .. MaxChunks

EntriesOK ==
  \A k \in DOMAIN store : /\ store[k].sent \in Wire
                          /\ store[k].contents = Marshal(Unmarshal(store[k].sent))

\* A conversion that fails without a line has no content to print.
PrintOK ==
  /\ Len(out) \in 0 .. MaxChunks + 1
  /\ pc = "exited" /\ line.cmd = "convert" /\ resp # NoResponse /\ code = 1 /\ out = << >> =>
       resp.status = "failure" \/ Items = << >>

DInv == TypesOK /\ CountOK /\ AnswerOK /\ DocumentsOK /\ EntriesOK /\ PrintOK

LEMMA FindVersionDocuments == ASSUME IInv, DInv, FindVersion PROVE DInv'
<1>1. TypesOK'
  BY DEF IInv, LineOK, DInv, TypesOK, FindVersion, GoLive
<1>2. CountOK'
  BY DEF IInv, LineOK, RequestOK, DInv, CountOK, FindVersion, GoLive
<1>3. AnswerOK'
  BY DEF IInv, LineOK, RequestOK, DInv, AnswerOK, FindVersion, GoLive
<1>4. DocumentsOK'
  BY DEF IInv, LineOK, DInv, DocumentsOK, FindVersion, GoLive
<1>5. EntriesOK'
  BY DEF DInv, EntriesOK, FindVersion
<1>6. PrintOK'
  BY ItemsKept DEF IInv, RespOK, LineOK, DInv, PrintOK, FindVersion, GoLive
<1> QED
  BY <1>1, <1>2, <1>3, <1>4, <1>5, <1>6 DEF DInv

LEMMA OpenNamespaceDocuments == ASSUME IInv, DInv, OpenNamespace PROVE DInv'
<1>1. TypesOK'
  BY DEF IInv, LineOK, DInv, TypesOK, OpenNamespace, GoLive
<1>2. CountOK'
  BY DEF IInv, LineOK, RequestOK, DInv, CountOK, OpenNamespace, GoLive
<1>3. AnswerOK'
  BY DEF IInv, LineOK, RequestOK, DInv, AnswerOK, OpenNamespace, GoLive
<1>4. DocumentsOK'
  BY DEF IInv, LineOK, DInv, DocumentsOK, OpenNamespace, GoLive
<1>5. EntriesOK'
  BY DEF DInv, EntriesOK, OpenNamespace
<1>6. PrintOK'
  BY ItemsKept DEF IInv, RespOK, LineOK, DInv, PrintOK, OpenNamespace, GoLive
<1> QED
  BY <1>1, <1>2, <1>3, <1>4, <1>5, <1>6 DEF DInv

LEMMA SendDocuments == ASSUME IInv, DInv, Send PROVE DInv'
<1>1. TypesOK'
  BY DEF IInv, LineOK, DInv, TypesOK, Send, CallFails, GoLive, Exit
<1>2. CountOK'
  BY DEF IInv, LineOK, RequestOK, DInv, CountOK, Send, CallFails, GoLive, Exit
<1>3. AnswerOK'
  BY DEF IInv, LineOK, RequestOK, DInv, AnswerOK, Send, CallFails, GoLive, Exit
<1>4. DocumentsOK'
  BY DEF IInv, LineOK, DInv, DocumentsOK, Send, CallFails, GoLive, Exit
<1>5. EntriesOK'
  BY DEF DInv, EntriesOK, Send
<1>6. PrintOK'
  BY ItemsKept DEF IInv, RespOK, LineOK, DInv, PrintOK, Send, CallFails, GoLive, Exit
<1> QED
  BY <1>1, <1>2, <1>3, <1>4, <1>5, <1>6 DEF DInv

LEMMA DeliverDocuments == ASSUME IInv, DInv, Deliver PROVE DInv'
<1>1. TypesOK'
  BY DEF IInv, LineOK, DInv, TypesOK, Deliver
<1>2. CountOK'
  BY DEF IInv, LineOK, RequestOK, DInv, CountOK, Deliver
<1>3. AnswerOK'
  BY DEF IInv, LineOK, RequestOK, DInv, AnswerOK, Deliver
<1>4. DocumentsOK'
  BY DEF IInv, LineOK, DInv, DocumentsOK, Deliver
<1>5. EntriesOK'
  BY DEF DInv, EntriesOK, Deliver
<1>6. PrintOK'
  BY ItemsKept DEF IInv, RespOK, LineOK, DInv, PrintOK, Deliver
<1> QED
  BY <1>1, <1>2, <1>3, <1>4, <1>5, <1>6 DEF DInv

LEMMA CancelledDocuments == ASSUME IInv, DInv, Cancelled PROVE DInv'
<1>1. TypesOK'
  BY DEF IInv, LineOK, DInv, TypesOK, Cancelled, CallFails, GoLive, Exit
<1>2. CountOK'
  BY DEF IInv, LineOK, RequestOK, DInv, CountOK, Cancelled, CallFails, GoLive, Exit
<1>3. AnswerOK'
  BY DEF IInv, LineOK, RequestOK, DInv, AnswerOK, Cancelled, CallFails, GoLive, Exit
<1>4. DocumentsOK'
  BY DEF IInv, LineOK, DInv, DocumentsOK, Cancelled, CallFails, GoLive, Exit
<1>5. EntriesOK'
  BY DEF DInv, EntriesOK, Cancelled
<1>6. PrintOK'
  BY ItemsKept DEF IInv, RespOK, LineOK, DInv, PrintOK, Cancelled, CallFails, GoLive, Exit
<1> QED
  BY <1>1, <1>2, <1>3, <1>4, <1>5, <1>6 DEF DInv

LEMMA TimeOutDocuments == ASSUME IInv, DInv, TimeOut PROVE DInv'
<1>1. TypesOK'
  BY DEF IInv, LineOK, DInv, TypesOK, TimeOut, CallFails, GoLive, Exit
<1>2. CountOK'
  BY DEF IInv, LineOK, RequestOK, DInv, CountOK, TimeOut, CallFails, GoLive, Exit
<1>3. AnswerOK'
  BY DEF IInv, LineOK, RequestOK, DInv, AnswerOK, TimeOut, CallFails, GoLive, Exit
<1>4. DocumentsOK'
  BY DEF IInv, LineOK, DInv, DocumentsOK, TimeOut, CallFails, GoLive, Exit
<1>5. EntriesOK'
  BY DEF DInv, EntriesOK, TimeOut
<1>6. PrintOK'
  BY ItemsKept DEF IInv, RespOK, LineOK, DInv, PrintOK, TimeOut, CallFails, GoLive, Exit
<1> QED
  BY <1>1, <1>2, <1>3, <1>4, <1>5, <1>6 DEF DInv

LEMMA CheckDocuments == ASSUME IInv, DInv, Check PROVE DInv'
<1>1. TypesOK'
  BY DEF IInv, LineOK, DInv, TypesOK, Check, Exit
<1>2. CountOK'
  BY DEF IInv, LineOK, RequestOK, DInv, CountOK, Check, Exit
<1>3. AnswerOK'
  BY DEF IInv, LineOK, RequestOK, DInv, AnswerOK, Check, Exit
<1>4. DocumentsOK'
  BY DEF IInv, LineOK, DInv, DocumentsOK, Check, Exit
<1>5. EntriesOK'
  BY DEF DInv, EntriesOK, Check
<1>6. PrintOK'
  BY ItemsKept DEF IInv, RespOK, LineOK, DInv, PrintOK, Check, Exit
<1> QED
  BY <1>1, <1>2, <1>3, <1>4, <1>5, <1>6 DEF DInv

LEMMA InterruptDocuments == ASSUME IInv, DInv, Interrupt PROVE DInv'
<1>1. TypesOK'
  BY DEF IInv, LineOK, DInv, TypesOK, Interrupt
<1>2. CountOK'
  BY DEF IInv, LineOK, RequestOK, DInv, CountOK, Interrupt
<1>3. AnswerOK'
  BY DEF IInv, LineOK, RequestOK, DInv, AnswerOK, Interrupt
<1>4. DocumentsOK'
  BY DEF IInv, LineOK, DInv, DocumentsOK, Interrupt
<1>5. EntriesOK'
  BY DEF DInv, EntriesOK, Interrupt
<1>6. PrintOK'
  BY ItemsKept DEF IInv, RespOK, LineOK, DInv, PrintOK, Interrupt
<1> QED
  BY <1>1, <1>2, <1>3, <1>4, <1>5, <1>6 DEF DInv

LEMMA NoDocuments ==
  /\ NoResponse.contents = << >> /\ << >> \in Seq(Contents) /\ NoAnswer.status = "none"
  /\ NoFields \in Wire
<1>1. NoResponse.contents = << >> /\ << >> \in Seq(Contents) /\ NoAnswer.status = "none"
  BY DEF NoResponse, Response, NoAnswer
<1>2. NoFields \in Wire
  BY DEF NoFields, Wire, Texts
<1> QED
  BY <1>1, <1>2

LEMMA BeginDocuments == ASSUME IInv, DInv, Begin PROVE DInv'
<1>1. PICK l \in Lines :
        /\ line' = l
        /\ IF Rejected(l) THEN Exit(1)
           ELSE pc' = (IF l.cmd = "convert" /\ ~l.noCache THEN "version" ELSE "send") /\ code' = 0
        /\ asking' = CASE l.cmd \in {"convert", "chunk"} -> "document"
                       [] OTHER -> l.cmd
  BY DocliAssumption DEF Begin
<1>2. /\ runs < MaxRuns /\ runs' = runs + 1 /\ received' = 0 /\ resp' = NoResponse
      /\ answer' = NoAnswer /\ context' = "live" /\ caching' = FALSE /\ out' = << >>
      /\ store' = store
  BY DEF Begin
<1>3. l.cmd \in {"convert", "chunk", "health", "ready", "version"}
  BY DocliAssumption
<1>4. TypesOK'
  <2>1. MaxRuns \in Nat /\ runs \in 0 .. MaxRuns
    BY DocliAssumption DEF DInv, TypesOK
  <2>2. runs' \in 0 .. MaxRuns /\ runs' # 0
    BY <1>2, <2>1
  <2>3. asking' \in {"nothing", "document", "version", "health", "ready"}
    BY <1>1, <1>3
  <2> QED
    BY <1>1, <1>2, <2>2, <2>3 DEF TypesOK, Exit
<1>5. CountOK'
  BY <1>1, <1>2 DEF CountOK, Exit
<1>6. AnswerOK'
  BY <1>2, NoDocuments DEF AnswerOK
<1>7. DocumentsOK'
  BY <1>1, <1>2, NoDocuments DEF DocumentsOK, Exit
<1>8. EntriesOK'
  BY <1>2 DEF DInv, EntriesOK
<1>9. PrintOK'
  <2>1. Len(<< >>) = 0
    OBVIOUS
  <2> QED
    BY <1>2, <2>1, DocliAssumption DEF PrintOK
<1> QED
  BY <1>4, <1>5, <1>6, <1>7, <1>8, <1>9 DEF DInv

\* An entry is read as it was written.
LEMMA LookupDocuments == ASSUME IInv, DInv, Lookup PROVE DInv'
<1>1. TypesOK'
  BY DEF DInv, TypesOK, Lookup, GoLive, Exit
<1>2. CountOK'
  BY DEF DInv, CountOK, Lookup, GoLive, Exit
<1>3. AnswerOK'
  BY DEF DInv, AnswerOK, Lookup, GoLive, Exit
<1>4. DocumentsOK'
  <2>1. CASE UNCHANGED resp /\ pc' \in {"send", "exited"}
    BY <2>1 DEF DInv, DocumentsOK, IInv, LineOK, RespOK, Lookup
  <2>2. CASE Key \in DOMAIN store /\ resp' = Decoded(store[Key]) /\ pc' = "check"
    <3> DEFINE e == store[Key]
               wire == e.sent
    <3>1. DOMAIN e = ResponseFields
      BY <2>2 DEF IInv, StoreOK
    <3>2. wire \in Wire /\ e.contents = Marshal(Unmarshal(wire))
      BY <2>2 DEF DInv, EntriesOK
    <3>3. resp'.sent = wire /\ resp'.contents = Unmarshal(e.contents)
      BY <2>2, <3>1 DEF Decoded, ResponseFields
    <3> HIDE DEF e, wire
    <3>4. resp'.contents = Unmarshal(Marshal(Unmarshal(wire)))
      BY <3>2, <3>3
    <3>5. Marshal(Unmarshal(wire)) \in Wire
      BY <3>2, DocumentsAreKept
    <3>6. Unmarshal(Marshal(Unmarshal(wire))) \in Seq(Contents)
      BY <3>5, DocumentsAreKept
    <3>7. answer'.status = "none" /\ line'.cmd = "convert"
      BY DEF IInv, LineOK, DInv, AnswerOK, Lookup
    <3> QED
      BY <2>2, <3>2, <3>3, <3>4, <3>6, <3>7 DEF DocumentsOK
  <2> QED
    BY <2>1, <2>2 DEF Lookup, GoLive, Exit
<1>5. EntriesOK'
  BY DEF DInv, EntriesOK, Lookup
<1>6. PrintOK'
  <2>1. line'.cmd = "convert" /\ (pc' = "exited" => resp' = NoResponse)
    BY DEF IInv, LineOK, RespOK, Lookup, GoLive, Exit
  <2> QED
    BY <2>1 DEF DInv, PrintOK, Lookup
<1> QED
  BY <1>1, <1>2, <1>3, <1>4, <1>5, <1>6 DEF DInv

\* What is written is made of the live response.
LEMMA StoreDocuments == ASSUME IInv, DInv, Store PROVE DInv'
<1>1. TypesOK'
  BY DEF DInv, TypesOK, Store
<1>2. CountOK'
  BY DEF DInv, CountOK, Store
<1>3. AnswerOK'
  BY DEF DInv, AnswerOK, Store
<1>4. DocumentsOK'
  BY DEF DInv, DocumentsOK, Store
<1>5. EntriesOK'
  <2>1. CASE UNCHANGED store
    BY <2>1 DEF DInv, EntriesOK
  <2>2. CASE store' = [k \in {Key} \cup DOMAIN store |->
                         IF k = Key THEN Encoded(resp) ELSE store[k]]
    <3>1. Encoded(resp).sent = resp.sent /\ Encoded(resp).contents = Marshal(resp.contents)
      BY DEF IInv, RespOK, ResponseFields, Encoded
    <3>2. resp.sent \in Wire /\ resp.contents = Unmarshal(resp.sent)
      BY DEF IInv, LineOK, RespOK, DInv, DocumentsOK, Store
    <3>3. ASSUME NEW k \in DOMAIN store'
          PROVE  store'[k] = Encoded(resp) \/ (k \in DOMAIN store /\ store'[k] = store[k])
      BY <2>2, <3>3
    <3> QED
      BY <3>1, <3>2, <3>3 DEF DInv, EntriesOK
  <2> QED
    BY <2>1, <2>2 DEF Store
<1>6. PrintOK'
  BY DEF DInv, PrintOK, Store
<1> QED
  BY <1>1, <1>2, <1>3, <1>4, <1>5, <1>6 DEF DInv

LEMMA RespondDocuments == ASSUME IInv, DInv, Respond PROVE DInv'
<1>1. TypesOK'
  BY DEF DInv, TypesOK, Respond
<1>2. CountOK'
  BY DEF DInv, CountOK, Respond
<1>3. AnswerOK'
  <2>1. asking = "version" => answer'.status = "none"
    BY DEF Respond, Answers
  <2> QED
    BY <2>1 DEF AnswerOK, Respond
<1>4. DocumentsOK'
  BY DEF IInv, RespOK, DInv, DocumentsOK, Respond
<1>5. EntriesOK'
  BY DEF DInv, EntriesOK, Respond
<1>6. PrintOK'
  BY DEF DInv, PrintOK, Respond
<1> QED
  BY <1>1, <1>2, <1>3, <1>4, <1>5, <1>6 DEF DInv

\* A 2xx is unmarshalled as it was sent.
LEMMA DecodeDocuments == ASSUME IInv, DInv, Decode PROVE DInv'
<1>1. TypesOK'
  BY DEF DInv, TypesOK, Decode, Accept, CallFails, GoLive, Exit
<1>2. CountOK'
  BY DEF IInv, LineOK, RequestOK, DInv, CountOK, Decode, Accept, CallFails, GoLive, Exit
<1>3. AnswerOK'
  BY DEF IInv, LineOK, RequestOK, DInv, AnswerOK, Decode, Accept, CallFails, GoLive, Exit
<1>4. DocumentsOK'
  <2>1. CASE UNCHANGED resp /\ pc' \in {"namespace", "send", "exited"}
    BY <2>1 DEF IInv, RespOK, DInv, DocumentsOK, Decode
  <2>2. CASE answer.http = "ok" /\ Accept /\ pc' \in {"store", "check"}
    <3>1. line' = line /\ answer' = answer /\ line \in Lines /\ pc = "decode" /\ answer \in Answers
      BY DEF IInv, LineOK, RequestOK, Decode
    <3>2. CASE asking = "document"
      <4>1. resp' = Response(line, answer.status, Unmarshal(answer.sent), answer.chunks,
                             answer.sent)
        BY <2>2, <3>2 DEF Accept
      <4>2. /\ resp'.contents = Unmarshal(answer.sent) /\ resp'.sent = answer.sent
            /\ resp'.chunks = answer.chunks
        BY <4>1 DEF Response
      <4>3. answer.sent \in Wire
        <5>1. answer.sent = NoFields \/ answer.sent \in Documents
          BY <3>1 DEF Answers
        <5> QED
          BY <5>1, NoDocuments, DocliAssumption
      <4>4. line.cmd = "chunk" => answer.chunks \in 0 .. MaxChunks
        BY <2>2, <3>1, <3>2, DocliAssumption DEF Answers
      <4>5. Unmarshal(answer.sent) \in Seq(Contents)
        BY <4>3, DocumentsAreKept
      <4> QED
        BY <3>1, <4>2, <4>3, <4>4, <4>5 DEF DocumentsOK
    <3>3. CASE asking # "document"
      <4>1. /\ line.cmd \notin {"convert", "chunk"} /\ pc' = "check"
            /\ resp' = [NoResponse EXCEPT !.status = "ok"]
        BY <2>2, <3>1, <3>3 DEF IInv, LineOK, RequestOK, Accept
      <4>2. resp'.contents \in Seq(Contents)
        BY <4>1, NoDocuments DEF NoResponse, Response
      <4> QED
        BY <3>1, <4>1, <4>2 DEF DocumentsOK
    <3> QED
      BY <3>2, <3>3
  <2> QED
    BY <2>1, <2>2 DEF Decode, Accept, CallFails, GoLive, Exit
<1>5. EntriesOK'
  BY DEF DInv, EntriesOK, Decode
<1>6. PrintOK'
  <2>1. pc' = "exited" => resp' = NoResponse
    BY DEF IInv, RespOK, Decode, Accept, CallFails, GoLive, Exit
  <2> QED
    BY <2>1 DEF DInv, PrintOK, Decode
<1> QED
  BY <1>1, <1>2, <1>3, <1>4, <1>5, <1>6 DEF DInv

LEMMA AtTheEnds ==
  ASSUME NEW m \in Nat
  PROVE  0 \in 0 .. m /\ 0 \in 0 .. (m + 1) /\ 1 \in 0 .. (m + 1)
OBVIOUS

\* One line for every chunk, or one.
LEMMA ItemsAreFew ==
  ASSUME IInv, DInv, resp # NoResponse, runs > 0
  PROVE  Len(Items) \in 0 .. MaxChunks + 1
<1>1. MaxChunks \in Nat
  BY DocliAssumption
<1>2. CASE line.cmd = "chunk" /\ ~ChunkPretty(line)
  <2>1. resp.chunks \in 0 .. MaxChunks /\ Items = [i \in 1 .. resp.chunks |-> Item("chunk", i)]
    BY <1>2, ItemsAre DEF DInv, DocumentsOK
  <2>2. Items = [i \in 1 .. resp.chunks |-> Items[i]]
    BY <2>1
  <2>3. Len(Items) = resp.chunks
    BY <2>1, <2>2, LengthIs
  <2> QED
    BY <1>1, <2>1, <2>3
<1>3. CASE ~(line.cmd = "chunk" /\ ~ChunkPretty(line))
  <2>1. Items = << >> \/ Len(Items) = 1
    BY <1>3, ItemsAre
  <2>2. Len(<< >>) = 0
    OBVIOUS
  <2>3. Len(Items) = 0 \/ Len(Items) = 1
    BY <2>1, <2>2
  <2> QED
    BY <1>1, <2>3, AtTheEnds
<1> QED
  BY <1>2, <1>3

LEMMA WriteItemDocuments == ASSUME IInv, DInv, WriteItem PROVE DInv'
<1>1. TypesOK'
  BY DEF DInv, TypesOK, WriteItem, Exit
<1>2. CountOK'
  BY DEF DInv, CountOK, WriteItem, Exit
<1>3. AnswerOK'
  BY DEF DInv, AnswerOK, WriteItem, Exit
<1>4. DocumentsOK'
  BY DEF DInv, DocumentsOK, WriteItem, Exit
<1>5. EntriesOK'
  BY DEF DInv, EntriesOK, WriteItem
<1>6. PrintOK'
  <2>1. resp # NoResponse /\ runs > 0 /\ Len(out) < Len(Items)
    BY DEF IInv, LineOK, RespOK, WriteItem
  <2>2. Len(Items) \in 0 .. MaxChunks + 1 /\ MaxChunks \in Nat
    BY <2>1, ItemsAreFew, DocliAssumption
  <2>3. PICK n \in 0 .. Len(Items) : Printed(n)
    BY DEF IInv, OutOK, WriteItem
  <2> DEFINE X == {Items[i] : i \in 1 .. n} \cup {Torn, Items[Len(out) + 1]}
  <2>4. out \in Seq(X)
    <3>1. out \in [1 .. n -> X] /\ n \in Nat
      BY <2>2, <2>3 DEF Printed
    <3> HIDE DEF X
    <3> QED
      BY <3>1
  <2>5. \E x \in X : out' = Append(out, x)
    BY DEF WriteItem
  <2> HIDE DEF X
  <2>6. Len(out') = Len(out) + 1 /\ Len(out) \in Nat
    BY <2>4, <2>5
  <2>7. out' # << >>
    BY <2>6
  <2> QED
    BY <2>1, <2>2, <2>6, <2>7 DEF PrintOK
<1> QED
  BY <1>1, <1>2, <1>3, <1>4, <1>5, <1>6 DEF DInv

LEMMA FinishDocuments == ASSUME IInv, DInv, Finish PROVE DInv'
<1>1. TypesOK'
  BY DEF DInv, TypesOK, Finish, Exit
<1>2. CountOK'
  BY DEF DInv, CountOK, Finish, Exit
<1>3. AnswerOK'
  BY DEF DInv, AnswerOK, Finish, Exit
<1>4. DocumentsOK'
  BY DEF DInv, DocumentsOK, Finish, Exit
<1>5. EntriesOK'
  BY DEF DInv, EntriesOK, Finish
<1>6. PrintOK'
  BY ItemsKept DEF DInv, PrintOK, Finish, Exit
<1> QED
  BY <1>1, <1>2, <1>3, <1>4, <1>5, <1>6 DEF DInv

LEMMA InitDocuments == Init => DInv
<1> SUFFICES ASSUME Init PROVE DInv
  OBVIOUS
<1>1. TypesOK
  <2>1. MaxRuns \in Nat
    BY DocliAssumption
  <2> QED
    BY <2>1, AtTheEnds DEF Init, TypesOK
<1>2. CountOK
  BY DEF Init, CountOK
<1>3. AnswerOK
  BY DEF Init, AnswerOK
<1>4. DocumentsOK
  BY NoDocuments DEF Init, DocumentsOK
<1>5. EntriesOK
  BY DEF Init, EntriesOK
<1>6. PrintOK
  <2>1. Len(<< >>) = 0
    OBVIOUS
  <2> QED
    BY <2>1, DocliAssumption DEF Init, PrintOK
<1> QED
  BY <1>1, <1>2, <1>3, <1>4, <1>5, <1>6 DEF DInv

LEMMA NextDocuments == IInv /\ DInv /\ [Next]_vars => DInv'
<1> SUFFICES ASSUME IInv, DInv, [Next]_vars PROVE DInv'
  OBVIOUS
<1>1. CASE UNCHANGED vars
  BY <1>1, ItemsKept
  DEF vars, DInv, TypesOK, CountOK, AnswerOK, DocumentsOK, EntriesOK, PrintOK
<1>2. CASE Step
  BY <1>2, FindVersionDocuments, OpenNamespaceDocuments, LookupDocuments, StoreDocuments,
     SendDocuments, CancelledDocuments, DecodeDocuments, CheckDocuments, WriteItemDocuments,
     FinishDocuments
  DEF Step
<1>3. CASE Begin \/ TimeOut \/ Respond \/ Deliver \/ Interrupt
  BY <1>3, BeginDocuments, TimeOutDocuments, RespondDocuments, DeliverDocuments,
     InterruptDocuments
<1> QED
  BY <1>1, <1>2, <1>3 DEF Next

----------------------------------------------------------------------------
(* Theorems *)

LEMMA InitInv == Init => IInv
<1> SUFFICES ASSUME Init PROVE IInv
  OBVIOUS
<1>1. LineOK
  <2>1. NoLine.cmd = ""
    BY DEF NoLine, Line
  <2>2. OptionsOf(NoLine) = ZeroValue(ConvertOptions)
    BY <2>1 DEF OptionsOf
  <2> QED
    BY <2>2 DEF Init, LineOK
<1>2. RequestOK
  BY DEF Init, RequestOK
<1>3. RespOK
  BY NoResponseIs DEF Init, RespOK
<1>4. StoreOK
  BY DEF Init, StoreOK
<1>5. OutOK
  BY DEF Init, OutOK
<1> QED
  BY <1>1, <1>2, <1>3, <1>4, <1>5 DEF IInv

LEMMA NextInv == IInv /\ [Next]_vars => IInv'
<1> SUFFICES ASSUME IInv, [Next]_vars PROVE IInv'
  OBVIOUS
<1>1. CASE UNCHANGED vars
  BY <1>1, ItemsKept, AnswersKept
  DEF vars, IInv, LineOK, RequestOK, RespOK, StoreOK, OutOK, Printed
<1>2. CASE Step
  BY <1>2, FindVersionInv, OpenNamespaceInv, LookupInv, StoreInv, SendInv, CancelledInv,
     DecodeInv, CheckInv, WriteItemInv, FinishInv
  DEF Step
<1>3. CASE Begin \/ TimeOut \/ Respond \/ Deliver \/ Interrupt
  BY <1>3, BeginInv, TimeOutInv, RespondInv, DeliverInv, InterruptInv
<1> QED
  BY <1>1, <1>2, <1>3 DEF Next

LEMMA Invariant == Spec => []IInv
BY InitInv, NextInv, PTL DEF Spec

LEMMA Documented == Spec => [](IInv /\ DInv)
BY InitInv, InitDocuments, NextInv, NextDocuments, PTL DEF Spec

\* A run that exits with 0 has been answered and has printed all of it, a content, every
\* chunk or the versions, and health and ready a line, for any documents and any number of
\* chunks; only health and ready may have printed a part of it (main.go:300).
THEOREM ZeroIsDone == Spec => []ZeroMeansDone
<1>1. IInv => ZeroMeansDone
  <2> SUFFICES ASSUME IInv, pc = "exited", runs > 0, code = 0
               PROVE  /\ resp # NoResponse
                      /\ line.cmd = "chunk" /\ ~ChunkPretty(line) =>
                           out = [i \in 1 .. resp.chunks |-> Item("chunk", i)]
                      /\ line.cmd \in {"convert", "version"} \/ ChunkPretty(line) => Len(out) = 1
                      /\ line.cmd \notin {"health", "ready"} =>
                           Torn \notin {out[i] : i \in DOMAIN out}
    BY DEF ZeroMeansDone
  <2>1. /\ resp # NoResponse /\ (line.cmd = "convert" => Items # << >>)
        /\ line.cmd \notin {"health", "ready"} => Printed(Len(Items))
        /\ ChunkPretty(line) => line.cmd = "chunk"
    BY DEF IInv, OutOK, ChunkPretty
  <2>2. CASE line.cmd \notin {"health", "ready"}
    <3>1. out = Items /\ IsSequence(Items)
      BY <2>1, <2>2, ItemsAre DEF Printed, IsSequence
    <3>2. DOMAIN out = 1 .. Len(Items)
      BY <3>1 DEF IsSequence
    <3> QED
      BY <2>1, <2>2, <3>1, <3>2, ItemsAre
  <2>3. CASE line.cmd \in {"health", "ready"}
    BY <2>1, <2>3
  <2> QED
    BY <2>2, <2>3
<1> QED
  BY <1>1, Invariant, PTL

\* Whatever command lines filled the cache, a response from it answers the request this
\* run would have made, unless JSON has no value for an option: a key tells any two
\* requests apart (CacheKey, cache.go:28-41).
THEOREM HitsAnswerThisLine == Spec => []AnswersThisLine
<1>1. IInv => AnswersThisLine
  <2> SUFFICES ASSUME IInv, line.cmd = "convert", resp # NoResponse, resp.of # line,
                      Encodable(opts)
               PROVE  Asked(resp.of) = Asked(line)
    BY DEF AnswersThisLine
  <2>1. /\ ~Rejected(line) /\ opts = OptionsOf(line) /\ resp.of.cmd = "convert"
        /\ ~Rejected(resp.of) /\ KeyOf(resp.of) = KeyOf(line)
    BY DEF IInv, LineOK, RespOK
  <2> QED
    BY <2>1, KeyTellsApart
<1> QED
  BY <1>1, Invariant, PTL

\* Once it is interrupted docli starts no request any more, in whatever run and step the
\* interrupt comes (main.go:358-363).
THEOREM InterruptQuiets == Spec => QuietAfterInterrupt
<1>1. IInv /\ [Next]_vars => [context = "cancelled" => received' <= received]_vars
  <2> SUFFICES ASSUME IInv, Next, context = "cancelled" PROVE received' <= received
    BY DEF vars
  <2>1. received \in Nat
    BY DEF IInv, LineOK
  <2>2. CASE Begin
    BY <2>1, <2>2 DEF Begin
  <2>3. CASE Send
    BY <2>1, <2>3 DEF Send
  <2>4. CASE UNCHANGED received
    BY <2>1, <2>4
  <2> QED
    BY <2>2, <2>3, <2>4
    DEF Next, Step, FindVersion, OpenNamespace, Lookup, Store, Cancelled, Decode, Check,
        WriteItem, Finish, TimeOut, Respond, Deliver, Interrupt
<1> QED
  BY <1>1, Invariant, PTL DEF Spec, QuietAfterInterrupt

LEMMA SequenceIs == ASSUME NEW X, NEW s \in Seq(X) PROVE IsSequence(s)
BY DEF IsSequence

\* The format convert prints is the first one --to names.
LEMMA PrimaryIs ==
  ASSUME IInv, DInv, line.cmd = "convert", ~Rejected(line)
  PROVE  Primary \in Formats
<1> DEFINE to == Value(line.flags, "to", <<"md">>)
<1>1. line \in Lines /\ opts = OptionsOf(line)
  <2>1. NoLine.cmd = ""
    BY DEF NoLine, Line
  <2>2. runs \in Nat /\ runs # 0
    BY <2>1, DocliAssumption DEF IInv, LineOK, DInv, TypesOK
  <2> QED
    BY <2>2 DEF IInv, LineOK
<1>2. opts.to_formats = parseOutputFormats(to) /\ opts.to_formats # << >>
  BY <1>1, OptionsAre
<1>3. IsSequence(to)
  <2>1. CASE Changed(line.flags, "to")
    <3>1. to = line.flags["to"] /\ WellFormed(line.flags)
      BY <1>1, <2>1, DocliAssumption DEF Value
    <3>2. to \in Seq(STRING)
      BY <2>1, <3>1 DEF WellFormed, Changed
    <3> HIDE DEF to
    <3> QED
      BY <3>2, SequenceIs
  <2>2. CASE ~Changed(line.flags, "to")
    <3>1. to = <<"md">>
      BY <2>2 DEF Value
    <3> QED
      BY <3>1, OneItem
  <2> QED
    BY <2>1, <2>2
<1> HIDE DEF to
<1> DEFINE trimmed == [i \in DOMAIN to |-> TrimSpace(to[i])]
<1>4. opts.to_formats = trimmed /\ \A i \in DOMAIN trimmed : trimmed[i] \in OutputFormats
  BY <1>2 DEF parseOutputFormats
<1>5. Len(to) \in Nat /\ DOMAIN to = 1 .. Len(to)
  BY <1>3 DEF IsSequence
<1>6. Len(to) # 0
  <2> SUFFICES ASSUME Len(to) = 0 PROVE FALSE
    OBVIOUS
  <2>1. DOMAIN to = {}
    BY <1>5
  <2>2. trimmed = << >>
    BY <2>1
  <2> QED
    BY <1>2, <1>4, <2>2
<1>7. 1 \in DOMAIN trimmed
  BY <1>5, <1>6
<1> QED
  BY <1>4, <1>7 DEF Primary, OutputFormats, Formats

\* The variables keep their types, the contents of a response those of documents, however
\* often and in whatever layout documents go through the cache; no run sends more than two
\* requests, and stdout gets at most a line for every chunk and a part of one.
THEOREM TypesAreOK == Spec => []TypeOK
<1>1. IInv /\ DInv => TypeOK
  <2> SUFFICES ASSUME IInv, DInv PROVE TypeOK
    OBVIOUS
  <2>1. line.cmd \in {"", "convert", "chunk", "health", "ready", "version"}
    <3>1. CASE runs = 0
      <4>1. NoLine.cmd = ""
        BY DEF NoLine, Line
      <4> QED
        BY <3>1, <4>1 DEF DInv, TypesOK
    <3>2. CASE runs # 0
      <4>1. line \in Lines
        BY <3>2, DocliAssumption DEF IInv, LineOK
      <4> QED
        BY <4>1, DocliAssumption
    <3> QED
      BY <3>1, <3>2
  <2>2. \A k \in DOMAIN store : store[k].contents \in Wire
    BY DocumentsAreKept DEF DInv, EntriesOK
  <2>3. Len(out) <= MaxChunks + 1
    <3>1. MaxChunks \in Nat /\ Len(out) \in 0 .. MaxChunks + 1
      BY DocliAssumption DEF DInv, PrintOK
    <3> QED
      BY <3>1
  <2>4. pc \in {"store", "check", "print"} => resp # NoResponse
    BY DEF IInv, RespOK
  <2> QED
    BY <2>1, <2>2, <2>3, <2>4 DEF TypeOK, DInv, TypesOK, CountOK, DocumentsOK
<1> QED
  BY <1>1, Documented, PTL

\* Whenever a run waits for its document or chunks, the request asks for what its flags say
\* and for nothing else but do_ocr, which is true unasked, with any flags that are not
\* rejected; --pages is held to it when it is nothing, a page or two pages
\* (README.md:215-257, main.go:654-689).
THEOREM SendsWhatIsMeant == Spec => []SentIsWhatWasSet
<1>1. IInv => SentIsWhatWasSet
  <2> SUFFICES ASSUME IInv, pc = "wait", asking = "document" PROVE SentIsWhatWasSet
    BY DEF SentIsWhatWasSet
  <2>1. line \in Lines /\ ~Rejected(line)
    BY DEF IInv, LineOK
  <2>2. /\ line.cmd \in {"convert", "chunk"} /\ WellFormed(line.flags)
        /\ line.cmd = "chunk" => ~Changed(line.flags, "to")
    <3>1. line.cmd \in {"convert", "chunk", "health", "ready", "version"}
      BY <2>1, DocliAssumption
    <3>2. line.cmd \in {"convert", "chunk"}
      BY <3>1 DEF IInv, RequestOK
    <3> QED
      BY <2>1, <3>2, DocliAssumption
  <2>3. {s \in Settings(Asked(line)) : s.name \notin Loose(line)} =
          {s \in Meant(line) \cup Unasked(line) : s.name \notin Loose(line)}
    BY <2>1, <2>2, AskedIsMeant
  <2>4. CASE WellFormedPages(Given(line, "pages"))
    <3>1. Loose(line) = {}
      BY <2>4 DEF Loose
    <3>2. Settings(Asked(line)) = Meant(line) \cup Unasked(line)
      BY <2>3, <3>1
    <3> QED
      BY <2>4, <3>2 DEF SentIsWhatWasSet
  <2>5. CASE ~WellFormedPages(Given(line, "pages"))
    <3>1. Loose(line) = {"page_range"}
      BY <2>5 DEF Loose
    <3>2. {s \in Settings(Asked(line)) : ~(s.name = "page_range")} =
            {s \in Meant(line) \cup Unasked(line) : ~(s.name = "page_range")}
      BY <2>3, <3>1
    <3> QED
      BY <2>5, <3>2 DEF SentIsWhatWasSet
  <2> QED
    BY <2>4, <2>5
<1> QED
  BY <1>1, Invariant, PTL

\* convert prints the content the server sent in the first format of --to, as it was sent
\* or, from the cache, maybe in another layout, whatever documents and formats there are;
\* and it fails for want of a content only if the server sent none (types.go:419-420).
THEOREM PrintsWhatWasSent == Spec => []PrintsTheDocument
<1>1. IInv /\ DInv => PrintsTheDocument
  <2> DEFINE f == Primary
             sent == resp.sent
             text == ContentOf(resp.contents, f)
             cached == answer.status = "none"
  <2> SUFFICES ASSUME IInv, DInv, line.cmd = "convert", pc = "exited", resp # NoResponse
               PROVE  /\ code = 0 => /\ ~Blank(f, sent[f]) /\ Len(out) = 1
                                     /\ out[1].text \in {sent[f]} \cup
                                          IF cached THEN {Marshalled(f, sent[f])} ELSE {}
                      /\ code = 1 /\ out = << >> =>
                           Blank(f, sent[f]) \/ resp.status = "failure"
    BY DEF PrintsTheDocument
  <2>1. f \in Formats
    BY PrimaryIs DEF IInv, RespOK
  <2>2. Items = IF text = "" THEN << >> ELSE <<Item(text, 1)>>
    BY DEF Items, ContentItems
  <2>3. \/ text = IF Blank(f, sent[f]) THEN "" ELSE sent[f]
        \/ cached /\ text = IF Blank(f, sent[f]) THEN "" ELSE Marshalled(f, sent[f])
    <3>1. /\ sent \in Wire
          /\ \/ resp.contents = Unmarshal(sent)
             \/ cached /\ resp.contents = Unmarshal(Marshal(Unmarshal(sent)))
      BY DEF DInv, DocumentsOK
    <3> HIDE DEF f, sent, cached
    <3> QED
      BY <2>1, <3>1, DocumentsAreKept DEF text
  <2> HIDE DEF f, sent, text, cached
  <2>4. text = "" <=> Blank(f, sent[f])
    BY <2>3 DEF Blank, Marshalled, Compact
  <2>5. ASSUME code = 0
        PROVE  /\ text # "" /\ Len(out) = 1 /\ out[1].text = text
    <3>1. Items # << >> /\ Printed(Len(Items))
      <4>1. runs \in Nat /\ runs # 0
        <5>1. NoLine.cmd # "convert" /\ runs \in Nat
          BY DEF IInv, LineOK, NoLine, Line
        <5> QED
          BY <5>1 DEF DInv, TypesOK
      <4> QED
        BY <2>5, <4>1 DEF IInv, OutOK
    <3>2. text # "" /\ Items = <<Item(text, 1)>>
      BY <2>2, <3>1
    <3>3. Len(Items) = 1 /\ Items[1] = Item(text, 1)
      BY <3>2, OneItem
    <3>4. out = [i \in 1 .. 1 |-> Items[i]]
      BY <3>1, <3>3 DEF Printed
    <3>5. Len(out) = 1 /\ out[1] = Items[1]
      <4>1. out = [i \in 1 .. 1 |-> out[i]]
        BY <3>4
      <4> QED
        BY <3>4, <4>1, LengthIs
    <3>6. Item(text, 1).text = text
      BY DEF Item
    <3> QED
      BY <3>2, <3>3, <3>5, <3>6
  <2>6. ASSUME code = 1, out = << >>
        PROVE  text = "" \/ resp.status = "failure"
    <3>1. resp.status = "failure" \/ Items = << >>
      BY <2>6 DEF DInv, PrintOK
    <3>2. <<Item(text, 1)>> # << >>
      BY OneItem
    <3> QED
      BY <2>2, <3>1, <3>2
  <2> QED
    BY <2>3, <2>4, <2>5, <2>6
<1> QED
  BY <1>1, Documented, PTL
=============================================================================
