------------------------ MODULE ClientConfig_proofs ------------------------
(***************************************************************************)
(* A Client is built as its options ask, however many are built at the     *)
(* same time.  The invariant says it of the options applied so far.        *)
(***************************************************************************)
EXTENDS ClientConfig, TLAPS

\* The last value the first n options ask for.
Last(opts, with, default, n) ==
  LET at == {i \in 1 .. n : opts[i].with = with}
  IN  IF at = {} THEN default
      ELSE opts[CHOOSE i \in at : \A j \in at : j <= i].value

\* What the options applied so far ask for; the time limit of the http.Client of its own
\* is what they ask for as long as it is in use.
AsAskedIs(c, s, limit) ==
  /\ ~s.new => s.opts = << >>
  /\ s.new => s.base = Trimmed(s.given)
  /\ s.applied <= Len(s.opts)
  /\ s.http \in {c, NoClient} \cup Custom
  /\ s.key = Last(s.opts, "APIKey", NoKey, s.applied)
  /\ s.http = Last(s.opts, "HTTPClient", c, s.applied)
  /\ s.http = c => limit = Last(s.opts, "Timeout", DefaultTimeout, s.applied)

AsAsked(c) == AsAskedIs(c, client[c], timeout[c])

IInv == TypeOK /\ \A c \in Clients : AsAsked(c)

----------------------------------------------------------------------------
(* Lists of options *)

\* An option list is a function from its positions to Options.
LEMMA ListIs ==
  ASSUME NEW opts \in OptionLists
  PROVE  /\ Len(opts) \in 0 .. MaxOptions /\ DOMAIN opts = 1 .. Len(opts)
         /\ \A i \in 1 .. Len(opts) : opts[i] \in Options
<1>1. PICK n \in 0 .. MaxOptions : opts \in [1 .. n -> Options]
  BY DEF OptionLists
<1>2. n \in Nat /\ opts \in Seq(Options)
  BY <1>1, ClientAssumption
<1>3. Len(opts) = n
  BY <1>1, <1>2
<1> QED
  BY <1>1, <1>3

LEMMA EmptyIsList == << >> \in OptionLists /\ Len(<< >>) = 0
<1>1. << >> \in [1 .. 0 -> Options]
  OBVIOUS
<1> QED
  BY <1>1, ClientAssumption DEF OptionLists

\* No option asks for nothing.
LEMMA LastOfNone ==
  ASSUME NEW opts, NEW with, NEW default
  PROVE  Last(opts, with, default, 0) = default
BY DEF Last

\* One more option replaces what was asked for, or it is about something else.
LEMMA LastOfNext ==
  ASSUME NEW opts, NEW with, NEW default, NEW n \in Nat, NEW m, m = n + 1
  PROVE  Last(opts, with, default, m) =
           IF opts[m].with = with THEN opts[m].value ELSE Last(opts, with, default, n)
<1> DEFINE At(k) == {i \in 1 .. k : opts[i].with = with}
<1>1. CASE opts[m].with = with
  <2> DEFINE last == CHOOSE i \in At(m) : \A j \in At(m) : j <= i
  <2>1. m \in At(m) /\ \A j \in At(m) : j <= m
    BY <1>1
  <2>2. last \in At(m) /\ \A j \in At(m) : j <= last
    <3> HIDE DEF At
    <3> QED
      BY <2>1, Zenon
  <2>3. last = m
    <3> HIDE DEF last
    <3> QED
      BY <2>1, <2>2
  <2>4. Last(opts, with, default, m) = opts[last].value
    BY <2>1, Zenon DEF Last
  <2> QED
    BY <1>1, <2>3, <2>4, Zenon
<1>2. CASE opts[m].with # with
  <2>1. At(m) = At(n)
    BY <1>2
  <2>2. Last(opts, with, default, m) =
          IF At(m) = {} THEN default
          ELSE opts[CHOOSE i \in At(m) : \A j \in At(m) : j <= i].value
    BY DEF Last
  <2>3. Last(opts, with, default, n) =
          IF At(n) = {} THEN default
          ELSE opts[CHOOSE i \in At(n) : \A j \in At(n) : j <= i].value
    BY DEF Last
  <2> HIDE DEF At
  <2> QED
    BY <1>2, <2>1, <2>2, <2>3
<1> QED
  BY <1>1, <1>2

\* The options of a Client that has applied them all ask for what the property says.
LEMMA LastOfAll ==
  ASSUME TypeOK, NEW c \in Clients, NEW with, NEW default
  PROVE  Last(client[c].opts, with, default, Len(client[c].opts)) = Asked(c, with, default)
<1>1. client[c].opts \in OptionLists
  BY DEF TypeOK, ClientStates
<1>2. DOMAIN client[c].opts = 1 .. Len(client[c].opts)
  BY <1>1, ListIs
<1> QED
  BY <1>2 DEF Last, Asked

LEMMA TrimmedIs ==
  ASSUME NEW b \in BaseURLs
  PROVE  /\ Trimmed(b) \in BaseURLs /\ Trimmed(b).slashes = 0
         /\ Trimmed(b).root = IF b = BaseURL(NoRoot, 0) THEN DefaultRoot ELSE b.root
BY ClientAssumption DEF Trimmed, BaseURL, BaseURLs

----------------------------------------------------------------------------
(* Steps *)

\* A Client keeps its type when its fields do.
LEMMA FieldSet ==
  ASSUME NEW s \in ClientStates
  PROVE  /\ \A opts \in OptionLists, b \in BaseURLs, t \in BaseURLs :
              [s EXCEPT !.new = TRUE, !.opts = opts, !.given = b, !.base = t] \in ClientStates
         /\ \A n \in 0 .. MaxOptions : [s EXCEPT !.applied = n] \in ClientStates
         /\ \A n \in 0 .. MaxOptions, k \in Keys :
              [s EXCEPT !.key = k, !.applied = n] \in ClientStates
         /\ \A n \in 0 .. MaxOptions, h \in HTTPClients \cup {NoClient} :
              [s EXCEPT !.http = h, !.applied = n] \in ClientStates
BY DEF ClientStates

\* A step of one Client that leaves the time limits of the http.Clients of the others.
LEMMA ClientStep ==
  ASSUME IInv, NEW c \in Clients, NEW s \in ClientStates,
         client' = [client EXCEPT ![c] = s],
         timeout' \in [HTTPClients -> Timeouts],
         \A d \in Clients \ {c} : timeout'[d] = timeout[d],
         AsAsked(c)'
  PROVE  IInv'
<1>1. client' \in [Clients -> ClientStates] /\ \A d \in Clients \ {c} : client'[d] = client[d]
  BY DEF IInv, TypeOK
<1>2. TypeOK'
  BY <1>1 DEF IInv, TypeOK
<1>3. ASSUME NEW d \in Clients \ {c} PROVE AsAsked(d)'
  <2>1. client'[d] = client[d] /\ timeout'[d] = timeout[d] /\ AsAsked(d)
    BY <1>1 DEF IInv
  <2> QED
    BY <2>1 DEF AsAsked
<1> QED
  BY <1>2, <1>3 DEF IInv

\* What holds of the Client before it applies its next option.
LEMMA Before ==
  ASSUME IInv, NEW c \in Clients
  PROVE  /\ client[c] \in ClientStates /\ client \in [Clients -> ClientStates]
         /\ client[c].opts \in OptionLists /\ client[c].applied \in 0 .. MaxOptions
         /\ client[c].given \in BaseURLs /\ AsAsked(c)
         /\ timeout \in [HTTPClients -> Timeouts]
BY DEF IInv, TypeOK, ClientStates

LEMMA NewInv == ASSUME IInv, NEW c \in Clients, New(c) PROVE IInv'
<1>1. PICK opts \in OptionLists, b \in BaseURLs :
        client' = [client EXCEPT ![c].new = TRUE, ![c].opts = opts,
                                 ![c].given = b, ![c].base = Trimmed(b)]
  BY DEF New
<1> DEFINE s == [client[c] EXCEPT !.new = TRUE, !.opts = opts, !.given = b, !.base = Trimmed(b)]
<1>2. s \in ClientStates
  BY Before, FieldSet, TrimmedIs
<1>3. /\ s.new /\ s.opts = opts /\ s.base = Trimmed(b) /\ s.given = b
      /\ s.applied = client[c].applied /\ s.http = client[c].http /\ s.key = client[c].key
  BY Before DEF ClientStates
<1>4. client' = [client EXCEPT ![c] = s] /\ client'[c] = s
  BY <1>1, Before
<1> HIDE DEF s
<1>5. timeout' = timeout
  BY DEF New
<1>6. client[c].applied = 0
  <2>1. client[c].opts = << >>
    BY Before DEF New, AsAsked, AsAskedIs
  <2> QED
    BY <2>1, Before, EmptyIsList DEF AsAsked, AsAskedIs
<1>7. Len(opts) \in Nat
  BY ListIs
<1>8. /\ s.key = Last(s.opts, "APIKey", NoKey, 0) /\ s.http = Last(s.opts, "HTTPClient", c, 0)
      /\ s.http = c => timeout[c] = Last(s.opts, "Timeout", DefaultTimeout, 0)
  <2>1. /\ client[c].key = Last(client[c].opts, "APIKey", NoKey, 0)
        /\ client[c].http = Last(client[c].opts, "HTTPClient", c, 0)
        /\ client[c].http = c =>
             timeout[c] = Last(client[c].opts, "Timeout", DefaultTimeout, 0)
    BY <1>6, Before DEF AsAsked, AsAskedIs
  <2>2. ASSUME NEW l, NEW w, NEW default PROVE Last(l, w, default, 0) = default
    BY LastOfNone, Zenon
  <2> QED
    BY <1>3, <2>1, <2>2
<1>9. AsAskedIs(c, s, timeout[c])
  <2>1. s.http \in {c, NoClient} \cup Custom
    BY <1>3, Before DEF AsAsked, AsAskedIs
  <2>2. s.applied = 0 /\ s.base = Trimmed(s.given) /\ s.applied <= Len(s.opts)
    BY <1>3, <1>6, <1>7
  <2> QED
    BY <1>3, <1>8, <2>1, <2>2, Zenon DEF AsAskedIs
<1>10. AsAsked(c)'
  BY <1>4, <1>5, <1>9 DEF AsAsked
<1> QED
  BY <1>2, <1>4, <1>5, <1>10, Before, ClientStep

\* The option that is applied.
LEMMA NextOptionIs ==
  ASSUME IInv, NEW c \in Clients, NEW with, CanApply(c, with)
  PROVE  LET n == client[c].applied + 1
             o == client[c].opts[n]
         IN  /\ client[c].new /\ client[c].applied \in Nat
             /\ n \in 0 .. MaxOptions /\ n <= Len(client[c].opts)
             /\ o \in Options /\ o.with = with
<1> DEFINE n == client[c].applied + 1
<1>1. client[c].new /\ client[c].applied < Len(client[c].opts) /\ client[c].opts[n].with = with
  BY DEF CanApply, NextOption
<1>2. n \in 1 .. Len(client[c].opts) /\ n \in 0 .. MaxOptions /\ client[c].applied \in Nat
  BY <1>1, Before, ListIs, ClientAssumption
<1>3. client[c].opts[n] \in Options
  BY <1>2, Before, ListIs
<1> QED
  BY <1>1, <1>2, <1>3

\* What the Client is asked for once it is applied.
LEMMA AskedNext ==
  ASSUME IInv, NEW c \in Clients, NEW with, CanApply(c, with)
  PROVE  LET s == client[c]
             n == s.applied + 1
             o == s.opts[n]
             Wish(w, default) ==
               IF o.with = w THEN o.value ELSE Last(s.opts, w, default, s.applied)
         IN  /\ Last(s.opts, "APIKey", NoKey, n) = Wish("APIKey", NoKey)
             /\ Last(s.opts, "HTTPClient", c, n) = Wish("HTTPClient", c)
             /\ Last(s.opts, "Timeout", DefaultTimeout, n) = Wish("Timeout", DefaultTimeout)
<1> DEFINE s == client[c]
           n == s.applied + 1
<1>1. s.applied \in Nat
  BY NextOptionIs
<1>2. ASSUME NEW w, NEW default
      PROVE  Last(s.opts, w, default, n) =
               IF s.opts[n].with = w THEN s.opts[n].value
               ELSE Last(s.opts, w, default, s.applied)
  <2> HIDE DEF s, n
  <2>1. n = s.applied + 1
    BY DEF n
  <2> QED
    BY <1>1, <2>1, LastOfNext
<1> QED
  BY <1>2, Zenon

LEMMA WithAPIKeyInv == ASSUME IInv, NEW c \in Clients, WithAPIKey(c) PROVE IInv'
<1> DEFINE n == client[c].applied + 1
           o == client[c].opts[n]
           s == [client[c] EXCEPT !.key = o.value, !.applied = n]
<1>1. CanApply(c, "APIKey") /\ timeout' = timeout
  BY DEF WithAPIKey
<1>2. o.value \in Keys
  <2>1. o \in Options /\ o.with = "APIKey"
    BY <1>1, NextOptionIs
  <2> HIDE DEF o
  <2> QED
    BY <2>1 DEF Options
<1>3. s \in ClientStates
  <2>1. n \in 0 .. MaxOptions
    BY <1>1, NextOptionIs
  <2> QED
    BY <1>2, <2>1, Before, FieldSet
<1>4. client' = [client EXCEPT ![c] = s] /\ client'[c] = s
  BY Before DEF WithAPIKey, Applied, NextOption, ClientStates
<1>5. /\ s.key = o.value /\ s.applied = n /\ s.new = client[c].new
      /\ s.opts = client[c].opts /\ s.base = client[c].base
      /\ s.given = client[c].given /\ s.http = client[c].http
  BY Before DEF ClientStates
<1> HIDE DEF s
<1>6. /\ s.new /\ n <= Len(s.opts)
      /\ Last(s.opts, "APIKey", NoKey, n) = o.value
      /\ Last(s.opts, "HTTPClient", c, n) = Last(s.opts, "HTTPClient", c, client[c].applied)
      /\ Last(s.opts, "Timeout", DefaultTimeout, n) =
           Last(s.opts, "Timeout", DefaultTimeout, client[c].applied)
  BY <1>1, <1>5, NextOptionIs, AskedNext
<1> HIDE DEF o
<1>7. AsAskedIs(c, s, timeout[c])
  BY <1>5, <1>6, Before DEF AsAsked, AsAskedIs
<1>8. AsAsked(c)'
  BY <1>1, <1>4, <1>7 DEF AsAsked
<1> QED
  BY <1>1, <1>3, <1>4, <1>8, Before, ClientStep

LEMMA WithHTTPClientInv == ASSUME IInv, NEW c \in Clients, WithHTTPClient(c) PROVE IInv'
<1> DEFINE n == client[c].applied + 1
           o == client[c].opts[n]
           s == [client[c] EXCEPT !.http = o.value, !.applied = n]
<1>1. CanApply(c, "HTTPClient") /\ timeout' = timeout
  BY DEF WithHTTPClient
<1>2. o.value \in Custom \cup {NoClient} /\ o.value # c
  <2>1. o \in Options /\ o.with = "HTTPClient"
    BY <1>1, NextOptionIs
  <2> HIDE DEF o
  <2> QED
    BY <2>1, ClientAssumption DEF Options
<1>3. s \in ClientStates
  <2>1. n \in 0 .. MaxOptions
    BY <1>1, NextOptionIs
  <2> QED
    BY <1>2, <2>1, Before, FieldSet DEF HTTPClients
<1>4. client' = [client EXCEPT ![c] = s] /\ client'[c] = s
  BY Before DEF WithHTTPClient, Applied, NextOption, ClientStates
<1>5. /\ s.http = o.value /\ s.applied = n /\ s.new = client[c].new
      /\ s.opts = client[c].opts /\ s.base = client[c].base
      /\ s.given = client[c].given /\ s.key = client[c].key
  BY Before DEF ClientStates
<1> HIDE DEF s
<1>6. /\ s.new /\ n <= Len(s.opts)
      /\ Last(s.opts, "APIKey", NoKey, n) = Last(s.opts, "APIKey", NoKey, client[c].applied)
      /\ Last(s.opts, "HTTPClient", c, n) = o.value
      /\ Last(s.opts, "Timeout", DefaultTimeout, n) =
           Last(s.opts, "Timeout", DefaultTimeout, client[c].applied)
  BY <1>1, <1>5, NextOptionIs, AskedNext
<1> HIDE DEF o
<1>7. AsAskedIs(c, s, timeout[c])
  BY <1>2, <1>5, <1>6, Before DEF AsAsked, AsAskedIs
<1>8. AsAsked(c)'
  BY <1>1, <1>4, <1>7 DEF AsAsked
<1> QED
  BY <1>1, <1>3, <1>4, <1>8, Before, ClientStep

\* It sets the time limit of a custom http.Client, or of the one that is the Client's own,
\* or none; no other Client uses its own.
LEMMA WithTimeoutInv == ASSUME IInv, NEW c \in Clients, WithTimeout(c) PROVE IInv'
<1> DEFINE n == client[c].applied + 1
           o == client[c].opts[n]
           h == client[c].http
           s == [client[c] EXCEPT !.applied = n]
<1>1. /\ CanApply(c, "Timeout")
      /\ timeout' = [timeout EXCEPT ![h] = o.value] \/ (h = NoClient /\ timeout' = timeout)
  BY DEF WithTimeout, NextOption
<1>2. o.value \in Timeouts
  <2>1. o \in Options /\ o.with = "Timeout"
    <3>1. CanApply(c, "Timeout")
      BY <1>1
    <3> QED
      BY <3>1, NextOptionIs
  <2> HIDE DEF o
  <2> QED
    BY <2>1 DEF Options
<1>3. s \in ClientStates
  BY <1>1, NextOptionIs, Before, FieldSet
<1>4. client' = [client EXCEPT ![c] = s] /\ client'[c] = s
  BY Before DEF WithTimeout, Applied, ClientStates
<1>5. /\ s.http = h /\ s.applied = n /\ s.new = client[c].new
      /\ s.opts = client[c].opts /\ s.base = client[c].base
      /\ s.given = client[c].given /\ s.key = client[c].key
  BY Before DEF ClientStates
<1> HIDE DEF s
<1>6. /\ timeout' \in [HTTPClients -> Timeouts]
      /\ h = c => timeout'[c] = o.value
      /\ \A d \in Clients \ {c} : timeout'[d] = timeout[d]
  <2>1. h \in {c, NoClient} \cup Custom
    BY Before DEF AsAsked, AsAskedIs
  <2> QED
    BY <1>1, <1>2, <2>1, Before, ClientAssumption DEF HTTPClients
<1>7. /\ s.new /\ n <= Len(s.opts)
      /\ Last(s.opts, "APIKey", NoKey, n) = Last(s.opts, "APIKey", NoKey, client[c].applied)
      /\ Last(s.opts, "HTTPClient", c, n) = Last(s.opts, "HTTPClient", c, client[c].applied)
      /\ Last(s.opts, "Timeout", DefaultTimeout, n) = o.value
  BY <1>1, <1>5, NextOptionIs, AskedNext
<1> HIDE DEF o
<1>8. AsAskedIs(c, s, timeout'[c])
  BY <1>5, <1>6, <1>7, Before DEF AsAsked, AsAskedIs
<1>9. AsAsked(c)'
  BY <1>4, <1>8 DEF AsAsked
<1> QED
  BY <1>1, <1>3, <1>4, <1>6, <1>9, ClientStep

----------------------------------------------------------------------------
(* Theorems *)

LEMMA InitInv == Init => IInv
<1> SUFFICES ASSUME Init PROVE IInv
  OBVIOUS
<1>1. ASSUME NEW c \in Clients
      PROVE  /\ client[c] = [new |-> FALSE, opts |-> << >>, applied |-> 0,
                             given |-> BaseURL(NoRoot, 0), base |-> BaseURL(NoRoot, 0),
                             http |-> c, key |-> NoKey]
             /\ timeout[c] = DefaultTimeout
  BY ClientAssumption DEF Init, HTTPClients
<1>2. BaseURL(NoRoot, 0) \in BaseURLs
  BY DEF BaseURL, BaseURLs
<1>3. TypeOK
  BY <1>2, EmptyIsList, ClientAssumption DEF Init, TypeOK, ClientStates, HTTPClients
<1>4. ASSUME NEW c \in Clients PROVE AsAsked(c)
  <2>1. /\ ~client[c].new /\ client[c].applied = 0 /\ client[c].opts = << >>
        /\ client[c].http = c /\ client[c].key = NoKey /\ timeout[c] = DefaultTimeout
    <3> DEFINE s == client[c]
    <3>1. s = [new |-> FALSE, opts |-> << >>, applied |-> 0,
               given |-> BaseURL(NoRoot, 0), base |-> BaseURL(NoRoot, 0),
               http |-> c, key |-> NoKey]
      BY <1>1, Zenon
    <3>2. timeout[c] = DefaultTimeout
      BY <1>1, Zenon
    <3> HIDE DEF s
    <3>3. ~s.new /\ s.applied = 0 /\ s.opts = << >> /\ s.http = c /\ s.key = NoKey
      BY <3>1
    <3> QED
      BY <3>2, <3>3 DEF s
  <2>2. /\ client[c].key = Last(client[c].opts, "APIKey", NoKey, 0)
        /\ client[c].http = Last(client[c].opts, "HTTPClient", c, 0)
        /\ timeout[c] = Last(client[c].opts, "Timeout", DefaultTimeout, 0)
    <3>1. ASSUME NEW opts, NEW with, NEW default, NEW v, v = default
          PROVE  v = Last(opts, with, default, 0)
      BY <3>1, LastOfNone
    <3> QED
      BY <2>1, <3>1
  <2>3. client[c].applied <= Len(client[c].opts)
    BY <2>1, EmptyIsList
  <2>4. client[c].http \in {c, NoClient} \cup Custom
    BY <2>1
  <2> QED
    BY <2>1, <2>2, <2>3, <2>4 DEF AsAsked, AsAskedIs
<1> QED
  BY <1>3, <1>4 DEF IInv

LEMMA NextInv == IInv /\ [Next]_vars => IInv'
<1> SUFFICES ASSUME IInv, [Next]_vars PROVE IInv'
  OBVIOUS
<1>1. CASE UNCHANGED vars
  BY <1>1 DEF vars, IInv, TypeOK, AsAsked
<1>2. ASSUME NEW c \in Clients, New(c) PROVE IInv'
  BY <1>2, NewInv
<1>3. ASSUME NEW c \in Clients, WithAPIKey(c) PROVE IInv'
  BY <1>3, WithAPIKeyInv
<1>4. ASSUME NEW c \in Clients, WithHTTPClient(c) PROVE IInv'
  BY <1>4, WithHTTPClientInv
<1>5. ASSUME NEW c \in Clients, WithTimeout(c) PROVE IInv'
  BY <1>5, WithTimeoutInv
<1> QED
  BY <1>1, <1>2, <1>3, <1>4, <1>5 DEF Next

LEMMA Invariant == Spec => []IInv
BY InitInv, NextInv, PTL DEF Spec

\* Every variable keeps its type (client.go:32-60).
THEOREM TypeCorrect == Spec => []TypeOK
<1>1. IInv => TypeOK
  BY DEF IInv
<1> QED
  BY <1>1, Invariant, PTL

\* A Client built without a custom http.Client has the time limit and credentials its own
\* options ask for last, and the server it was given, however many Clients are built at
\* the same time, with however many options (client.go:62-77).
THEOREM ClientsAreBuiltAsAsked == Spec => []BuiltAsAsked
<1>1. IInv => BuiltAsAsked
  <2> SUFFICES ASSUME IInv, NEW c \in Clients, Built(c)
               PROVE  /\ client[c].base.slashes = 0
                      /\ client[c].base.root =
                           (IF client[c].given = BaseURL(NoRoot, 0) THEN DefaultRoot
                            ELSE client[c].given.root)
                      /\ client[c].key = Asked(c, "APIKey", NoKey)
                      /\ client[c].http = Asked(c, "HTTPClient", c)
                      /\ client[c].http = c => timeout[c] = Asked(c, "Timeout", DefaultTimeout)
    BY DEF BuiltAsAsked
  <2>1. client[c].new /\ client[c].applied = Len(client[c].opts)
    BY DEF Built
  <2>2. client[c].base = Trimmed(client[c].given)
    BY <2>1, Before DEF AsAsked, AsAskedIs
  <2>3. \A with, default :
          Last(client[c].opts, with, default, client[c].applied) = Asked(c, with, default)
    BY <2>1, LastOfAll DEF IInv
  <2> QED
    BY <2>2, <2>3, Before, TrimmedIs DEF AsAsked, AsAskedIs
<1> QED
  BY <1>1, Invariant, PTL

=============================================================================
