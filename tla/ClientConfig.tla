---------------------------- MODULE ClientConfig ----------------------------
(***************************************************************************)
(* New and its Options (client.go), for several goroutines that build      *)
(* Clients at the same time and may pass the same *http.Client to them.    *)
(***************************************************************************)
EXTENDS Naturals, Sequences, FiniteSets, TLC

CONSTANTS
  Clients,        \* the Clients, each with an http.Client of its own by the same name
  Custom,         \* http.Clients of the caller
  NoClient,       \* nil, in place of an http.Client
  Timeouts,       \* the time limits
  DefaultTimeout, \* five minutes
  Roots,          \* roots of servers, without a slash at the end
  NoRoot,         \* the empty string
  DefaultRoot,    \* DefaultBaseURL
  Keys,           \* credentials
  NoKey,          \* the empty string
  MaxOptions      \* bound on the options of a New

ASSUME ClientAssumption ==
  /\ Clients \cap Custom = {} /\ NoClient \notin Clients \cup Custom
  /\ DefaultTimeout \in Timeouts /\ NoKey \notin Keys /\ DefaultRoot \in Roots
  /\ NoRoot \notin Roots /\ MaxOptions \in Nat

VARIABLES
  timeout,    \* timeout[h]: the Timeout field of http.Client h
  client      \* client[c]: the Client, the baseURL and the options it was given, and
              \* how many of them were applied

vars == <<timeout, client>>

----------------------------------------------------------------------------

HTTPClients == Clients \cup Custom

\* WithAPIKey stands for WithTenantID and WithUserAgent too; the http.Client passed to
\* WithHTTPClient may be nil.
Options ==
  [with: {"APIKey"}, value: Keys] \cup [with: {"HTTPClient"}, value: Custom \cup {NoClient}]
    \cup [with: {"Timeout"}, value: Timeouts]

OptionLists == UNION {[1 .. n -> Options] : n \in 0 .. MaxOptions}

\* A root and how many slashes follow it.
BaseURLs == [root: Roots \cup {NoRoot}, slashes: 0 .. 1]

BaseURL(root, slashes) == [root |-> root, slashes |-> slashes]

\* An empty baseURL is replaced, then the slashes at the end go.
Trimmed(baseURL) ==
  IF baseURL = BaseURL(NoRoot, 0) THEN BaseURL(DefaultRoot, 0)
  ELSE [baseURL EXCEPT !.slashes = 0]

ClientStates ==
  [new: BOOLEAN, opts: OptionLists, applied: 0 .. MaxOptions,
   given: BaseURLs, base: BaseURLs, http: HTTPClients \cup {NoClient},
   key: Keys \cup {NoKey}]

Init ==
  /\ timeout \in [HTTPClients -> Timeouts]
  /\ \A c \in Clients : timeout[c] = DefaultTimeout
  /\ client = [c \in Clients |->
                 [new |-> FALSE, opts |-> << >>, applied |-> 0,
                  given |-> BaseURL(NoRoot, 0), base |-> BaseURL(NoRoot, 0),
                  http |-> c, key |-> NoKey]]

\* Variant: the default http.Client is one for all.
NewShared(c) ==
  /\ ~client[c].new
  /\ \E opts \in OptionLists, b \in BaseURLs :
       client' = [client EXCEPT ![c].new = TRUE, ![c].opts = opts,
                                ![c].given = b, ![c].base = Trimmed(b),
                                ![c].http = CHOOSE d \in Clients : TRUE]
  /\ UNCHANGED timeout

\* New up to its loop over the options.
New(c) ==
  /\ ~client[c].new
  /\ \E opts \in OptionLists, b \in BaseURLs :
       client' = [client EXCEPT ![c].new = TRUE, ![c].opts = opts,
                                ![c].given = b, ![c].base = Trimmed(b)]
  /\ UNCHANGED timeout

NextOption(c) == client[c].opts[client[c].applied + 1]

Applied(c, new) == client' = [client EXCEPT ![c] = [new EXCEPT !.applied = @ + 1]]

CanApply(c, with) ==
  /\ client[c].new /\ client[c].applied < Len(client[c].opts)
  /\ NextOption(c).with = with

WithAPIKey(c) ==
  /\ CanApply(c, "APIKey")
  /\ Applied(c, [client[c] EXCEPT !.key = NextOption(c).value])
  /\ UNCHANGED timeout

WithHTTPClient(c) ==
  /\ CanApply(c, "HTTPClient")
  /\ Applied(c, [client[c] EXCEPT !.http = NextOption(c).value])
  /\ UNCHANGED timeout

\* Variant: nil is not checked for, and the field of no http.Client is written.
WithTimeoutUnchecked(c) ==
  /\ CanApply(c, "Timeout")
  /\ Applied(c, client[c])
  /\ timeout' = (client[c].http :> NextOption(c).value) @@ timeout

\* It sets the Timeout of whatever http.Client is in place, if there is one, the caller's
\* too.
WithTimeout(c) ==
  /\ CanApply(c, "Timeout")
  /\ Applied(c, client[c])
  /\ \/ /\ client[c].http # NoClient
        /\ timeout' = [timeout EXCEPT ![client[c].http] = NextOption(c).value]
     \/ client[c].http = NoClient /\ UNCHANGED timeout

Next == \E c \in Clients :
  New(c) \/ WithAPIKey(c) \/ WithHTTPClient(c) \/ WithTimeout(c)

Spec == Init /\ [][Next]_vars

----------------------------------------------------------------------------
(* Properties *)

TypeOK ==
  /\ timeout \in [HTTPClients -> Timeouts]
  /\ client \in [Clients -> ClientStates]

Built(c) == client[c].new /\ client[c].applied = Len(client[c].opts)

\* The last value the options of c ask for, or default if none does.
Asked(c, with, default) ==
  LET opts == client[c].opts
      at   == {i \in DOMAIN opts : opts[i].with = with}
  IN  IF at = {} THEN default
      ELSE opts[CHOOSE i \in at : \A j \in at : j <= i].value

\* A Client built without a custom http.Client has the time limit and credentials
\* its own options ask for last, whatever other Clients are built or timed at the
\* same time, and asks the server it was given, without a slash too many, or the
\* default one (client.go:62-77).
BuiltAsAsked ==
  \A c \in Clients : Built(c) =>
    /\ client[c].base.slashes = 0
    /\ client[c].base.root = (IF client[c].given = BaseURL(NoRoot, 0) THEN DefaultRoot
                              ELSE client[c].given.root)
    /\ client[c].key = Asked(c, "APIKey", NoKey)
    /\ client[c].http = Asked(c, "HTTPClient", c)
    /\ client[c].http = c => timeout[c] = Asked(c, "Timeout", DefaultTimeout)
=============================================================================
