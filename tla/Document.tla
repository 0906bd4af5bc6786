------------------------------ MODULE Document ------------------------------
(***************************************************************************)
(* Document (types.go): what docling-serve sends has a field per format;   *)
(* UnmarshalJSON makes a list of the fields that hold something of them,   *)
(* the accessors look a format up in the list, and MarshalJSON makes the   *)
(* fields again, for a cache entry.                                        *)
(*                                                                         *)
(* A text is "" (an empty or missing field), "null" (of json_content), or  *)
(* a content of its format: Raw as the server laid it out, Compact after   *)
(* json.Marshal has written json_content without its spaces and with <, >  *)
(* and & escaped.                                                          *)
(***************************************************************************)
EXTENDS Naturals, Sequences

Formats == {"md", "json", "html", "text", "doctags"}

Raw == [md |-> "md as sent", json |-> "json as sent", html |-> "html as sent",
        text |-> "text as sent", doctags |-> "doctags as sent"]

Compact == "json compacted"

Texts == {"", "null", Compact} \cup {Raw[f] : f \in Formats}

\* A Document on the wire, and a list of contents.
Wire     == [Formats -> Texts]
Contents == [format: Formats, text: Texts]

NoFields == [f \in Formats |-> ""]

\* A field that holds nothing of a document.
Blank(f, text) == text = "" \/ (f = "json" /\ text = "null")

\* UnmarshalJSON appends the fields that are not blank, one after the other.
Unmarshal(wire) ==
  LET Part(f) == IF Blank(f, wire[f]) THEN << >> ELSE <<[format |-> f, text |-> wire[f]]>>
  IN  Part("md") \o Part("json") \o Part("html") \o Part("text") \o Part("doctags")

\* json.Marshal of a text in the field of a format.
Marshalled(f, text) == IF f = "json" /\ text = Raw["json"] THEN Compact ELSE text

First(S) == CHOOSE i \in S : \A j \in S : i <= j
Latest(S) == CHOOSE i \in S : \A j \in S : j <= i

\* Variant: MarkdownContent's arm of the switch takes over TextContent too.
MarshalMixed(contents) ==
  [f \in Formats |->
     LET same == {i \in DOMAIN contents :
                    f = IF contents[i].format = "text" THEN "md" ELSE contents[i].format}
     IN  IF same = {} THEN "" ELSE Marshalled(f, contents[Latest(same)].text)]

\* MarshalJSON: of two contents of one format the last one stays.
Marshal(contents) ==
  [f \in Formats |->
     LET same == {i \in DOMAIN contents : contents[i].format = f}
     IN  IF same = {} THEN "" ELSE Marshalled(f, contents[Latest(same)].text)]

\* MarkdownContent, JSONContent, ...: the first content of the format, or "".
ContentOf(contents, f) ==
  LET same == {i \in DOMAIN contents : contents[i].format = f}
  IN  IF same = {} THEN "" ELSE contents[First(same)].text
=============================================================================
