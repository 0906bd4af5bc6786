--------------------------- MODULE Requests_proofs ---------------------------
(***************************************************************************)
(* What docli makes of its flags and of the documents it is sent, for any  *)
(* values of the flags and any documents: the server is asked for what the *)
(* flags say, by a form or by JSON; two conversions with one key make one  *)
(* request; and a document is the same behind its codec and behind that of *)
(* the cache, but for the layout of its JSON.                              *)
(***************************************************************************)
EXTENDS Docli, WellFoundedInduction, TLAPS

----------------------------------------------------------------------------
(* Induction *)

Less == {p \in Nat \X Nat : p[1] < p[2]}

LEMMA LessIsWellFounded == IsWellFoundedOn(Less, Nat)
<1>1. OpToRel(<, Nat) = Less
  BY DEF OpToRel, Less
<1> QED
  BY <1>1, NatLessThanWellFounded

\* A set of natural numbers has a least one.
LEMMA LeastIs ==
  ASSUME NEW S \in SUBSET Nat, S # {}
  PROVE  \E n \in S : \A m \in S : n <= m
<1>1. \E n \in S : \A m \in S : <<m, n>> \notin Less
  BY LessIsWellFounded, WFMin, Zenon
<1>2. PICK n \in S : \A m \in S : <<m, n>> \notin Less
  BY <1>1
<1>3. ASSUME NEW m \in S PROVE n <= m
  <2>1. <<m, n>> \notin Less
    BY <1>2
  <2> QED
    BY <2>1 DEF Less
<1> QED
  BY <1>3

\* What holds of 0 and goes on from each number to the next holds of all numbers up to n.
LEMMA UpTo ==
  ASSUME NEW n \in Nat, NEW S, 0 \in S, \A i \in 1 .. n : i - 1 \in S => i \in S
  PROVE  0 .. n \subseteq S
<1> SUFFICES ASSUME (0 .. n) \ S # {} PROVE FALSE
  OBVIOUS
<1> DEFINE T == (0 .. n) \ S
<1>1. T \in SUBSET Nat /\ T # {}
  OBVIOUS
<1>2. PICK i \in T : \A j \in T : i <= j
  <2> HIDE DEF T
  <2> QED
    BY <1>1, LeastIs
<1>3. i \in 1 .. n /\ i - 1 \in 0 .. n /\ i - 1 \in S
  BY <1>2
<1> QED
  BY <1>2, <1>3

----------------------------------------------------------------------------
(* The structs of options *)

Structs == {ConvertOptions, HybridChunkerOptions, HierarchicalChunkerOptions}

\* No two fields of a struct have one name.
LEMMA FieldIs ==
  ASSUME NEW struct \in Structs, NEW f \in struct
  PROVE  /\ \A g \in struct : g.name = f.name => g = f
         /\ f.kind \in {"slice", "string", "bool", "pointer"}
<1>1. CASE struct = ConvertOptions
  BY <1>1 DEF ConvertOptions, Slices, Strings, Bools, Pointers
<1>2. CASE struct = HierarchicalChunkerOptions
  BY <1>2 DEF HierarchicalChunkerOptions, Pointers
<1>3. CASE struct = HybridChunkerOptions
  BY <1>3 DEF HybridChunkerOptions, HierarchicalChunkerOptions, Strings, Pointers
<1> QED
  BY <1>1, <1>2, <1>3 DEF Structs

LEMMA ZeroValueIs ==
  ASSUME NEW struct \in Structs
  PROVE  /\ DOMAIN ZeroValue(struct) = {f.name : f \in struct}
         /\ \A f \in struct : ZeroValue(struct)[f.name] = Zero(f.kind)
<1>1. DOMAIN ZeroValue(struct) = {f.name : f \in struct}
  BY DEF ZeroValue
<1>2. ASSUME NEW f \in struct PROVE ZeroValue(struct)[f.name] = Zero(f.kind)
  <2>1. ZeroValue(struct)[f.name] = Zero((CHOOSE g \in struct : g.name = f.name).kind)
    BY DEF ZeroValue
  <2>2. (CHOOSE g \in struct : g.name = f.name) = f
    BY FieldIs
  <2> QED
    BY <2>1, <2>2
<1> QED
  BY <1>1, <1>2

Names == {f.name : f \in ConvertOptions}

LEMMA NamesAre ==
  Names = {"from_formats", "to_formats", "image_export_mode", "do_ocr", "force_ocr",
           "ocr_engine", "ocr_lang", "ocr_preset", "pdf_backend", "table_mode", "pipeline",
           "page_range", "abort_on_error", "do_table_structure", "include_images",
           "images_scale", "document_timeout"}
<1> DEFINE slices   == {"from_formats", "to_formats", "ocr_lang", "page_range"}
           strings  == {"image_export_mode", "ocr_engine", "ocr_preset", "pdf_backend",
                        "table_mode", "pipeline"}
           bools    == {"force_ocr", "abort_on_error"}
           pointers == {"do_ocr", "do_table_structure", "include_images", "images_scale",
                        "document_timeout"}
<1>1. ConvertOptions = Slices(slices) \cup Strings(strings) \cup Bools(bools)
                         \cup Pointers(pointers)
  BY DEF ConvertOptions
<1> HIDE DEF slices, strings, bools, pointers
<1>2. ASSUME NEW f \in ConvertOptions
      PROVE  f.name \in slices \cup strings \cup bools \cup pointers
  BY <1>1 DEF Slices, Strings, Bools, Pointers
<1>3. /\ \A n \in slices : [name |-> n, kind |-> "slice"] \in ConvertOptions
      /\ \A n \in strings : [name |-> n, kind |-> "string"] \in ConvertOptions
      /\ \A n \in bools : [name |-> n, kind |-> "bool"] \in ConvertOptions
      /\ \A n \in pointers : [name |-> n, kind |-> "pointer"] \in ConvertOptions
  BY <1>1 DEF Slices, Strings, Bools, Pointers
<1>4. Names \subseteq slices \cup strings \cup bools \cup pointers
  BY <1>2 DEF Names
<1>5. \A n, k : [name |-> n, kind |-> k] \in ConvertOptions => n \in Names
  <2>1. \A f \in ConvertOptions : f.name \in Names
    BY DEF Names
  <2> QED
    BY <2>1
<1>6. slices \cup strings \cup bools \cup pointers \subseteq Names
  BY <1>3, <1>5
<1> QED
  BY <1>4, <1>6 DEF slices, strings, bools, pointers

\* build sets each field from its flag, and leaves the others at their zero.
Built(v, flags) ==
  /\ v.ocr_engine = <<"">> /\ v.ocr_preset = <<"">>
  /\ v.from_formats       = Value(flags, "from", << >>)
  /\ v.do_ocr             = Value(flags, "ocr", <<"true">>)
  /\ v.force_ocr          = Value(flags, "force-ocr", <<"false">>)
  /\ v.table_mode         = Value(flags, "table-mode", <<"">>)
  /\ v.image_export_mode  = Value(flags, "image-export-mode", <<"">>)
  /\ v.pdf_backend        = Value(flags, "pdf-backend", <<"">>)
  /\ v.pipeline           = Value(flags, "pipeline", <<"">>)
  /\ v.ocr_lang           = splitComma(Value(flags, "ocr-lang", << >>))
  /\ v.page_range         = parsePageRange(Value(flags, "pages", << >>))
  /\ v.abort_on_error     = Value(flags, "abort-on-error", <<"false">>)
  /\ v.do_table_structure = Value(flags, "tables", << >>)
  /\ v.include_images     = Value(flags, "include-images", << >>)
  /\ v.document_timeout   = Value(flags, "document-timeout", << >>)
  /\ v.images_scale       = Value(flags, "images-scale", << >>)

LEMMA BuildIs ==
  ASSUME NEW flags, NEW v, v = build(flags)
  PROVE  v = [n \in Names |-> v[n]] /\ v.to_formats = << >> /\ Built(v, flags)
<1> DEFINE zero == ZeroValue(ConvertOptions)
<1>1. zero = [n \in Names |-> zero[n]]
  BY DEF ZeroValue, Names
<1>2. zero.to_formats = << >> /\ zero.ocr_engine = <<"">> /\ zero.ocr_preset = <<"">>
  <2>1. /\ [name |-> "to_formats", kind |-> "slice"] \in ConvertOptions
        /\ [name |-> "ocr_engine", kind |-> "string"] \in ConvertOptions
        /\ [name |-> "ocr_preset", kind |-> "string"] \in ConvertOptions
    BY DEF ConvertOptions, Slices, Strings
  <2>2. \A f \in ConvertOptions : zero[f.name] = Zero(f.kind)
    BY ZeroValueIs DEF Structs
  <2> QED
    BY <2>1, <2>2 DEF Zero
<1> DEFINE half == [zero EXCEPT
     !.from_formats       = Value(flags, "from", << >>),
     !.do_ocr             = Value(flags, "ocr", <<"true">>),
     !.force_ocr          = Value(flags, "force-ocr", <<"false">>),
     !.table_mode         = Value(flags, "table-mode", <<"">>),
     !.image_export_mode  = Value(flags, "image-export-mode", <<"">>),
     !.pdf_backend        = Value(flags, "pdf-backend", <<"">>),
     !.pipeline           = Value(flags, "pipeline", <<"">>)]
<1>3. v = [half EXCEPT
     !.ocr_lang           = splitComma(Value(flags, "ocr-lang", << >>)),
     !.page_range         = parsePageRange(Value(flags, "pages", << >>)),
     !.abort_on_error     = Value(flags, "abort-on-error", <<"false">>),
     !.do_table_structure = Value(flags, "tables", << >>),
     !.include_images     = Value(flags, "include-images", << >>),
     !.document_timeout   = Value(flags, "document-timeout", << >>),
     !.images_scale       = Value(flags, "images-scale", << >>)]
  BY Zenon DEF build
<1> HIDE DEF zero
<1>4. /\ half = [n \in Names |-> half[n]]
      /\ half.to_formats = << >> /\ half.ocr_engine = <<"">> /\ half.ocr_preset = <<"">>
      /\ half.from_formats       = Value(flags, "from", << >>)
      /\ half.do_ocr             = Value(flags, "ocr", <<"true">>)
      /\ half.force_ocr          = Value(flags, "force-ocr", <<"false">>)
      /\ half.table_mode         = Value(flags, "table-mode", <<"">>)
      /\ half.image_export_mode  = Value(flags, "image-export-mode", <<"">>)
      /\ half.pdf_backend        = Value(flags, "pdf-backend", <<"">>)
      /\ half.pipeline           = Value(flags, "pipeline", <<"">>)
  BY <1>1, <1>2, NamesAre, Zenon
<1> HIDE DEF half
<1> QED
  BY <1>3, <1>4, NamesAre, ZenonT(30) DEF Built

----------------------------------------------------------------------------
(* splitComma *)

\* What Rounds and NonEmpty define is there: the first n values follow from each other.
RoundsTo(n, parts, g) ==
  g = [i \in 0 .. n |-> IF i = 0 THEN [parts |-> parts, out |-> 0] ELSE Keep(g[i - 1], i)]

LEMMA RoundsAre ==
  ASSUME NEW parts, Len(parts) \in Nat
  PROVE  RoundsTo(Len(parts), parts, Rounds(parts))
<1> DEFINE S == {n \in Nat : \E g : RoundsTo(n, parts, g)}
<1>1. 0 \in S
  <2> DEFINE g == [i \in 0 .. 0 |-> [parts |-> parts, out |-> 0]]
  <2>1. RoundsTo(0, parts, g)
    BY DEF RoundsTo
  <2> QED
    BY <2>1
<1>2. ASSUME NEW n \in 1 .. Len(parts), n - 1 \in S PROVE n \in S
  <2>1. PICK g : RoundsTo(n - 1, parts, g)
    BY <1>2
  <2> DEFINE h == [i \in 0 .. n |-> IF i = n THEN Keep(g[n - 1], n) ELSE g[i]]
  <2>2. \A i \in 0 .. n - 1 : h[i] = g[i]
    OBVIOUS
  <2>3. ASSUME NEW i \in 0 .. n
        PROVE  h[i] = IF i = 0 THEN [parts |-> parts, out |-> 0] ELSE Keep(h[i - 1], i)
    <3>1. CASE i = n
      BY <2>2, <3>1
    <3>2. CASE i # n
      <4>1. i \in 0 .. n - 1 /\ (i # 0 => i - 1 \in 0 .. n - 1)
        BY <3>2
      <4> QED
        BY <2>1, <2>2, <4>1 DEF RoundsTo
    <3> QED
      BY <3>1, <3>2
  <2>4. RoundsTo(n, parts, h)
    BY <2>3 DEF RoundsTo
  <2> QED
    BY <2>4
<1>3. Len(parts) \in S
  <2> HIDE DEF S
  <2>1. 0 .. Len(parts) \subseteq S
    BY <1>1, <1>2, UpTo
  <2> QED
    BY <2>1
<1>4. Rounds(parts) = CHOOSE g : RoundsTo(Len(parts), parts, g)
  BY Zenon DEF Rounds, RoundsTo
<1> QED
  BY <1>3, <1>4

More(kept, text) == IF text = "" THEN kept ELSE Append(kept, text)

NonEmptyTo(n, texts, g) ==
  g = [i \in 0 .. n |-> IF i = 0 THEN << >> ELSE More(g[i - 1], texts[i])]

LEMMA NonEmptyIs ==
  ASSUME NEW texts, Len(texts) \in Nat
  PROVE  \E g : NonEmptyTo(Len(texts), texts, g) /\ NonEmpty(texts) = g[Len(texts)]
<1> DEFINE S == {n \in Nat : \E g : NonEmptyTo(n, texts, g)}
<1>1. 0 \in S
  <2> DEFINE g == [i \in 0 .. 0 |-> << >>]
  <2>1. NonEmptyTo(0, texts, g)
    BY DEF NonEmptyTo
  <2> QED
    BY <2>1
<1>2. ASSUME NEW n \in 1 .. Len(texts), n - 1 \in S PROVE n \in S
  <2>1. PICK g : NonEmptyTo(n - 1, texts, g)
    BY <1>2
  <2> DEFINE h == [i \in 0 .. n |-> IF i = n THEN More(g[n - 1], texts[n]) ELSE g[i]]
  <2>2. \A i \in 0 .. n - 1 : h[i] = g[i]
    OBVIOUS
  <2>3. ASSUME NEW i \in 0 .. n
        PROVE  h[i] = IF i = 0 THEN << >> ELSE More(h[i - 1], texts[i])
    <3>1. CASE i = n
      BY <2>2, <3>1
    <3>2. CASE i # n
      <4>1. i \in 0 .. n - 1 /\ (i # 0 => i - 1 \in 0 .. n - 1)
        BY <3>2
      <4> QED
        BY <2>1, <2>2, <4>1 DEF NonEmptyTo
    <3> QED
      BY <3>1, <3>2
  <2>4. NonEmptyTo(n, texts, h)
    BY <2>3 DEF NonEmptyTo
  <2> QED
    BY <2>4
<1>3. Len(texts) \in S
  <2> HIDE DEF S
  <2>1. 0 .. Len(texts) \subseteq S
    BY <1>1, <1>2, UpTo
  <2> QED
    BY <2>1
<1> DEFINE f == CHOOSE g : NonEmptyTo(Len(texts), texts, g)
<1>4. NonEmptyTo(Len(texts), texts, f)
  BY <1>3
<1>5. NonEmpty(texts) = f[Len(texts)]
  BY Zenon DEF NonEmpty, NonEmptyTo, More
<1> QED
  BY <1>4, <1>5

\* X is a set of texts that trimming does not lead out of.
LEMMA TrimmedIs ==
  ASSUME NEW X, \A x \in X : TrimSpace(x) \in X, NEW texts \in Seq(X)
  PROVE  /\ Trimmed(texts) \in Seq(X) /\ Len(Trimmed(texts)) = Len(texts)
         /\ \A i \in 1 .. Len(texts) : Trimmed(texts)[i] = TrimSpace(texts[i])
<1>1. Trimmed(texts) = [i \in 1 .. Len(texts) |-> TrimSpace(texts[i])]
  BY DEF Trimmed
<1>2. \A i \in 1 .. Len(texts) : TrimSpace(texts[i]) \in X
  OBVIOUS
<1>3. Trimmed(texts) \in [1 .. Len(texts) -> X]
  BY <1>1, <1>2
<1> QED
  BY <1>1, <1>3

\* After i rounds the front of the array is what is kept of the first i parts, and the
\* rest of it has not been written to.
Compacted(X, s, kept, i, parts) ==
  /\ s.parts \in Seq(X) /\ Len(s.parts) = Len(parts)
  /\ kept \in Seq(X) /\ Len(kept) = s.out /\ s.out \in 0 .. i
  /\ \A j \in 1 .. s.out : s.parts[j] = kept[j]
  /\ \A j \in i + 1 .. Len(parts) : s.parts[j] = parts[j]

LEMMA KeepCompacts ==
  ASSUME NEW X, \A x \in X : TrimSpace(x) \in X, NEW parts \in Seq(X),
         NEW i \in 1 .. Len(parts), NEW s, NEW kept, Compacted(X, s, kept, i - 1, parts)
  PROVE  Compacted(X, Keep(s, i), More(kept, Trimmed(parts)[i]), i, parts)
<1> DEFINE p == TrimSpace(s.parts[i])
<1>1. p = Trimmed(parts)[i] /\ p \in X
  <2>1. i \in (i - 1) + 1 .. Len(parts)
    OBVIOUS
  <2>2. s.parts[i] = parts[i]
    BY <2>1 DEF Compacted
  <2>3. Trimmed(parts)[i] \in X
    BY TrimmedIs
  <2> QED
    BY <2>2, <2>3, TrimmedIs
<1>2. CASE p = ""
  <2>1. Keep(s, i) = s /\ More(kept, Trimmed(parts)[i]) = kept
    BY <1>1, <1>2 DEF Keep, More
  <2>2. Compacted(X, s, kept, i, parts)
    BY DEF Compacted
  <2> QED
    BY <2>1, <2>2
<1>3. CASE p # ""
  <2> DEFINE t == Keep(s, i)
             all == Append(kept, p)
  <2>1. t.parts = [s.parts EXCEPT ![s.out + 1] = p] /\ t.out = s.out + 1
    BY <1>3 DEF Keep
  <2>2. More(kept, Trimmed(parts)[i]) = all
    BY <1>1, <1>3 DEF More
  <2>3. /\ s.parts \in Seq(X) /\ Len(s.parts) = Len(parts) /\ kept \in Seq(X)
        /\ Len(kept) = s.out /\ s.out \in 0 .. i - 1 /\ s.out + 1 \in 1 .. Len(parts)
    BY DEF Compacted
  <2>4. /\ all \in Seq(X) /\ Len(all) = s.out + 1 /\ all[s.out + 1] = p
        /\ \A j \in 1 .. s.out : all[j] = kept[j]
    BY <1>1, <2>3
  <2>5. /\ t.parts \in Seq(X) /\ Len(t.parts) = Len(parts) /\ t.parts[s.out + 1] = p
        /\ \A j \in 1 .. Len(parts) : j # s.out + 1 => t.parts[j] = s.parts[j]
    BY <1>1, <2>1, <2>3
  <2> HIDE DEF p, t, all
  <2>6. \A j \in 1 .. t.out : t.parts[j] = all[j]
    BY <2>1, <2>3, <2>4, <2>5 DEF Compacted
  <2>7. \A j \in i + 1 .. Len(parts) : t.parts[j] = parts[j]
    BY <2>1, <2>3, <2>5 DEF Compacted
  <2>8. Compacted(X, t, all, i, parts)
    BY <2>1, <2>3, <2>4, <2>5, <2>6, <2>7 DEF Compacted
  <2> QED
    BY <2>2, <2>8 DEF t
<1> QED
  BY <1>2, <1>3

\* splitComma trims the parts and drops the empty ones, although it writes to the array
\* it reads.
LEMMA SplitCommaIs ==
  ASSUME NEW X, \A x \in X : TrimSpace(x) \in X, NEW parts \in Seq(X)
  PROVE  /\ splitComma(parts) = NonEmpty(Trimmed(parts))
         /\ splitComma(parts) \in Seq(X)
<1> DEFINE n == Len(parts)
           texts == Trimmed(parts)
           s == Rounds(parts)
<1>1. n \in Nat /\ texts \in Seq(X) /\ Len(texts) = n
  BY TrimmedIs
<1>2. s = [i \in 0 .. n |-> IF i = 0 THEN [parts |-> parts, out |-> 0] ELSE Keep(s[i - 1], i)]
  BY <1>1, RoundsAre DEF RoundsTo
<1>3. PICK k : /\ k = [i \in 0 .. n |-> IF i = 0 THEN << >> ELSE More(k[i - 1], texts[i])]
               /\ NonEmpty(texts) = k[n]
  BY <1>1, NonEmptyIs DEF NonEmptyTo
<1> HIDE DEF n, texts, s
<1>4. s[0] = [parts |-> parts, out |-> 0] /\ k[0] = << >>
  BY <1>1, <1>2, <1>3
<1>5. \A i \in 1 .. n : s[i] = Keep(s[i - 1], i) /\ k[i] = More(k[i - 1], texts[i])
  BY <1>1, <1>2, <1>3
<1> DEFINE S == {i \in 0 .. n : Compacted(X, s[i], k[i], i, parts)}
<1>6. 0 \in S
  <2>1. Compacted(X, [parts |-> parts, out |-> 0], << >>, 0, parts)
    BY <1>1 DEF Compacted, n
  <2> QED
    BY <1>1, <1>4, <2>1
<1>7. \A i \in 1 .. n : i - 1 \in S => i \in S
  BY <1>1, <1>5, KeepCompacts DEF n, texts
<1>8. n \in S
  <2> HIDE DEF S
  <2>1. 0 .. n \subseteq S
    BY <1>1, <1>6, <1>7, UpTo
  <2> QED
    BY <1>1, <2>1
<1>9. SubSeq(s[n].parts, 1, s[n].out) = k[n] /\ k[n] \in Seq(X)
  <2> DEFINE a == s[n].parts
             m == s[n].out
             b == k[n]
             c == SubSeq(a, 1, m)
  <2>1. /\ a \in Seq(X) /\ m \in 0 .. Len(a) /\ b \in Seq(X) /\ Len(b) = m
        /\ \A j \in 1 .. m : a[j] = b[j]
    BY <1>1, <1>8 DEF Compacted, n
  <2> HIDE DEF a, m, b
  <2>2. c \in Seq(X) /\ Len(c) = m /\ \A j \in 1 .. m : c[j] = a[j]
    BY <2>1
  <2>3. c = b
    BY <2>1, <2>2
  <2> QED
    BY <2>1, <2>3 DEF a, m, b
<1>10. splitComma(parts) = SubSeq(s[n].parts, 1, s[n].out)
  BY DEF splitComma, s, n
<1> QED
  BY <1>3, <1>9, <1>10 DEF texts

----------------------------------------------------------------------------
(* The key of a conversion *)

KeyOf(l) == CacheKey(l.input, OptionsOf(l))

\* Equal JSON is of equal options: a field that is left out has the zero value of its
\* kind in both.
LEMMA EncodingTellsApart ==
  ASSUME NEW struct, NEW v, NEW w, NEW group,
         encodeJSON(struct, v, group) = encodeJSON(struct, w, group)
  PROVE  \A f \in struct : v[f.name] = w[f.name]
<1> SUFFICES ASSUME NEW f \in struct PROVE v[f.name] = w[f.name]
  OBVIOUS
<1> DEFINE Setting(x, g) == [group |-> group, name |-> g.name, value |-> x[g.name]]
<1>1. \A x : encodeJSON(struct, x, group) =
               {Setting(x, g) : g \in {g \in struct : x[g.name] # Zero(g.kind)}}
  BY DEF encodeJSON
<1>2. ASSUME NEW x, NEW y, encodeJSON(struct, x, group) = encodeJSON(struct, y, group),
             x[f.name] # Zero(f.kind)
      PROVE  x[f.name] = y[f.name]
  <2>1. Setting(x, f) \in encodeJSON(struct, x, group)
    BY <1>1, <1>2
  <2>2. PICK g \in struct : Setting(x, f) = Setting(y, g)
    BY <1>1, <1>2, <2>1
  <2>3. f.name = g.name /\ x[f.name] = y[g.name]
    BY <2>2
  <2> QED
    BY <2>3
<1>3. CASE v[f.name] # Zero(f.kind)
  BY <1>2, <1>3
<1>4. CASE w[f.name] # Zero(f.kind)
  BY <1>2, <1>4
<1> QED
  BY <1>3, <1>4

LEMMA ToFormatsIs ==
  \E f \in ConvertOptions : f.name = "to_formats" /\ f.kind = "slice"
<1>1. [name |-> "to_formats", kind |-> "slice"] \in ConvertOptions
  BY DEF ConvertOptions, Slices
<1> QED
  BY <1>1

\* The options of a conversion are those build makes, and name a format.
LEMMA OptionsAre ==
  ASSUME NEW l, l.cmd = "convert", ~Rejected(l)
  PROVE  /\ OptionsOf(l) = [n \in Names |-> OptionsOf(l)[n]]
         /\ OptionsOf(l).to_formats = parseOutputFormats(Value(l.flags, "to", <<"md">>))
         /\ OptionsOf(l).to_formats # << >>
         /\ \A n \in Names \ {"to_formats"} : OptionsOf(l)[n] = build(l.flags)[n]
<1> DEFINE b  == build(l.flags)
           to == parseOutputFormats(Value(l.flags, "to", <<"md">>))
<1>1. OptionsOf(l) = [b EXCEPT !.to_formats = to] /\ to # << >>
  BY DEF OptionsOf, Rejected, convertOptions
<1>2. b = [n \in Names |-> b[n]]
  BY BuildIs, Zenon
<1>3. "to_formats" \in Names
  BY ToFormatsIs DEF Names
<1> HIDE DEF b, to
<1>4. /\ OptionsOf(l) = [n \in Names |-> OptionsOf(l)[n]]
      /\ OptionsOf(l)["to_formats"] = to
      /\ \A n \in Names \ {"to_formats"} : OptionsOf(l)[n] = b[n]
  BY <1>1, <1>2, <1>3
<1> QED
  BY <1>1, <1>4 DEF b, to

\* Two conversions with one key make the same request, form or JSON, if JSON has a value
\* for the options of one of them (CacheKey, cache.go:28-41).
THEOREM KeyTellsApart ==
  ASSUME NEW l, l.cmd = "convert", ~Rejected(l), NEW m, m.cmd = "convert", ~Rejected(m),
         KeyOf(m) = KeyOf(l), Encodable(OptionsOf(l))
  PROVE  Asked(m) = Asked(l)
<1> DEFINE v == OptionsOf(l)
           w == OptionsOf(m)
           Json(x) == encodeJSON(ConvertOptions, x, "options")
<1>1. KeyOf(l) = [input |-> l.input, options |-> Json(v)]
  BY DEF KeyOf, CacheKey
<1>2. Encodable(w)
  <2> SUFFICES ASSUME ~Encodable(w) PROVE FALSE
    OBVIOUS
  <2>1. KeyOf(m) = [input |-> "", options |-> {}]
    BY DEF KeyOf, CacheKey
  <2>2. Json(v) = {}
    <3>1. \A i, o, j, p : [input |-> i, options |-> o] = [input |-> j, options |-> p] => o = p
      OBVIOUS
    <3> HIDE DEF Json
    <3> QED
      BY <1>1, <2>1, <3>1, Zenon
  <2>3. PICK f \in ConvertOptions : f.name = "to_formats" /\ f.kind = "slice"
    BY ToFormatsIs
  <2>4. v[f.name] # Zero(f.kind)
    BY <2>3, OptionsAre DEF Zero
  <2>5. [group |-> "options", name |-> f.name, value |-> v[f.name]] \in Json(v)
    BY <2>4, Zenon DEF encodeJSON
  <2> QED
    BY <2>2, <2>5
<1>3. KeyOf(m) = [input |-> m.input, options |-> Json(w)]
  BY <1>2 DEF KeyOf, CacheKey
<1>4. m.input = l.input /\ Json(w) = Json(v)
  BY <1>1, <1>3
<1>5. \A f \in ConvertOptions : w[f.name] = v[f.name]
  BY <1>4, EncodingTellsApart
<1>6. \A n \in Names : w[n] = v[n]
  BY <1>5 DEF Names
<1>7. w = v
  BY <1>6, OptionsAre
<1> QED
  BY <1>4, <1>7, Zenon DEF Asked

----------------------------------------------------------------------------
(* Documents *)

\* A set of numbers with a bound has a greatest one.
LEMMA GreatestIs ==
  ASSUME NEW n \in Nat, NEW S \in SUBSET (0 .. n), S # {}
  PROVE  \E i \in S : \A j \in S : j <= i
<1> DEFINE T == {n - i : i \in S}
<1>1. T \in SUBSET Nat /\ T # {}
  <2>1. \A i \in S : i \in 0 .. n /\ n - i \in Nat
    OBVIOUS
  <2> QED
    BY <2>1
<1>2. PICK k \in T : \A m \in T : k <= m
  <2> HIDE DEF T
  <2> QED
    BY <1>1, LeastIs
<1>3. PICK i \in S : k = n - i
  OBVIOUS
<1>4. ASSUME NEW j \in S PROVE j <= i
  <2>1. n - j \in T
    OBVIOUS
  <2>2. n - i <= n - j
    BY <1>2, <1>3, <2>1
  <2> QED
    BY <2>2
<1> QED
  BY <1>4

\* The contents are those of the fields in F that are not blank.
Read(contents, wire, F) ==
  /\ contents \in Seq(Contents)
  /\ \A i \in 1 .. Len(contents) :
       LET f == contents[i].format
       IN  f \in F /\ contents[i].text = wire[f] /\ ~Blank(f, wire[f])
  /\ \A f \in F : ~Blank(f, wire[f]) => \E i \in 1 .. Len(contents) : contents[i].format = f

LEMMA ReadOn ==
  ASSUME NEW wire, NEW F, NEW G, NEW s, NEW t, Read(s, wire, F), Read(t, wire, G)
  PROVE  Read(s \o t, wire, F \cup G)
<1>1. /\ s \in Seq(Contents) /\ t \in Seq(Contents) /\ s \o t \in Seq(Contents)
      /\ Len(s \o t) = Len(s) + Len(t) /\ Len(s) \in Nat /\ Len(t) \in Nat
      /\ \A i \in 1 .. Len(s) : (s \o t)[i] = s[i]
      /\ \A i \in 1 .. Len(t) : (s \o t)[Len(s) + i] = t[i]
  BY DEF Read
<1> DEFINE u == s \o t
<1>2. ASSUME NEW i \in 1 .. Len(u)
      PROVE  \/ i \in 1 .. Len(s) /\ u[i] = s[i]
             \/ i - Len(s) \in 1 .. Len(t) /\ u[i] = t[i - Len(s)]
  <2>1. CASE i <= Len(s)
    BY <1>1, <2>1
  <2>2. CASE i > Len(s)
    <3>1. i - Len(s) \in 1 .. Len(t) /\ Len(s) + (i - Len(s)) = i
      BY <1>1, <2>2
    <3>2. u[Len(s) + (i - Len(s))] = t[i - Len(s)]
      BY <1>1, <3>1
    <3> QED
      BY <3>1, <3>2
  <2> QED
    BY <1>1, <2>1, <2>2
<1> HIDE DEF u
<1>3. ASSUME NEW i \in 1 .. Len(u)
      PROVE  LET f == u[i].format
             IN  f \in F \cup G /\ u[i].text = wire[f] /\ ~Blank(f, wire[f])
  <2>1. CASE i \in 1 .. Len(s) /\ u[i] = s[i]
    BY <2>1 DEF Read
  <2>2. CASE i - Len(s) \in 1 .. Len(t) /\ u[i] = t[i - Len(s)]
    <3>1. \A j \in 1 .. Len(t) :
            LET f == t[j].format IN f \in G /\ t[j].text = wire[f] /\ ~Blank(f, wire[f])
      BY DEF Read
    <3> QED
      BY <2>2, <3>1
  <2> QED
    BY <1>2, <2>1, <2>2
<1>4. ASSUME NEW f \in F \cup G, ~Blank(f, wire[f])
      PROVE  \E i \in 1 .. Len(u) : u[i].format = f
  <2>1. CASE f \in F
    <3>1. PICK i \in 1 .. Len(s) : s[i].format = f
      BY <1>4, <2>1 DEF Read
    <3>2. i \in 1 .. Len(u) /\ u[i] = s[i]
      BY <1>1 DEF u
    <3> QED
      BY <3>1, <3>2
  <2>2. CASE f \in G
    <3>1. PICK i \in 1 .. Len(t) : t[i].format = f
      BY <1>4, <2>2 DEF Read
    <3>2. Len(s) + i \in 1 .. Len(u) /\ u[Len(s) + i] = t[i]
      BY <1>1 DEF u
    <3> QED
      BY <3>1, <3>2
  <2> QED
    BY <2>1, <2>2
<1> QED
  BY <1>1, <1>3, <1>4 DEF Read, u

LEMMA UnmarshalReads == ASSUME NEW wire \in Wire PROVE Read(Unmarshal(wire), wire, Formats)
<1> DEFINE Part(f) == IF Blank(f, wire[f]) THEN << >>
                      ELSE <<[format |-> f, text |-> wire[f]]>>
<1>1. ASSUME NEW f \in Formats PROVE Read(Part(f), wire, {f})
  <2>1. CASE Blank(f, wire[f])
    <3>1. Part(f) = << >>
      BY <2>1
    <3> HIDE DEF Part
    <3> QED
      BY <2>1, <3>1 DEF Read
  <2>2. CASE ~Blank(f, wire[f])
    <3> DEFINE c == [format |-> f, text |-> wire[f]]
    <3>1. c \in Contents /\ c.format = f /\ c.text = wire[f]
      BY DEF Contents, Wire
    <3>2. Part(f) = <<c>>
      BY <2>2
    <3> HIDE DEF c, Part
    <3> QED
      BY <2>2, <3>1, <3>2 DEF Read
  <2> QED
    BY <2>1, <2>2
<1>2. /\ "md" \in Formats /\ "json" \in Formats /\ "html" \in Formats /\ "text" \in Formats
      /\ "doctags" \in Formats
      /\ {"md"} \cup {"json"} \cup {"html"} \cup {"text"} \cup {"doctags"} = Formats
  BY DEF Formats
<1>3. Unmarshal(wire) = Part("md") \o Part("json") \o Part("html") \o Part("text")
                          \o Part("doctags")
  BY DEF Unmarshal
<1> HIDE DEF Part
<1>4. Read(Part("md") \o Part("json"), wire, {"md"} \cup {"json"})
  BY <1>1, <1>2, ReadOn
<1>5. Read(Part("md") \o Part("json") \o Part("html"), wire, {"md"} \cup {"json"} \cup {"html"})
  BY <1>1, <1>2, <1>4, ReadOn
<1>6. Read(Part("md") \o Part("json") \o Part("html") \o Part("text"), wire,
           {"md"} \cup {"json"} \cup {"html"} \cup {"text"})
  BY <1>1, <1>2, <1>5, ReadOn
<1>7. Read(Part("md") \o Part("json") \o Part("html") \o Part("text") \o Part("doctags"), wire,
           {"md"} \cup {"json"} \cup {"html"} \cup {"text"} \cup {"doctags"})
  BY <1>1, <1>2, <1>6, ReadOn
<1> QED
  BY <1>2, <1>3, <1>7

\* The accessors find what was read, and MarshalJSON writes it again.
LEMMA ReadIs ==
  ASSUME NEW wire \in Wire, NEW s, Read(s, wire, Formats), NEW f \in Formats
  PROVE  /\ ContentOf(s, f) = IF Blank(f, wire[f]) THEN "" ELSE wire[f]
         /\ Marshal(s)[f] = IF Blank(f, wire[f]) THEN "" ELSE Marshalled(f, wire[f])
<1> DEFINE same == {i \in DOMAIN s : s[i].format = f}
<1>1. same \in SUBSET (0 .. Len(s)) /\ Len(s) \in Nat /\ DOMAIN s = 1 .. Len(s)
  BY DEF Read
<1>2. same = {} <=> Blank(f, wire[f])
  BY <1>1 DEF Read
<1>3. ASSUME NEW i \in same PROVE s[i].text = wire[f]
  BY <1>1 DEF Read
<1>4. /\ ContentOf(s, f) = IF same = {} THEN "" ELSE s[First(same)].text
      /\ Marshal(s)[f] = IF same = {} THEN "" ELSE Marshalled(f, s[Latest(same)].text)
  BY DEF ContentOf, Marshal
<1> HIDE DEF same
<1>5. ASSUME same # {} PROVE First(same) \in same /\ Latest(same) \in same
  <2>1. \E i \in same : \A j \in same : i <= j
    BY <1>1, <1>5, LeastIs
  <2>2. \E i \in same : \A j \in same : j <= i
    BY <1>1, <1>5, GreatestIs
  <2> QED
    BY <2>1, <2>2 DEF First, Latest
<1> QED
  BY <1>2, <1>3, <1>4, <1>5

\* A document that has been through the cache is the one the server sent, but for the
\* layout of its JSON: nothing is lost, mixed up or made up (types.go:394-493).
THEOREM DocumentsAreKept ==
  ASSUME NEW wire \in Wire
  PROVE  /\ Unmarshal(wire) \in Seq(Contents) /\ Marshal(Unmarshal(wire)) \in Wire
         /\ \A f \in Formats :
              /\ ContentOf(Unmarshal(wire), f) = IF Blank(f, wire[f]) THEN "" ELSE wire[f]
              /\ ContentOf(Unmarshal(Marshal(Unmarshal(wire))), f) =
                   IF Blank(f, wire[f]) THEN "" ELSE Marshalled(f, wire[f])
<1> DEFINE s == Unmarshal(wire)
           again == Marshal(s)
<1>1. Read(s, wire, Formats)
  BY UnmarshalReads
<1>2. s \in Seq(Contents)
  BY <1>1 DEF Read
<1> HIDE DEF s
<1>3. \A f \in Formats : again[f] = IF Blank(f, wire[f]) THEN "" ELSE Marshalled(f, wire[f])
  BY <1>1, ReadIs
<1>4. again = [f \in Formats |-> again[f]]
  BY DEF Marshal
<1>5. \A f \in Formats : ~Blank(f, wire[f]) => /\ Marshalled(f, wire[f]) \in Texts
                                               /\ ~Blank(f, Marshalled(f, wire[f]))
  BY DEF Wire, Marshalled, Blank, Compact, Texts
<1> HIDE DEF again
<1>6. again \in Wire
  <2>1. \A f \in Formats : again[f] \in Texts
    BY <1>3, <1>5 DEF Texts
  <2> QED
    BY <1>4, <2>1 DEF Wire
<1>7. Read(Unmarshal(again), again, Formats)
  BY <1>6, UnmarshalReads
<1>8. ASSUME NEW f \in Formats
      PROVE  /\ ContentOf(s, f) = IF Blank(f, wire[f]) THEN "" ELSE wire[f]
             /\ ContentOf(Unmarshal(again), f) =
                  IF Blank(f, wire[f]) THEN "" ELSE Marshalled(f, wire[f])
  <2>1. ContentOf(s, f) = IF Blank(f, wire[f]) THEN "" ELSE wire[f]
    BY <1>1, ReadIs
  <2>2. ContentOf(Unmarshal(again), f) = IF Blank(f, again[f]) THEN "" ELSE again[f]
    BY <1>6, <1>7, ReadIs
  <2>3. Blank(f, "")
    BY DEF Blank
  <2> QED
    BY <1>3, <1>5, <2>1, <2>2, <2>3
<1> QED
  BY <1>2, <1>6, <1>8 DEF s, again

----------------------------------------------------------------------------
(* What a request asks for *)

IsSequence(s) == Len(s) \in Nat /\ s = [i \in 1 .. Len(s) |-> s[i]]

LEMMA OneItem ==
  ASSUME NEW x
  PROVE  IsSequence(<<x>>) /\ Len(<<x>>) = 1 /\ <<x>> # << >> /\ <<x>>[1] = x
BY DEF IsSequence

LEMMA LengthIs ==
  ASSUME NEW n \in Nat, NEW s, s = [i \in 1 .. n |-> s[i]]
  PROVE  IsSequence(s) /\ Len(s) = n
<1>1. Len(s) = n
  OBVIOUS
<1> QED
  BY <1>1 DEF IsSequence

\* Values of the fields of a struct: sequences, and of one text if they have a text.
IsValueOf(struct, v) ==
  \A f \in struct : /\ IsSequence(v[f.name])
                    /\ f.kind \in {"string", "bool"} => v[f.name] # << >>

\* The fields of the form with one prefix are those of one struct.
Carries(form, struct, v, prefix) ==
  {p \in form : p.prefix = prefix} = encodeFormFields(struct, v, prefix)

Field(prefix, f, v, i) == [prefix |-> prefix, name |-> f.name, nth |-> i, value |-> v[f.name][i]]

LEMMA FieldsAre ==
  ASSUME NEW struct, NEW v, NEW prefix
  PROVE  /\ \A p \in encodeFormFields(struct, v, prefix) :
              \E f \in struct : /\ v[f.name] # Zero(f.kind)
                                /\ \E i \in DOMAIN v[f.name] : p = Field(prefix, f, v, i)
         /\ \A f \in struct : v[f.name] # Zero(f.kind) =>
              \A i \in DOMAIN v[f.name] :
                Field(prefix, f, v, i) \in encodeFormFields(struct, v, prefix)
<1> DEFINE Of(f) == {[prefix |-> prefix, name |-> f.name, nth |-> i, value |-> v[f.name][i]] :
                       i \in DOMAIN v[f.name]}
           some == {f \in struct : v[f.name] # Zero(f.kind)}
<1>1. encodeFormFields(struct, v, prefix) = UNION {Of(f) : f \in some}
  BY DEF encodeFormFields, isEmptyValue
<1>2. \A f : Of(f) = {Field(prefix, f, v, i) : i \in DOMAIN v[f.name]}
  BY DEF Field
<1> HIDE DEF Of
<1>3. ASSUME NEW p \in encodeFormFields(struct, v, prefix)
      PROVE  \E f \in struct : /\ v[f.name] # Zero(f.kind)
                               /\ \E i \in DOMAIN v[f.name] : p = Field(prefix, f, v, i)
  <2>1. PICK f \in some : p \in Of(f)
    BY <1>1
  <2> QED
    BY <1>2, <2>1
<1>4. ASSUME NEW f \in struct, v[f.name] # Zero(f.kind), NEW i \in DOMAIN v[f.name]
      PROVE  Field(prefix, f, v, i) \in encodeFormFields(struct, v, prefix)
  <2>1. Field(prefix, f, v, i) \in Of(f) /\ f \in some
    BY <1>2, <1>4
  <2> QED
    BY <1>1, <2>1
<1> QED
  BY <1>3, <1>4

\* The fields of one name are the elements of its value, however the form is mixed.
LEMMA ValuesAre ==
  ASSUME NEW struct \in Structs, NEW v, NEW prefix, NEW form, Carries(form, struct, v, prefix),
         NEW f \in struct, IsSequence(v[f.name]), v[f.name] # Zero(f.kind),
         NEW j \in DOMAIN v[f.name]
  PROVE  Values(form, Field(prefix, f, v, j)) = v[f.name]
<1> DEFINE p == Field(prefix, f, v, j)
           same == {q \in form : q.prefix = p.prefix /\ q.name = p.name}
           x == v[f.name]
<1>1. p.prefix = prefix /\ p.name = f.name
  BY DEF Field
<1>2. ASSUME NEW q \in same PROVE \E i \in DOMAIN x : q = Field(prefix, f, v, i)
  <2>1. q \in encodeFormFields(struct, v, prefix)
    BY <1>1 DEF Carries
  <2>2. PICK g \in struct : \E i \in DOMAIN v[g.name] : q = Field(prefix, g, v, i)
    BY <2>1, FieldsAre
  <2>3. g = f
    <3>1. q.name = g.name
      BY <2>2 DEF Field
    <3> QED
      BY <1>1, <3>1, FieldIs
  <2> QED
    BY <2>2, <2>3
<1>3. ASSUME NEW i \in DOMAIN x PROVE Field(prefix, f, v, i) \in same
  <2>1. Field(prefix, f, v, i) \in encodeFormFields(struct, v, prefix)
    BY FieldsAre
  <2>2. Field(prefix, f, v, i).prefix = prefix /\ Field(prefix, f, v, i).name = f.name
    BY DEF Field
  <2> QED
    BY <1>1, <2>1, <2>2 DEF Carries
<1>4. \A i : Field(prefix, f, v, i).nth = i /\ Field(prefix, f, v, i).value = x[i]
  BY DEF Field
<1>5. Values(form, p) = [i \in {q.nth : q \in same} |-> (CHOOSE q \in same : q.nth = i).value]
  BY DEF Values
<1> HIDE DEF p, same, x
<1>6. {q.nth : q \in same} = DOMAIN x
  <2>1. \A q \in same : q.nth \in DOMAIN x
    BY <1>2, <1>4
  <2>2. \A i \in DOMAIN x : \E q \in same : q.nth = i
    BY <1>3, <1>4
  <2> QED
    BY <2>1, <2>2
<1>7. ASSUME NEW i \in DOMAIN x PROVE (CHOOSE q \in same : q.nth = i).value = x[i]
  <2>1. \E q \in same : q.nth = i
    BY <1>3, <1>4
  <2>2. /\ (CHOOSE q \in same : q.nth = i) \in same
        /\ (CHOOSE q \in same : q.nth = i).nth = i
    BY <2>1
  <2> QED
    BY <1>2, <1>4, <2>2
<1>8. x = [i \in DOMAIN x |-> x[i]]
  BY DEF IsSequence, x
<1>9. Values(form, p) = [i \in DOMAIN x |-> x[i]]
  BY <1>5, <1>6, <1>7
<1> QED
  BY <1>8, <1>9 DEF p, x

\* A form asks for what JSON would ask for.
LEMMA FormIsJSON ==
  ASSUME NEW struct \in Structs, NEW v, NEW prefix, NEW form, NEW group,
         Carries(form, struct, v, prefix), IsValueOf(struct, v)
  PROVE  {[group |-> group, name |-> p.name, value |-> Values(form, p)] :
            p \in encodeFormFields(struct, v, prefix)} = encodeJSON(struct, v, group)
<1> DEFINE E == encodeFormFields(struct, v, prefix)
           Setting(f) == [group |-> group, name |-> f.name, value |-> v[f.name]]
           Sent(p) == [group |-> group, name |-> p.name, value |-> Values(form, p)]
           some == {f \in struct : v[f.name] # Zero(f.kind)}
<1>1. encodeJSON(struct, v, group) = {Setting(f) : f \in some}
  BY DEF encodeJSON
<1>2. ASSUME NEW f \in some, NEW i \in DOMAIN v[f.name]
      PROVE  Sent(Field(prefix, f, v, i)) = Setting(f)
  <2>1. Values(form, Field(prefix, f, v, i)) = v[f.name]
    BY ValuesAre DEF IsValueOf
  <2>2. Field(prefix, f, v, i).name = f.name
    BY DEF Field
  <2> QED
    BY <2>1, <2>2
<1>3. ASSUME NEW p \in E
      PROVE  \E f \in some : \E i \in DOMAIN v[f.name] : p = Field(prefix, f, v, i)
  BY FieldsAre
<1>4. ASSUME NEW f \in some
      PROVE  \E i \in DOMAIN v[f.name] : Field(prefix, f, v, i) \in E
  <2>1. v[f.name] # << >> /\ IsSequence(v[f.name])
    BY FieldIs DEF IsValueOf, Zero
  <2>2. 1 \in DOMAIN v[f.name]
    BY <2>1 DEF IsSequence
  <2> QED
    BY <2>2, FieldsAre
<1> HIDE DEF E, Setting, Sent, some
<1>5. {Sent(p) : p \in E} = {Setting(f) : f \in some}
  BY <1>2, <1>3, <1>4
<1> QED
  BY <1>1, <1>5 DEF E, Sent

LEMMA PrefixIs ==
  ASSUME NEW struct, NEW v, NEW prefix, NEW p \in encodeFormFields(struct, v, prefix)
  PROVE  p.prefix = prefix
<1>1. \E f, i : p = Field(prefix, f, v, i)
  BY FieldsAre
<1> QED
  BY <1>1 DEF Field

\* A conversion asks for its options, of a URL and of a file.
LEMMA ConvertAsks ==
  ASSUME NEW input, NEW v, IsValueOf(ConvertOptions, v)
  PROVE  Settings(ConvertRequest(input, v)) = encodeJSON(ConvertOptions, v, "convert")
<1> DEFINE json == encodeJSON(ConvertOptions, v, "convert")
           form == encodeFormFields(ConvertOptions, v, "")
           r == ConvertRequest(input, v)
<1>0. ConvertOptions \in Structs
  BY DEF Structs
<1>1. CASE isURL(input)
  <2>1. r.json = json /\ r.form = {}
    BY <1>1 DEF ConvertRequest, Request
  <2> HIDE DEF json, r
  <2>2. Settings(r) = json
    BY <2>1 DEF Settings
  <2> QED
    BY <2>2 DEF json, r
<1>2. CASE ~isURL(input)
  <2>1. r.json = {} /\ r.form = form /\ r.path = <<"convert", "file">>
    BY <1>2 DEF ConvertRequest, Request
  <2>2. \A p \in form : p.prefix = ""
    BY PrefixIs
  <2>3. Carries(form, ConvertOptions, v, "")
    <3>1. {p \in form : p.prefix = ""} = form
      BY <2>2
    <3> QED
      BY <3>1, Zenon DEF Carries
  <2> HIDE DEF r, form
  <2>4. r.path[1] = "convert"
    BY <2>1
  <2>5. GroupOf(r.path, "") = "convert"
    BY <2>4 DEF GroupOf
  <2>6. {[group |-> "convert", name |-> p.name, value |-> Values(form, p)] : p \in form} = json
    <3>1. ASSUME NEW none, Carries(form, ConvertOptions, v, none), NEW all,
                 all = encodeFormFields(ConvertOptions, v, none)
          PROVE  {[group |-> "convert", name |-> p.name, value |-> Values(form, p)] : p \in all}
                   = json
      BY <1>0, <3>1, FormIsJSON
    <3> QED
      BY <2>3, <3>1, Zenon DEF form
  <2> HIDE DEF json
  <2>7. Settings(r) = {[group |-> GroupOf(r.path, p.prefix), name |-> p.name,
                        value |-> Values(form, p)] : p \in form}
    BY <2>1 DEF Settings
  <2>8. \A p \in form : GroupOf(r.path, p.prefix) = "convert"
    BY <2>2, <2>5
  <2>9. Settings(r) = json
    BY <2>6, <2>7, <2>8
  <2> QED
    BY <2>9 DEF r, json
<1> QED
  BY <1>1, <1>2

\* A chunking asks for its options and those of the chunker.
LEMMA ChunkAsks ==
  ASSUME NEW chunker, NEW input, NEW v, NEW w,
         IsValueOf(ConvertOptions, v), IsValueOf(ChunkerStruct(chunker), w)
  PROVE  Settings(ChunkRequest(chunker, input, v, w)) =
           encodeJSON(ConvertOptions, v, "convert")
             \cup encodeJSON(ChunkerStruct(chunker), w, "chunking")
<1> DEFINE struct == ChunkerStruct(chunker)
           json  == encodeJSON(ConvertOptions, v, "convert")
           json2 == encodeJSON(struct, w, "chunking")
           form  == encodeFormFields(ConvertOptions, v, "convert_")
           form2 == encodeFormFields(struct, w, "chunking_")
           both  == form \cup form2
           r == ChunkRequest(chunker, input, v, w)
<1>1. struct \in Structs /\ ConvertOptions \in Structs
  BY DEF Structs, ChunkerStruct
<1> HIDE DEF struct
<1>2. CASE isURL(input)
  <2>1. r.json = json \cup json2 /\ r.form = {}
    BY <1>2 DEF ChunkRequest, Request, struct
  <2> HIDE DEF json, json2, r
  <2>2. Settings(r) = json \cup json2
    BY <2>1 DEF Settings
  <2> QED
    BY <2>2 DEF r, json, json2, struct
<1>3. CASE ~isURL(input)
  <2>1. r.json = {} /\ r.form = both /\ r.path = <<"chunk", chunker, "file">>
    BY <1>3 DEF ChunkRequest, Request, struct
  <2>2. \A p \in form : p.prefix = "convert_"
    BY PrefixIs
  <2>3. \A p \in form2 : p.prefix = "chunking_"
    BY PrefixIs
  <2> HIDE DEF form, form2, r
  <2>4. {p \in both : p.prefix = "convert_"} = form /\ {p \in both : p.prefix = "chunking_"} = form2
    BY <2>2, <2>3
  <2>5. Carries(both, ConvertOptions, v, "convert_") /\ Carries(both, struct, w, "chunking_")
    BY <2>4, Zenon DEF Carries, form, form2
  <2>6. GroupOf(r.path, "convert_") = "convert" /\ GroupOf(r.path, "chunking_") = "chunking"
    <3>1. r.path[1] = "chunk"
      BY <2>1
    <3> QED
      BY <3>1 DEF GroupOf
  <2> HIDE DEF both
  <2>7. {[group |-> "convert", name |-> p.name, value |-> Values(both, p)] : p \in form} = json
    BY <1>1, <2>5, FormIsJSON DEF form
  <2>8. {[group |-> "chunking", name |-> p.name, value |-> Values(both, p)] : p \in form2} = json2
    <3>1. IsValueOf(struct, w)
      BY DEF struct
    <3> QED
      BY <1>1, <2>5, <3>1, FormIsJSON DEF form2
  <2> HIDE DEF json, json2
  <2>9. \A p \in form : GroupOf(r.path, p.prefix) = "convert"
    BY <2>2, <2>6
  <2>10. \A p \in form2 : GroupOf(r.path, p.prefix) = "chunking"
    BY <2>3, <2>6
  <2> DEFINE Sent(p) == [group |-> GroupOf(r.path, p.prefix), name |-> p.name,
                         value |-> Values(both, p)]
  <2>11. Settings(r) = {Sent(p) : p \in both}
    BY <2>1 DEF Settings
  <2>12. {Sent(p) : p \in form} = json
    BY <2>7, <2>9
  <2>13. {Sent(p) : p \in form2} = json2
    BY <2>8, <2>10
  <2> HIDE DEF Sent
  <2>14. Settings(r) = json \cup json2
    BY <2>11, <2>12, <2>13 DEF both
  <2> QED
    BY <2>14 DEF r, json, json2, struct
<1> QED
  BY <1>2, <1>3

----------------------------------------------------------------------------
(* What the flags mean *)

\* A field is sent if and only if its flag asks for something, and then says that.
Agrees(x, kind, meaning) ==
  /\ x # Zero(kind) <=> meaning # << >>
  /\ meaning # << >> => x = meaning

LEMMA FlagIs ==
  ASSUME NEW flags, WellFormed(flags), NEW flag, Changed(flags, flag)
  PROVE  /\ flags[flag] \in Seq(STRING) /\ IsSequence(flags[flag])
         /\ flag \in Scalars => Len(flags[flag]) = 1 /\ flags[flag] # << >>
<1>1. flags[flag] \in Seq(STRING) /\ (flag \in Scalars => Len(flags[flag]) = 1)
  BY DEF WellFormed, Changed
<1>2. ASSUME NEW x \in Seq(STRING) PROVE IsSequence(x)
  BY DEF IsSequence
<1> QED
  BY <1>1, <1>2

\* What build takes for the value of a flag: true of an --ocr that is not given.
Taken(l, flag) ==
  IF flag = "ocr" /\ ~Changed(l.flags, "ocr") THEN <<"true">> ELSE Given(l, flag)

LEMMA TakenAsGiven ==
  ASSUME NEW l, NEW flag, flag # "ocr"
  PROVE  Taken(l, flag) = Given(l, flag)
BY DEF Taken

\* A text, of which "" asks for nothing.
LEMMA TextAgrees ==
  ASSUME NEW l, WellFormed(l.flags), NEW flag \in TextFlags,
         NEW x, x = Value(l.flags, flag, <<"">>)
  PROVE  /\ IsSequence(x) /\ x # << >>
         /\ Agrees(x, "string", Meaning(flag, Taken(l, flag)))
<1>1. flag \notin {"ocr-lang", "to", "pages", "force-ocr", "abort-on-error", "ocr"}
      /\ flag \in Scalars
  BY DEF TextFlags, Scalars
<1>2. \A value : Meaning(flag, value) = IF value = <<"">> THEN << >> ELSE value
  BY <1>1 DEF Meaning
<1>3. Taken(l, flag) = IF Changed(l.flags, flag) THEN l.flags[flag] ELSE << >>
  BY <1>1 DEF Taken, Given
<1>4. IsSequence(x) /\ x # << >>
  <2>1. IsSequence(<<"">>) /\ <<"">> # << >>
    BY OneItem
  <2> QED
    BY <1>1, <2>1, FlagIs DEF Value
<1>5. <<"">> # << >>
  BY OneItem
<1>6. Meaning(flag, << >>) = << >>
  BY <1>2, <1>5
<1> QED
  BY <1>2, <1>3, <1>4, <1>6 DEF Agrees, Zero, Value

\* A toggle that is off by default, and asks for nothing when it is set to false.
LEMMA ToggleAgrees ==
  ASSUME NEW l, WellFormed(l.flags), NEW flag \in {"force-ocr", "abort-on-error"},
         NEW x, x = Value(l.flags, flag, <<"false">>)
  PROVE  /\ IsSequence(x) /\ x # << >>
         /\ Agrees(x, "bool", Meaning(flag, Taken(l, flag)))
<1>1. flag \notin {"ocr-lang", "to", "pages", "ocr"} \cup TextFlags /\ flag \in Scalars
  BY DEF TextFlags, Scalars
<1>2. \A value : Meaning(flag, value) = IF value = <<"false">> THEN << >> ELSE value
  BY <1>1 DEF Meaning
<1>3. Taken(l, flag) = IF Changed(l.flags, flag) THEN l.flags[flag] ELSE << >>
  BY <1>1 DEF Taken, Given
<1>4. IsSequence(x) /\ x # << >>
  <2>1. IsSequence(<<"false">>) /\ <<"false">> # << >>
    BY OneItem
  <2> QED
    BY <1>1, <2>1, FlagIs DEF Value
<1>5. <<"false">> # << >>
  BY OneItem
<1>6. Meaning(flag, << >>) = << >>
  BY <1>2, <1>5
<1> QED
  BY <1>2, <1>3, <1>4, <1>6 DEF Agrees, Zero, Value

\* A flag whose value is sent as it is, if it is given: an explicit false or 0 too.
LEMMA PlainAgrees ==
  ASSUME NEW l, WellFormed(l.flags), NEW kind \in {"slice", "pointer"},
         NEW flag \in {"from", "tables", "include-images", "document-timeout", "images-scale",
                       "max-tokens", "merge-peers", "markdown-tables", "include-raw-text"},
         NEW x, x = Value(l.flags, flag, << >>)
  PROVE  IsSequence(x) /\ Agrees(x, kind, Meaning(flag, Taken(l, flag)))
<1>1. flag \notin {"ocr-lang", "to", "pages", "ocr", "force-ocr", "abort-on-error"} \cup TextFlags
  BY DEF TextFlags
<1>2. \A value : Meaning(flag, value) = value
  BY <1>1 DEF Meaning
<1>3. Taken(l, flag) = x
  BY <1>1 DEF Taken, Given, Value
<1>4. IsSequence(x)
  <2>1. IsSequence(<< >>)
    BY DEF IsSequence
  <2> QED
    BY <2>1, FlagIs DEF Value
<1> QED
  BY <1>2, <1>3, <1>4 DEF Agrees, Zero

\* --ocr, which is sent if it is not given too.
LEMMA OcrAgrees ==
  ASSUME NEW l, WellFormed(l.flags), NEW x, x = Value(l.flags, "ocr", <<"true">>)
  PROVE  IsSequence(x) /\ Agrees(x, "pointer", Meaning("ocr", Taken(l, "ocr")))
<1>1. \A value : Meaning("ocr", value) = value
  BY DEF Meaning, TextFlags
<1>2. Taken(l, "ocr") = x
  BY DEF Taken, Given, Value
<1>3. IsSequence(x)
  <2>1. IsSequence(<<"true">>)
    BY DEF IsSequence
  <2> QED
    BY <2>1, FlagIs DEF Value
<1> QED
  BY <1>1, <1>2, <1>3 DEF Agrees, Zero

\* --ocr-lang, trimmed and without the empty ones.
LEMMA LangAgrees ==
  ASSUME NEW l, WellFormed(l.flags),
         NEW x, x = splitComma(Value(l.flags, "ocr-lang", << >>))
  PROVE  IsSequence(x) /\ Agrees(x, "slice", Meaning("ocr-lang", Taken(l, "ocr-lang")))
<1> DEFINE parts == Value(l.flags, "ocr-lang", << >>)
           X == STRING \cup {"", "de", "json"}
<1>1. ASSUME NEW flag, flag = "ocr-lang"
      PROVE  \A value : Meaning(flag, value) = NonEmpty(Trimmed(value))
  BY <1>1 DEF Meaning, TextFlags
<1>2. Taken(l, "ocr-lang") = parts
  BY DEF Taken, Given, Value
<1>3. ASSUME NEW t \in X PROVE TrimSpace(t) \in X
  <2>1. TrimSpace(t) \in {"", "de", "json"} \/ TrimSpace(t) = t
    BY Zenon DEF TrimSpace
  <2> QED
    BY <2>1
<1>4. parts \in Seq(X)
  <2>1. parts \in Seq(STRING) \/ parts = << >>
    BY FlagIs DEF Value
  <2>2. STRING \subseteq X
    OBVIOUS
  <2> HIDE DEF parts, X
  <2>3. ASSUME NEW S, S \subseteq X, NEW s \in Seq(S) PROVE s \in Seq(X)
    <3>1. Len(s) \in Nat /\ s = [i \in 1 .. Len(s) |-> s[i]]
          /\ \A i \in 1 .. Len(s) : s[i] \in X
      BY <2>3
    <3>2. s \in [1 .. Len(s) -> X]
      BY <3>1
    <3> QED
      BY <3>1, <3>2
  <2>4. << >> \in Seq(X)
    OBVIOUS
  <2> QED
    BY <2>1, <2>2, <2>3, <2>4
<1> HIDE DEF X
<1>5. x \in Seq(X) /\ x = NonEmpty(Trimmed(parts))
  BY <1>3, <1>4, SplitCommaIs
<1>6. IsSequence(x)
  BY <1>5 DEF IsSequence
<1> QED
  BY <1>1, <1>2, <1>5, <1>6 DEF Agrees, Zero

\* --pages, if it is nothing, a page or two pages; parsePageRange takes more.
LEMMA PagesAgree ==
  ASSUME NEW l, WellFormed(l.flags), NEW x, x = parsePageRange(Value(l.flags, "pages", << >>))
  PROVE  /\ IsSequence(x)
         /\ WellFormedPages(Given(l, "pages")) =>
              Agrees(x, "slice", Meaning("pages", Taken(l, "pages")))
<1> DEFINE tokens == Value(l.flags, "pages", << >>)
           n == Len(tokens)
<1>1. Taken(l, "pages") = tokens /\ Given(l, "pages") = tokens
  BY DEF Taken, Given, Value
<1>2. IsSequence(tokens)
  <2>1. IsSequence(<< >>)
    BY DEF IsSequence
  <2> QED
    BY <2>1, FlagIs DEF Value
<1>3. ASSUME NEW flag, flag = "pages"
      PROVE  /\ Meaning(flag, << >>) = << >>
             /\ tokens # << >> => Meaning(flag, tokens) = <<tokens[1], tokens[n]>>
  <2>1. << >> # <<"">>
    BY OneItem
  <2> HIDE DEF tokens
  <2> QED
    BY <1>3, <2>1 DEF Meaning, TextFlags
<1> HIDE DEF tokens
<1>4. IsSequence(x)
  <2>1. x = << >> \/ \E a, b : x = <<a, b>>
    BY DEF parsePageRange, tokens
  <2>2. \A a, b : IsSequence(<<a, b>>)
    BY DEF IsSequence
  <2>3. IsSequence(<< >>)
    BY DEF IsSequence
  <2> QED
    BY <2>1, <2>2, <2>3
<1> DEFINE lo == IntAt(tokens, 1)
           hi == lo + 2
           dash == \E i \in DOMAIN tokens : tokens[i] = "-"
           one == <<IntText(tokens, 1), IntText(tokens, 1)>>
           two == <<IntText(tokens, 1), IntText(tokens, hi)>>
<1>5. x = CASE lo = 0 -> << >>
            [] lo > 0 /\ ~dash -> one
            [] lo > 0 /\ dash /\ lo + 1 \in DOMAIN tokens /\ tokens[lo + 1] = "-"
                 /\ IntAt(tokens, hi) > 0 -> two
            [] OTHER -> << >>
  BY DEF parsePageRange, tokens
<1>6. "-" \notin Numbers
  BY DEF Numbers
<1>7. ASSUME NEW i \in DOMAIN tokens, tokens[i] \in Numbers
      PROVE  IntAt(tokens, i) = 1 /\ IntText(tokens, i) = tokens[i]
  BY <1>6, <1>7 DEF IntAt, IntText
<1>8. CASE tokens = << >>
  <2>1. lo = 0
    BY <1>8 DEF IntAt
  <2> QED
    BY <1>1, <1>3, <1>4, <1>5, <1>8, <2>1 DEF Agrees, Zero
<1>9. CASE n = 1 /\ tokens[1] \in Numbers
  <2>1. DOMAIN tokens = {1} /\ tokens # << >>
    <3>1. DOMAIN tokens = 1 .. n /\ Len(<< >>) = 0
      BY <1>2 DEF IsSequence
    <3> QED
      BY <1>9, <3>1
  <2>2. lo = 1 /\ ~dash
    BY <1>6, <1>7, <1>9, <2>1
  <2>3. x = one
    BY <1>5, <2>2
  <2>4. x = <<tokens[1], tokens[n]>>
    BY <1>7, <1>9, <2>1, <2>3
  <2>5. x # << >>
    <3>1. \A a, b : <<a, b>> # << >>
      OBVIOUS
    <3> QED
      BY <2>4, <3>1, Zenon
  <2>6. Meaning("pages", Taken(l, "pages")) = x
    BY <1>1, <1>3, <2>1, <2>4
  <2> QED
    BY <1>4, <2>5, <2>6 DEF Agrees, Zero
<1>10. CASE n = 3 /\ {tokens[1], tokens[3]} \subseteq Numbers /\ tokens[2] = "-"
  <2>1. DOMAIN tokens = 1 .. 3 /\ tokens # << >>
    <3>1. DOMAIN tokens = 1 .. n /\ Len(<< >>) = 0
      BY <1>2 DEF IsSequence
    <3> QED
      BY <1>10, <3>1
  <2>2. lo = 1 /\ dash /\ hi = 3 /\ IntAt(tokens, hi) = 1 /\ lo + 1 = 2
    BY <1>7, <1>10, <2>1
  <2>3. x = two
    BY <1>5, <1>10, <2>1, <2>2
  <2>4. x = <<tokens[1], tokens[n]>>
    BY <1>7, <1>10, <2>1, <2>2, <2>3
  <2>5. x # << >>
    <3>1. \A a, b : <<a, b>> # << >>
      OBVIOUS
    <3> QED
      BY <2>4, <3>1, Zenon
  <2>6. Meaning("pages", Taken(l, "pages")) = x
    BY <1>1, <1>3, <2>1, <2>4
  <2> QED
    BY <1>4, <2>5, <2>6 DEF Agrees, Zero
<1> QED
  BY <1>1, <1>4, <1>8, <1>9, <1>10 DEF WellFormedPages

\* --to, which is md for a conversion, and which chunk does not have.
LEMMA ToAgrees ==
  ASSUME NEW l, WellFormed(l.flags), NEW x,
         \/ /\ l.cmd = "convert" /\ x # << >>
            /\ x = parseOutputFormats(Value(l.flags, "to", <<"md">>))
         \/ l.cmd = "chunk" /\ ~Changed(l.flags, "to") /\ x = << >>
  PROVE  IsSequence(x) /\ Agrees(x, "slice", Meaning("to", Taken(l, "to")))
<1>1. ASSUME NEW flag, flag = "to" PROVE \A value : Meaning(flag, value) = Trimmed(value)
  BY <1>1 DEF Meaning, TextFlags
<1>2. CASE /\ l.cmd = "convert" /\ x # << >>
           /\ x = parseOutputFormats(Value(l.flags, "to", <<"md">>))
  <2> DEFINE texts == Value(l.flags, "to", <<"md">>)
  <2>1. Taken(l, "to") = texts
    BY <1>2 DEF Taken, Given, Value
  <2>2. IsSequence(texts)
    BY FlagIs, OneItem DEF Value
  <2>3. x = Trimmed(texts)
    BY <1>2 DEF parseOutputFormats, Trimmed
  <2> HIDE DEF texts
  <2>4. Len(texts) \in Nat /\ x = [i \in 1 .. Len(texts) |-> TrimSpace(texts[i])]
    BY <2>2, <2>3 DEF IsSequence, Trimmed
  <2>5. x = [i \in 1 .. Len(texts) |-> x[i]]
    BY <2>4
  <2>6. IsSequence(x)
    BY <2>4, <2>5, LengthIs
  <2> QED
    BY <1>1, <1>2, <2>1, <2>3, <2>6 DEF Agrees, Zero
<1>3. CASE l.cmd = "chunk" /\ ~Changed(l.flags, "to") /\ x = << >>
  <2>1. Taken(l, "to") = << >>
    BY <1>3 DEF Taken, Given
  <2>2. Trimmed(<< >>) = << >>
    BY DEF Trimmed
  <2>3. IsSequence(x)
    BY <1>3 DEF IsSequence
  <2> QED
    BY <1>1, <1>3, <2>1, <2>2, <2>3 DEF Agrees, Zero
<1> QED
  BY <1>2, <1>3

\* A field of a struct that is sent as its flag says, if it is held to it.
Sends(struct, v, but, l, name, kind, flag) ==
  /\ [name |-> name, kind |-> kind] \in struct
  /\ IsSequence(v[name]) /\ (kind \in {"string", "bool"} => v[name] # << >>)
  /\ name \notin but => Agrees(v[name], kind, Meaning(flag, Taken(l, flag)))

\* Options that agree with the flags, field by field, and with no others.
AgreesWith(struct, v, settings, but, l) ==
  /\ IsValueOf(struct, v)
  /\ \A s \in settings : \E f \in struct :
       f.name = s[2] /\ (s[2] \notin but =>
                           Agrees(v[f.name], f.kind, Meaning(s[1], Taken(l, s[1]))))
  /\ \A f \in struct : v[f.name] # Zero(f.kind) => \E s \in settings : s[2] = f.name

LEMMA SendsAgrees ==
  ASSUME NEW struct \in Structs, NEW v, NEW settings, NEW but, NEW l,
         \A s \in settings : \E kind : Sends(struct, v, but, l, s[2], kind, s[1]),
         \A f \in struct : \/ f.kind = "string" /\ v[f.name] = <<"">>
                           \/ \E s \in settings : s[2] = f.name
  PROVE  AgreesWith(struct, v, settings, but, l)
<1>1. ASSUME NEW f \in struct
      PROVE  \/ f.kind = "string" /\ v[f.name] = <<"">>
             \/ \E s \in settings : s[2] = f.name /\ Sends(struct, v, but, l, f.name, f.kind, s[1])
  <2>1. CASE \E s \in settings : s[2] = f.name
    <3>1. PICK s \in settings : s[2] = f.name
      BY <2>1
    <3>2. PICK kind : Sends(struct, v, but, l, f.name, kind, s[1])
      BY <3>1
    <3>3. kind = f.kind
      <4>1. [name |-> f.name, kind |-> kind] \in struct
        BY <3>2 DEF Sends
      <4> QED
        BY <4>1, FieldIs
    <3> QED
      BY <3>1, <3>2, <3>3
  <2> QED
    BY <2>1
<1>2. IsValueOf(struct, v)
  BY <1>1, OneItem DEF IsValueOf, Sends
<1>3. ASSUME NEW s \in settings
      PROVE  \E f \in struct : f.name = s[2] /\ (s[2] \notin but =>
               Agrees(v[f.name], f.kind, Meaning(s[1], Taken(l, s[1]))))
  <2>1. PICK kind : Sends(struct, v, but, l, s[2], kind, s[1])
    OBVIOUS
  <2> DEFINE f == [name |-> s[2], kind |-> kind]
  <2>2. f \in struct /\ f.name = s[2] /\ f.kind = kind
    BY <2>1 DEF Sends
  <2> HIDE DEF f
  <2>3. s[2] \notin but => Agrees(v[f.name], f.kind, Meaning(s[1], Taken(l, s[1])))
    BY <2>1, <2>2 DEF Sends
  <2> QED
    BY <2>2, <2>3
<1>4. ASSUME NEW f \in struct, v[f.name] # Zero(f.kind)
      PROVE  \E s \in settings : s[2] = f.name
  BY <1>1, <1>4 DEF Zero
<1> QED
  BY <1>2, <1>3, <1>4 DEF AgreesWith

\* The name that is not held to its flag, if the pages are not well formed.
Loose(l) == IF WellFormedPages(Given(l, "pages")) THEN {} ELSE {"page_range"}

LEMMA ConvertAgrees ==
  ASSUME NEW l, WellFormed(l.flags), ~Rejected(l),
         l.cmd = "convert" \/ (l.cmd = "chunk" /\ ~Changed(l.flags, "to"))
  PROVE  AgreesWith(ConvertOptions, OptionsOf(l), ConvertSettings, Loose(l), l)
<1> DEFINE v == OptionsOf(l)
           Ok(name, kind, flag) == Sends(ConvertOptions, v, Loose(l), l, name, kind, flag)
<1>1. Built(v, l.flags)
  <2> DEFINE b == build(l.flags)
  <2>1. \A n \in Names \ {"to_formats"} : v[n] = b[n]
    <3>1. CASE l.cmd = "convert"
      BY <3>1, OptionsAre
    <3>2. CASE l.cmd = "chunk"
      BY <3>2 DEF OptionsOf
    <3> QED
      BY <3>1, <3>2
  <2> HIDE DEF v, b
  <2>2. /\ v.ocr_engine = b.ocr_engine /\ v.ocr_preset = b.ocr_preset
        /\ v.from_formats = b.from_formats /\ v.do_ocr = b.do_ocr
        /\ v.force_ocr = b.force_ocr /\ v.table_mode = b.table_mode
        /\ v.image_export_mode = b.image_export_mode /\ v.pdf_backend = b.pdf_backend
        /\ v.pipeline = b.pipeline /\ v.ocr_lang = b.ocr_lang /\ v.page_range = b.page_range
        /\ v.abort_on_error = b.abort_on_error
        /\ v.do_table_structure = b.do_table_structure
        /\ v.include_images = b.include_images /\ v.document_timeout = b.document_timeout
        /\ v.images_scale = b.images_scale
    BY <2>1, NamesAre
  <2>3. Built(b, l.flags)
    BY BuildIs DEF b
  <2> QED
    BY <2>2, <2>3 DEF Built
<1>2. \/ /\ l.cmd = "convert" /\ v.to_formats # << >>
         /\ v.to_formats = parseOutputFormats(Value(l.flags, "to", <<"md">>))
      \/ l.cmd = "chunk" /\ ~Changed(l.flags, "to") /\ v.to_formats = << >>
  <2>1. CASE l.cmd = "convert"
    BY <2>1, OptionsAre
  <2>2. CASE l.cmd = "chunk"
    <3>1. v = build(l.flags)
      BY <2>2 DEF OptionsOf
    <3>2. build(l.flags).to_formats = << >>
      BY BuildIs, Zenon
    <3> QED
      BY <2>2, <3>1, <3>2
  <2> QED
    BY <2>1, <2>2
<1> HIDE DEF v
<1>3. /\ \A n \in {"from_formats", "to_formats", "ocr_lang", "page_range"} :
           [name |-> n, kind |-> "slice"] \in ConvertOptions
      /\ \A n \in {"image_export_mode", "ocr_engine", "ocr_preset", "pdf_backend",
                   "table_mode", "pipeline"} : [name |-> n, kind |-> "string"] \in ConvertOptions
      /\ \A n \in {"force_ocr", "abort_on_error"} :
           [name |-> n, kind |-> "bool"] \in ConvertOptions
      /\ \A n \in {"do_ocr", "do_table_structure", "include_images", "images_scale",
                   "document_timeout"} : [name |-> n, kind |-> "pointer"] \in ConvertOptions
  BY DEF ConvertOptions, Slices, Strings, Bools, Pointers
<1>4. Ok("from_formats", "slice", "from")
  BY <1>1, <1>3, PlainAgrees DEF Built, Sends
<1>5. Ok("to_formats", "slice", "to")
  BY <1>2, <1>3, ToAgrees DEF Sends
<1>6. Ok("do_ocr", "pointer", "ocr")
  BY <1>1, <1>3, OcrAgrees DEF Built, Sends
<1>7. Ok("force_ocr", "bool", "force-ocr")
  BY <1>1, <1>3, ToggleAgrees DEF Built, Sends
<1>8. Ok("ocr_lang", "slice", "ocr-lang")
  BY <1>1, <1>3, LangAgrees DEF Built, Sends
<1>9. Ok("table_mode", "string", "table-mode")
  BY <1>1, <1>3, TextAgrees DEF TextFlags, Built, Sends
<1>10. Ok("page_range", "slice", "pages")
  BY <1>1, <1>3, PagesAgree DEF Loose, Built, Sends
<1>11. Ok("image_export_mode", "string", "image-export-mode")
  BY <1>1, <1>3, TextAgrees DEF TextFlags, Built, Sends
<1>12. Ok("abort_on_error", "bool", "abort-on-error")
  BY <1>1, <1>3, ToggleAgrees DEF Built, Sends
<1>13. Ok("document_timeout", "pointer", "document-timeout")
  BY <1>1, <1>3, PlainAgrees DEF Built, Sends
<1>14. Ok("do_table_structure", "pointer", "tables")
  BY <1>1, <1>3, PlainAgrees DEF Built, Sends
<1>15. Ok("images_scale", "pointer", "images-scale")
  BY <1>1, <1>3, PlainAgrees DEF Built, Sends
<1>16. Ok("include_images", "pointer", "include-images")
  BY <1>1, <1>3, PlainAgrees DEF Built, Sends
<1>17. Ok("pdf_backend", "string", "pdf-backend")
  BY <1>1, <1>3, TextAgrees DEF TextFlags, Built, Sends
<1>18. Ok("pipeline", "string", "pipeline")
  BY <1>1, <1>3, TextAgrees DEF TextFlags, Built, Sends
<1> HIDE DEF Ok
<1>19. ASSUME NEW s \in ConvertSettings PROVE \E kind : Ok(s[2], kind, s[1])
  BY <1>4, <1>5, <1>6, <1>7, <1>8, <1>9, <1>10, <1>11,
     <1>12, <1>13, <1>14, <1>15, <1>16, <1>17, <1>18
  DEF ConvertSettings
<1>20. ASSUME NEW f \in ConvertOptions
       PROVE  \/ f.kind = "string" /\ v[f.name] = <<"">>
              \/ \E s \in ConvertSettings : s[2] = f.name
  <2>1. CASE f.name \in {"ocr_engine", "ocr_preset"}
    <3>1. [name |-> f.name, kind |-> "string"] \in ConvertOptions
      BY <1>3, <2>1
    <3>2. f.kind = "string"
      BY <3>1, FieldIs DEF Structs
    <3> QED
      BY <1>1, <2>1, <3>2 DEF Built
  <2>2. CASE f.name \notin {"ocr_engine", "ocr_preset"}
    <3>1. f.name \in Names
      BY DEF Names
    <3> QED
      BY <2>2, <3>1, NamesAre DEF ConvertSettings
  <2> QED
    BY <2>1, <2>2
<1> QED
  <2>1. ConvertOptions \in Structs
    BY DEF Structs
  <2> QED
    BY <1>19, <1>20, <2>1, SendsAgrees DEF Ok, v

LEMMA ChunkerAgrees ==
  ASSUME NEW l, WellFormed(l.flags), l.chunker \in {"hybrid", "hierarchical"}
  PROVE  AgreesWith(ChunkerStruct(l.chunker), chunkerOptions(l.chunker, l.flags),
                    ChunkerSettings(l.chunker), Loose(l), l)
<1> DEFINE struct == ChunkerStruct(l.chunker)
           v == chunkerOptions(l.chunker, l.flags)
           zero == ZeroValue(HybridChunkerOptions)
           five == {"max_tokens", "tokenizer", "merge_peers", "use_markdown_tables",
                    "include_raw_text"}
           all == [zero EXCEPT
                     !.max_tokens          = Value(l.flags, "max-tokens", << >>),
                     !.tokenizer           = Value(l.flags, "tokenizer", <<"">>),
                     !.merge_peers         = Value(l.flags, "merge-peers", << >>),
                     !.use_markdown_tables = Value(l.flags, "markdown-tables", << >>),
                     !.include_raw_text    = Value(l.flags, "include-raw-text", << >>)]
           Ok(name, kind, flag) == Sends(struct, v, Loose(l), l, name, kind, flag)
<1>1. /\ \A n \in {"use_markdown_tables", "include_raw_text", "max_tokens", "merge_peers"} :
           [name |-> n, kind |-> "pointer"] \in HybridChunkerOptions
      /\ [name |-> "tokenizer", kind |-> "string"] \in HybridChunkerOptions
      /\ \A f \in HybridChunkerOptions : f.name \in five
  BY DEF HybridChunkerOptions, HierarchicalChunkerOptions, Pointers, Strings
<1>2. /\ \A n \in {"use_markdown_tables", "include_raw_text"} :
           [name |-> n, kind |-> "pointer"] \in HierarchicalChunkerOptions
      /\ \A f \in HierarchicalChunkerOptions :
           f.name \in {"use_markdown_tables", "include_raw_text"}
  BY DEF HierarchicalChunkerOptions, Pointers
<1>3. five \subseteq DOMAIN zero
  <2>1. DOMAIN zero = {f.name : f \in HybridChunkerOptions}
    BY ZeroValueIs DEF Structs
  <2>2. \A n, k : [name |-> n, kind |-> k] \in HybridChunkerOptions => n \in DOMAIN zero
    <3>1. \A f \in HybridChunkerOptions : f.name \in DOMAIN zero
      BY <2>1
    <3> QED
      BY <3>1
  <2> QED
    BY <1>1, <2>2
<1> HIDE DEF zero
<1>4. /\ all.max_tokens          = Value(l.flags, "max-tokens", << >>)
      /\ all.tokenizer           = Value(l.flags, "tokenizer", <<"">>)
      /\ all.merge_peers         = Value(l.flags, "merge-peers", << >>)
      /\ all.use_markdown_tables = Value(l.flags, "markdown-tables", << >>)
      /\ all.include_raw_text    = Value(l.flags, "include-raw-text", << >>)
  BY <1>3, Zenon
<1>5. struct \in Structs
  BY DEF Structs, ChunkerStruct
<1>6. \A n, k : [name |-> n, kind |-> k] \in struct => v[n] = all[n]
  <2>1. v = [n \in DOMAIN ZeroValue(struct) |-> all[n]]
    BY Zenon DEF chunkerOptions, zero
  <2>2. DOMAIN ZeroValue(struct) = {f.name : f \in struct}
    BY <1>5, ZeroValueIs
  <2> HIDE DEF struct, v, all
  <2>3. \A f \in struct : v[f.name] = all[f.name]
    BY <2>1, <2>2
  <2> QED
    BY <2>3
<1> HIDE DEF v, all
<1>7. /\ [name |-> "use_markdown_tables", kind |-> "pointer"] \in struct
      /\ [name |-> "include_raw_text", kind |-> "pointer"] \in struct
  BY <1>1, <1>2 DEF ChunkerStruct
<1>8. Ok("use_markdown_tables", "pointer", "markdown-tables")
  BY <1>4, <1>6, <1>7, PlainAgrees DEF Sends
<1>9. Ok("include_raw_text", "pointer", "include-raw-text")
  BY <1>4, <1>6, <1>7, PlainAgrees DEF Sends
<1>10. CASE l.chunker = "hierarchical"
  <2>1. ChunkerSettings(l.chunker) = {<<"markdown-tables", "use_markdown_tables">>,
                                      <<"include-raw-text", "include_raw_text">>}
    BY <1>10 DEF ChunkerSettings
  <2>2. struct = HierarchicalChunkerOptions
    BY <1>10 DEF ChunkerStruct
  <2> HIDE DEF Ok, struct
  <2>3. ASSUME NEW s \in ChunkerSettings(l.chunker) PROVE \E kind : Ok(s[2], kind, s[1])
    BY <1>8, <1>9, <2>1
  <2>4. ASSUME NEW f \in struct PROVE \E s \in ChunkerSettings(l.chunker) : s[2] = f.name
    BY <1>2, <2>1, <2>2
  <2> QED
    BY <1>5, <2>3, <2>4, SendsAgrees DEF Ok, v, struct
<1>11. CASE l.chunker = "hybrid"
  <2>1. ChunkerSettings(l.chunker) = {<<"markdown-tables", "use_markdown_tables">>,
                                      <<"include-raw-text", "include_raw_text">>,
                                      <<"max-tokens", "max_tokens">>,
                                      <<"tokenizer", "tokenizer">>,
                                      <<"merge-peers", "merge_peers">>}
    BY <1>11 DEF ChunkerSettings
  <2>2. struct = HybridChunkerOptions
    BY <1>11 DEF ChunkerStruct
  <2>3. Ok("max_tokens", "pointer", "max-tokens")
    BY <1>1, <1>4, <1>6, <2>2, PlainAgrees DEF Sends
  <2>4. Ok("merge_peers", "pointer", "merge-peers")
    BY <1>1, <1>4, <1>6, <2>2, PlainAgrees DEF Sends
  <2>5. Ok("tokenizer", "string", "tokenizer")
    BY <1>1, <1>4, <1>6, <2>2, TextAgrees DEF Sends, TextFlags
  <2> HIDE DEF Ok, struct
  <2>6. ASSUME NEW s \in ChunkerSettings(l.chunker) PROVE \E kind : Ok(s[2], kind, s[1])
    BY <1>8, <1>9, <2>1, <2>3, <2>4, <2>5
  <2>7. ASSUME NEW f \in struct PROVE \E s \in ChunkerSettings(l.chunker) : s[2] = f.name
    BY <1>1, <2>1, <2>2
  <2> QED
    BY <1>5, <2>6, <2>7, SendsAgrees DEF Ok, v, struct
<1> QED
  BY <1>10, <1>11

\* The settings that are sent of a group of flags.
Sending(group, settings, l) ==
  {[group |-> group, name |-> s[2], value |-> Meaning(s[1], Taken(l, s[1]))] :
     s \in {s \in settings : Meaning(s[1], Taken(l, s[1])) # << >>}}

\* Options that agree with the flags are encoded as the settings build takes.
LEMMA SettingsAgree ==
  ASSUME NEW struct \in Structs, NEW v, NEW settings, NEW but, NEW l, NEW group,
         AgreesWith(struct, v, settings, but, l)
  PROVE  {s \in encodeJSON(struct, v, group) : s.name \notin but} =
           {s \in Sending(group, settings, l) : s.name \notin but}
<1> DEFINE Asks(s) == Meaning(s[1], Taken(l, s[1]))
           Sent(f) == [group |-> group, name |-> f.name, value |-> v[f.name]]
           Said(s) == [group |-> group, name |-> s[2], value |-> Asks(s)]
           some == {f \in struct : v[f.name] # Zero(f.kind)}
           asked == {s \in settings : Asks(s) # << >>}
<1>1. encodeJSON(struct, v, group) = {Sent(f) : f \in some}
  BY DEF encodeJSON
<1>2. Sending(group, settings, l) = {Said(s) : s \in asked}
  BY DEF Sending
<1>3. /\ \A f : Sent(f).name = f.name
      /\ \A s : Said(s).name = s[2]
      /\ \A f, s : f.name = s[2] /\ v[f.name] = Asks(s) => Sent(f) = Said(s)
  OBVIOUS
<1>4. ASSUME NEW f \in some, f.name \notin but
      PROVE  \E s \in asked : Sent(f) = Said(s)
  <2>1. PICK s \in settings : s[2] = f.name
    BY DEF AgreesWith
  <2>2. PICK g \in struct : g.name = s[2] /\ Agrees(v[g.name], g.kind, Asks(s))
    BY <1>4, <2>1 DEF AgreesWith
  <2>3. g = f
    BY <2>1, <2>2, FieldIs
  <2>4. Asks(s) # << >> /\ v[f.name] = Asks(s)
    BY <2>2, <2>3 DEF Agrees
  <2> QED
    BY <1>3, <2>1, <2>4
<1>5. ASSUME NEW s \in asked, s[2] \notin but
      PROVE  \E f \in some : Sent(f) = Said(s)
  <2>1. PICK f \in struct : f.name = s[2] /\ Agrees(v[f.name], f.kind, Asks(s))
    BY <1>5 DEF AgreesWith
  <2>2. f \in some /\ v[f.name] = Asks(s)
    BY <2>1 DEF Agrees
  <2> QED
    BY <1>3, <2>1, <2>2
<1> HIDE DEF Sent, Said, some, asked
<1>6. {x \in {Sent(f) : f \in some} : x.name \notin but} =
        {x \in {Said(s) : s \in asked} : x.name \notin but}
  <2>1. ASSUME NEW x \in {Sent(f) : f \in some}, x.name \notin but
        PROVE  x \in {Said(s) : s \in asked}
    BY <1>3, <1>4, <2>1
  <2>2. ASSUME NEW x \in {Said(s) : s \in asked}, x.name \notin but
        PROVE  x \in {Sent(f) : f \in some}
    BY <1>3, <1>5, <2>2
  <2> QED
    BY <2>1, <2>2
<1> QED
  BY <1>1, <1>2, <1>6

\* They are the settings the flags ask for, and do_ocr if it is not given.
LEMMA ConvertIsSent ==
  ASSUME NEW l
  PROVE  Sending("convert", ConvertSettings, l) =
           Asking("convert", ConvertSettings, l) \cup Unasked(l)
<1> DEFINE sent == Sending("convert", ConvertSettings, l)
           asked == Asking("convert", ConvertSettings, l)
           asks(s) == Meaning(s[1], Given(l, s[1]))
           takes(s) == Meaning(s[1], Taken(l, s[1]))
           said(s) == [group |-> "convert", name |-> s[2], value |-> asks(s)]
           sends(s) == [group |-> "convert", name |-> s[2], value |-> takes(s)]
           ocr == <<"ocr", "do_ocr">>
<1>1. /\ sent = {sends(s) : s \in {s \in ConvertSettings : takes(s) # << >>}}
      /\ asked = {said(s) : s \in {s \in ConvertSettings : asks(s) # << >>}}
  BY DEF Sending, Asking
<1>2. ocr \in ConvertSettings /\ ocr[1] = "ocr" /\ ocr[2] = "do_ocr"
      /\ \A s \in ConvertSettings : s[1] = "ocr" => s = ocr
  BY DEF ConvertSettings
<1>3. \A s \in ConvertSettings : s # ocr => takes(s) = asks(s) /\ sends(s) = said(s)
  BY <1>2, TakenAsGiven
<1>4. CASE Changed(l.flags, "ocr")
  <2>1. \A s : takes(s) = asks(s) /\ sends(s) = said(s)
    BY <1>4 DEF Taken
  <2>2. Unasked(l) = {}
    BY <1>4 DEF Unasked
  <2> HIDE DEF sent, asked, takes, asks, sends, said
  <2>3. sent = asked
    BY <1>1, <2>1
  <2> QED
    BY <2>2, <2>3 DEF sent, asked
<1>5. CASE ~Changed(l.flags, "ocr")
  <2>1. \A value : Meaning("ocr", value) = value
    BY DEF Meaning, TextFlags
  <2>2. takes(ocr) = <<"true">> /\ asks(ocr) = << >>
    BY <1>5, <2>1 DEF Taken, Given
  <2>3. Unasked(l) = {sends(ocr)}
    BY <1>5, <2>2 DEF Unasked
  <2>4. <<"true">> # << >>
    BY OneItem
  <2> HIDE DEF sent, asked, takes, asks, sends, said, ocr
  <2>5. sent \subseteq asked \cup {sends(ocr)}
    BY <1>1, <1>3
  <2>6. asked \cup {sends(ocr)} \subseteq sent
    <3>1. sends(ocr) \in sent
      BY <1>1, <1>2, <2>2, <2>4
    <3>2. asked \subseteq sent
      BY <1>1, <1>3, <2>2
    <3> QED
      BY <3>1, <3>2
  <2> QED
    BY <2>3, <2>5, <2>6 DEF sent, asked
<1> QED
  BY <1>4, <1>5

LEMMA ChunkerIsSent ==
  ASSUME NEW l
  PROVE  Sending("chunking", ChunkerSettings(l.chunker), l) =
           Asking("chunking", ChunkerSettings(l.chunker), l)
<1> DEFINE asks(s) == Meaning(s[1], Given(l, s[1]))
           takes(s) == Meaning(s[1], Taken(l, s[1]))
<1>1. \A s \in ChunkerSettings(l.chunker) : s[1] # "ocr"
  BY DEF ChunkerSettings
<1>2. \A s \in ChunkerSettings(l.chunker) : takes(s) = asks(s)
  BY <1>1, TakenAsGiven
<1>3. {s \in ChunkerSettings(l.chunker) : takes(s) # << >>} =
        {s \in ChunkerSettings(l.chunker) : asks(s) # << >>}
  BY <1>2
<1> HIDE DEF takes, asks
<1>4. {[group |-> "chunking", name |-> s[2], value |-> takes(s)] :
         s \in {s \in ChunkerSettings(l.chunker) : takes(s) # << >>}} =
      {[group |-> "chunking", name |-> s[2], value |-> asks(s)] :
         s \in {s \in ChunkerSettings(l.chunker) : asks(s) # << >>}}
  BY <1>2, <1>3
<1> QED
  BY <1>4 DEF Sending, Asking, takes, asks

\* The server is asked for what the flags say and for nothing else but do_ocr, which is
\* true unasked, by a form as by JSON, whatever the flags of a command line that is not
\* rejected (README.md:215-257, main.go:654-689); --pages is held to it when it is
\* nothing, a page or two pages.
THEOREM AskedIsMeant ==
  ASSUME NEW l, WellFormed(l.flags), ~Rejected(l),
         l.cmd = "convert" \/ (l.cmd = "chunk" /\ ~Changed(l.flags, "to"))
  PROVE  {s \in Settings(Asked(l)) : s.name \notin Loose(l)} =
           {s \in Meant(l) \cup Unasked(l) : s.name \notin Loose(l)}
<1> DEFINE v == OptionsOf(l)
           w == chunkerOptions(l.chunker, l.flags)
           struct == ChunkerStruct(l.chunker)
           json == encodeJSON(ConvertOptions, v, "convert")
           json2 == encodeJSON(struct, w, "chunking")
           meant == Asking("convert", ConvertSettings, l) \cup Unasked(l)
           meant2 == Asking("chunking", ChunkerSettings(l.chunker), l)
<1>1. ConvertOptions \in Structs /\ struct \in Structs
  BY DEF Structs, ChunkerStruct
<1>2. AgreesWith(ConvertOptions, v, ConvertSettings, Loose(l), l)
  BY ConvertAgrees
<1>3. IsValueOf(ConvertOptions, v)
  BY <1>2 DEF AgreesWith
<1> HIDE DEF v, w, struct
<1>4. {s \in json : s.name \notin Loose(l)} = {s \in meant : s.name \notin Loose(l)}
  BY <1>1, <1>2, SettingsAgree, ConvertIsSent
<1>5. CASE l.cmd = "convert"
  <2>1. Asked(l) = ConvertRequest(l.input, v)
    BY <1>5 DEF Asked, v
  <2>2. Settings(Asked(l)) = json
    BY <1>3, <2>1, ConvertAsks
  <2>3. Meant(l) \cup Unasked(l) = meant
    BY <1>5 DEF Meant
  <2> QED
    BY <1>4, <2>2, <2>3
<1>6. CASE l.cmd = "chunk"
  <2>1. Asked(l) = ChunkRequest(l.chunker, l.input, v, w)
    BY <1>6 DEF Asked, v, w
  <2>2. AgreesWith(struct, w, ChunkerSettings(l.chunker), Loose(l), l)
    BY <1>6, ChunkerAgrees DEF Rejected, struct, w
  <2>3. IsValueOf(struct, w)
    BY <2>2 DEF AgreesWith
  <2>4. Settings(Asked(l)) = json \cup json2
    BY <1>3, <2>1, <2>3, ChunkAsks DEF struct
  <2>5. {s \in json2 : s.name \notin Loose(l)} = {s \in meant2 : s.name \notin Loose(l)}
    BY <1>1, <2>2, SettingsAgree, ChunkerIsSent
  <2>6. Meant(l) \cup Unasked(l) = meant \cup meant2
    BY <1>6 DEF Meant
  <2> HIDE DEF json, json2, meant, meant2
  <2> QED
    BY <1>4, <2>4, <2>5, <2>6
<1> QED
  BY <1>5, <1>6
=============================================================================
