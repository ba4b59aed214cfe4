------------------------ MODULE DprintSessionProofs -------------------------
(***************************************************************************)
(* Theorems on DprintPlugin, and on the sessions of DprintSession that the *)
(* plugin is part of, for every set of ids, payloads, overrides, paths and *)
(* texts, for configurations of any number, and for every guessLanguage    *)
(* and LibFormat.                                                          *)
(*                                                                         *)
(* The first half is about the exports in whatever order they are called;  *)
(* the second about a host that calls them as the ABI is made for: every   *)
(* host that keeps to HostAssumption is served each request alone.         *)
(***************************************************************************)
EXTENDS DprintSession, SequenceTheorems, TLAPS

-----------------------------------------------------------------------------
(* What resolve_format_style returns.                                      *)

(* A merge that another diagnostic can be added to.                        *)
Names == {"lineWidth", "indentWidth", "useTabs", "BasedOnStyle"}
Reports(merge) == merge.diagnostics \in Seq(Names)

LEMMA DiagnosticReports ==
  ASSUME NEW merge, Reports(merge), NEW name \in Names
  PROVE  /\ Reports(WithDiagnostic(merge, name))
         /\ WithDiagnostic(merge, name).diagnostics # <<>>
<1>1. /\ Append(merge.diagnostics, name) \in Seq(Names)
      /\ Append(merge.diagnostics, name) # <<>>
  BY AppendProperties DEF Reports
<1>2. QED
  BY <1>1 DEF Reports, WithDiagnostic

LEMMA GlobalReports ==
  ASSUME NEW merge, Reports(merge), NEW defaults, NEW globalKey \in Names, NEW clangKey
  PROVE  /\ Reports(TakeNumber(globalKey, clangKey, defaults, merge))
         /\ Reports(TakeUseTabs(defaults, merge))
<1>1. Reports(WithDiagnostic(merge, globalKey)) /\ Reports(WithDiagnostic(merge, "useTabs"))
  <2>1. "useTabs" \in Names
    BY DEF Names
  <2>2. QED
    BY <2>1, DiagnosticReports
<1>2. \A key, value : Reports(WithOption(merge, key, value))
  BY DEF Reports, WithOption
<1>3. \/ TakeNumber(globalKey, clangKey, defaults, merge) = merge
      \/ TakeNumber(globalKey, clangKey, defaults, merge) = WithDiagnostic(merge, globalKey)
      \/ \E value : TakeNumber(globalKey, clangKey, defaults, merge)
                     = WithOption(merge, clangKey, value)
  BY DEF TakeNumber
<1>4. \/ TakeUseTabs(defaults, merge) = merge
      \/ TakeUseTabs(defaults, merge) = WithDiagnostic(merge, "useTabs")
      \/ \E value : TakeUseTabs(defaults, merge) = WithOption(merge, "UseTab", value)
  BY DEF TakeUseTabs
<1>5. QED
  BY <1>1, <1>2, <1>3, <1>4

LEMMA MergedReports ==
  ASSUME NEW own, NEW defaults, NEW over, NEW m, m = Merged(own, defaults, over)
  PROVE  NamesOneOf(m.options, FilesystemStyles) => m.diagnostics # <<>>
<1>1. PICK m0 : m0 = MergeObjectOptions(over, MergeObjectOptions(own,
                       [options |-> EmptyObject, diagnostics |-> <<>>]))
  OBVIOUS
<1>2. PICK m1 : m1 = TakeNumber("lineWidth", "ColumnLimit", defaults, m0)
  OBVIOUS
<1>3. PICK m2 : m2 = TakeNumber("indentWidth", "IndentWidth", defaults, m1)
  OBVIOUS
<1>4. PICK m3 : m3 = TakeUseTabs(defaults, m2)
  OBVIOUS
<1>5. m = RejectFilesystemStyle(m3)
  <2>1. m = RejectFilesystemStyle(MergeGlobalOptions(defaults, m0))
    BY <1>1 DEF Merged
  <2>2. MergeGlobalOptions(defaults, m0) = m3
    BY <1>2, <1>3, <1>4 DEF MergeGlobalOptions
  <2>3. QED
    BY <2>1, <2>2
<1>6. Reports(m0)
  <2>1. m0.diagnostics = <<>>
    BY <1>1 DEF MergeObjectOptions
  <2>2. QED
    BY <2>1, EmptySeq DEF Reports
<1>7. Reports(m3)
  <2>1. "lineWidth" \in Names /\ "indentWidth" \in Names
    BY DEF Names
  <2>2. QED
    BY <1>2, <1>3, <1>4, <1>6, <2>1, GlobalReports
<1>8. WithDiagnostic(m3, "BasedOnStyle").diagnostics # <<>>
  <2>1. "BasedOnStyle" \in Names
    BY DEF Names
  <2>2. QED
    BY <1>7, <2>1, DiagnosticReports
<1>9. QED
  BY <1>5, <1>8 DEF RejectFilesystemStyle

(* The style is LLVM's, or the merge's if nothing is wrong with that.      *)
LEMMA ResolveCases ==
  ASSUME NEW own, NEW defaults, NEW over,
         NEW r, r = ResolveFormatStyle(own, defaults, over),
         NEW m, m = Merged(own, defaults, over)
  PROVE  /\ r.style = LLVMStyle
            \/ (r.style = StyleOf(m.options) /\ m.diagnostics = <<>> /\ r.valid)
         /\ r.diagnostics = <<>> => r.valid
<1>1. <<"clangFormat">> # <<>>
  OBVIOUS
<1>2. QED
  BY <1>1 DEF ResolveFormatStyle

(* Whatever is merged, the style that comes out asks for no file.          *)
LEMMA ResolvedNeedsNoFile ==
  ASSUME NEW own, NEW defaults, NEW over
  PROVE  ~NamesOneOf(ResolveFormatStyle(own, defaults, over).style.options,
                     FilesystemStyles)
<1>1. PICK m : m = Merged(own, defaults, over)
  OBVIOUS
<1>2. PICK r : r = ResolveFormatStyle(own, defaults, over)
  OBVIOUS
<1>3. CASE r.style = LLVMStyle
  BY <1>2, <1>3 DEF LLVMStyle, StyleOf, NamesOneOf, EmptyObject
<1>4. CASE r.style = StyleOf(m.options) /\ m.diagnostics = <<>>
  <2>1. r.style.options = m.options
    BY <1>4 DEF StyleOf
  <2>2. QED
    BY <1>1, <1>2, <1>4, <2>1, MergedReports
<1>5. QED
  BY <1>1, <1>2, <1>3, <1>4, ResolveCases

-----------------------------------------------------------------------------
(* The exports.                                                            *)


(* The vector of configurations needs its entries to have distinct ids     *)
(* before release_config, which erases one entry, can be said to release.  *)
IInv == TypeOK /\ UniqueIds

BufferOK == shared \in {Nothing} \cup Sendable \cup Answers

-----------------------------------------------------------------------------
(* What the buffer holds is known from its kind. *)

LEMMA SendableKinds ==
  ASSUME NEW bytes \in Sendable
  PROVE  /\ bytes.kind \in {"nothing", "payload", "override", "path", "text"}
         /\ bytes.kind = "nothing" => bytes = Nothing
         /\ bytes.kind = "payload" => bytes.payload \in Payloads
         /\ bytes.kind = "override" => \E o \in Overrides : bytes = OverrideBytes(o)
         /\ bytes.kind = "path" => bytes.path \in Paths
         /\ bytes.kind = "text" => bytes.text \in Texts
<1>1. CASE \E p \in Payloads : bytes = PayloadBytes(p)
  BY <1>1 DEF PayloadBytes
<1>2. CASE \E o \in Overrides : bytes = OverrideBytes(o)
  BY <1>2 DEF OverrideBytes
<1>3. CASE \E p \in Paths : bytes = PathBytes(p)
  BY <1>3 DEF PathBytes
<1>4. CASE \E t \in Texts : bytes = TextBytes(t)
  BY <1>4 DEF TextBytes, Nothing
<1>5. QED
  BY <1>1, <1>2, <1>3, <1>4 DEF Sendable

LEMMA AnswerKinds ==
  ASSUME NEW bytes \in Answers
  PROVE  bytes.kind \notin {"nothing", "payload", "override", "path", "text"}
<1>1. CASE \E which \in StaticAnswers : bytes = StaticBytes(which)
  BY <1>1 DEF StaticBytes, StaticAnswers
<1>2. CASE \E names : bytes = DiagnosticBytes(names)
  BY <1>2 DEF DiagnosticBytes
<1>3. CASE \E options : bytes = ResolvedBytes(options)
  BY <1>3 DEF ResolvedBytes
<1>4. CASE \E message \in Messages : bytes = ErrorBytes(message)
  <2>1. PICK message : message \in Messages /\ bytes = ErrorBytes(message)
    BY <1>4
  <2>2. message # NoError
    BY <2>1 DEF Messages, NoError
  <2>3. bytes = [kind |-> "error", error |-> message]
    BY <2>1, <2>2 DEF ErrorBytes
  <2>4. bytes.kind = "error"
    BY <2>3
  <2>5. QED
    BY <2>4
<1>5. \/ bytes \in {StaticBytes(which) : which \in StaticAnswers}
      \/ bytes \in {DiagnosticBytes(e.diagnostics) : e \in Entry} \cup {DiagnosticBytes(<<>>)}
      \/ bytes \in {ResolvedBytes(e.resolved) : e \in Entry} \cup {ResolvedBytes(EmptyObject)}
      \/ bytes \in {ErrorBytes(message) : message \in Messages}
  BY DEF Answers
<1>6. QED
  BY <1>1, <1>2, <1>3, <1>4, <1>5

LEMMA BufferKinds ==
  ASSUME BufferOK
  PROVE  /\ shared.kind = "nothing" => shared = Nothing
         /\ shared.kind = "payload" => shared.payload \in Payloads
         /\ shared.kind = "override" => \E o \in Overrides : shared = OverrideBytes(o)
         /\ shared.kind = "path" => shared.path \in Paths
         /\ shared.kind = "text" => shared.text \in Texts
<1>1. CASE shared = Nothing
  BY <1>1 DEF Nothing
<1>2. CASE shared \in Sendable
  BY <1>2, SendableKinds
<1>3. CASE shared \in Answers
  BY <1>3, AnswerKinds
<1>4. QED
  BY <1>1, <1>2, <1>3 DEF BufferOK

-----------------------------------------------------------------------------
(* The vector of configurations. *)

(* With one entry an id at most, find_config's first is the only one.      *)
LEMMA FoundConfig ==
  ASSUME configs \in Seq(Entry), UniqueIds, NEW id, Known(id)
  PROVE  /\ FindConfig(id) \in 1 .. Len(configs)
         /\ configs[FindConfig(id)].id = id
         /\ HasId(id) = {FindConfig(id)}
<1>1. PICK i \in HasId(id) : TRUE
  BY DEF Known
<1>2. i \in 1 .. Len(configs) /\ configs[i].id = id
  BY <1>1 DEF HasId
<1>3. \A j \in HasId(id) : j = i
  BY <1>2 DEF HasId, UniqueIds
<1>4. FindConfig(id) = i
  <2>1. HasId(id) = {i}
    BY <1>1, <1>3
  <2>2. (\A j \in HasId(id) : i <= j) /\ i \in HasId(id)
    BY <1>2, <2>1
  <2>3. \A k \in HasId(id) : (\A j \in HasId(id) : k <= j) => k = i
    BY <2>1
  <2> DEFINE First(k) == \A j \in HasId(id) : k <= j
  <2>4. (CHOOSE k \in HasId(id) : First(k)) = i
    <3> HIDE DEF First
    <3>1. First(i) /\ i \in HasId(id) /\ \A k \in HasId(id) : First(k) => k = i
      BY <2>2, <2>3 DEF First
    <3>2. QED
      BY <3>1
  <2>5. QED
    BY <2>4 DEF FindConfig
<1>5. QED
  BY <1>1, <1>2, <1>3, <1>4

LEMMA UpsertedConfigs ==
  ASSUME configs \in Seq(Entry), UniqueIds, NEW id, NEW entry \in Entry,
         entry.id = id, UpsertConfig(id, entry)
  PROVE  /\ configs' \in Seq(Entry)
         /\ UniqueIds'
         /\ \A other : other # id => EntriesOf(other)' = EntriesOf(other)
<1>1. CASE Known(id)
  <2>1. PICK at \in 1 .. Len(configs) :
          /\ configs[at].id = id
          /\ HasId(id) = {at}
          /\ configs' = [configs EXCEPT ![at] = entry]
    BY <1>1, FoundConfig DEF UpsertConfig
  <2>2. configs' \in Seq(Entry) /\ DOMAIN configs' = DOMAIN configs
    BY <2>1
  <2>3. \A i \in DOMAIN configs : configs'[i].id = configs[i].id
    BY <2>1
  <2>4. UniqueIds'
    BY <2>2, <2>3 DEF UniqueIds
  <2>5. ASSUME NEW other, other # id
        PROVE  EntriesOf(other)' = EntriesOf(other)
    <3>1. HasId(other)' = HasId(other)
      BY <2>2, <2>3 DEF HasId
    <3>2. \A i \in HasId(other) : configs'[i] = configs[i]
      BY <2>1, <2>5 DEF HasId
    <3>3. QED
      BY <3>1, <3>2 DEF EntriesOf
  <2>6. QED
    BY <2>2, <2>4, <2>5
<1>2. CASE ~Known(id)
  <2>1. /\ configs' = Append(configs, entry)
        /\ configs' \in Seq(Entry)
        /\ Len(configs') = Len(configs) + 1
        /\ \A i \in 1 .. Len(configs) : configs'[i] = configs[i]
        /\ configs'[Len(configs) + 1] = entry
    BY <1>2, AppendProperties DEF UpsertConfig
  <2>2. \A i \in 1 .. Len(configs) : configs[i].id # id
    BY <1>2 DEF Known, HasId
  <2>3. UniqueIds'
    <3>1. SUFFICES ASSUME NEW i \in DOMAIN configs', NEW j \in DOMAIN configs',
                          configs'[i].id = configs'[j].id
                   PROVE  i = j
      BY DEF UniqueIds
    <3>2. i \in 1 .. Len(configs) + 1 /\ j \in 1 .. Len(configs) + 1
      BY <2>1
    <3>3. CASE i \in 1 .. Len(configs) /\ j \in 1 .. Len(configs)
      BY <2>1, <3>1, <3>3 DEF UniqueIds
    <3>4. CASE i = Len(configs) + 1 \/ j = Len(configs) + 1
      BY <2>1, <2>2, <3>1, <3>2, <3>4
    <3>5. QED
      BY <3>2, <3>3, <3>4
  <2>4. ASSUME NEW other, other # id
        PROVE  EntriesOf(other)' = EntriesOf(other)
    <3>1. HasId(other)' = HasId(other)
      BY <2>1, <2>4 DEF HasId
    <3>2. \A i \in HasId(other) : configs'[i] = configs[i]
      BY <2>1 DEF HasId
    <3>3. QED
      BY <3>1, <3>2 DEF EntriesOf
  <2>5. QED
    BY <2>1, <2>3, <2>4
<1>3. QED
  BY <1>1, <1>2

(* Erasing closes the gap: what was after it moves down by one. *)
LEMMA ErasedEntries ==
  ASSUME NEW entries \in Seq(Entry), NEW at \in 1 .. Len(entries),
         NEW left, left = EraseAt(entries, at)
  PROVE  /\ left \in Seq(Entry)
         /\ Len(left) = Len(entries) - 1
         /\ \A i \in 1 .. Len(entries) - 1 :
              left[i] = entries[IF i < at THEN i ELSE i + 1]
<1>1. PICK front : front = SubSeq(entries, 1, at - 1)
  OBVIOUS
<1>2. PICK back : back = SubSeq(entries, at + 1, Len(entries))
  OBVIOUS
<1>3. /\ front \in Seq(Entry)
      /\ Len(front) = at - 1
      /\ \A i \in 1 .. at - 1 : front[i] = entries[i]
  BY <1>1, SubSeqProperties
<1>4. /\ back \in Seq(Entry)
      /\ Len(back) = Len(entries) - at
      /\ \A i \in 1 .. Len(entries) - at : back[i] = entries[at + i]
  BY <1>2, SubSeqProperties
<1>5. left = front \o back
  BY <1>1, <1>2 DEF EraseAt
<1>6. /\ left \in Seq(Entry)
      /\ Len(left) = Len(front) + Len(back)
      /\ \A i \in 1 .. Len(front) + Len(back) :
           left[i] = IF i <= Len(front) THEN front[i] ELSE back[i - Len(front)]
  <2>1. front \in Seq(Entry) /\ back \in Seq(Entry)
    BY <1>3, <1>4
  <2>2. QED
    BY <1>5, <2>1, ConcatProperties
<1>7. /\ left \in Seq(Entry)
      /\ Len(left) = (at - 1) + (Len(entries) - at)
      /\ \A i \in 1 .. (at - 1) + (Len(entries) - at) :
           left[i] = IF i <= at - 1 THEN front[i] ELSE back[i - (at - 1)]
  BY <1>6, <1>3, <1>4
<1>8. ASSUME NEW i \in 1 .. Len(entries) - 1
      PROVE  left[i] = entries[IF i < at THEN i ELSE i + 1]
  <2>1. CASE i < at
    <3>1. i \in 1 .. at - 1
      BY <2>1
    <3>2. left[i] = front[i]
      BY <1>7, <2>1
    <3>3. QED
      BY <1>3, <2>1, <3>1, <3>2
  <2>2. CASE i >= at
    <3>1. left[i] = back[i - (at - 1)] /\ i - (at - 1) \in 1 .. Len(entries) - at
      BY <1>7, <2>2
    <3>2. at + (i - (at - 1)) = i + 1
      OBVIOUS
    <3>3. QED
      BY <1>4, <2>2, <3>1, <3>2
  <2>3. QED
    BY <2>1, <2>2
<1>9. Len(left) = Len(entries) - 1
  BY <1>7
<1>10. QED
  BY <1>7, <1>8, <1>9

LEMMA ReleasedConfigs ==
  ASSUME configs \in Seq(Entry), UniqueIds, NEW id, ReleaseConfig(id)
  PROVE  /\ configs' \in Seq(Entry)
         /\ UniqueIds'
         /\ \A other : other # id => EntriesOf(other)' = EntriesOf(other)
         /\ EntriesOf(id)' = {}
<1>1. CASE ~Known(id)
  <2>1. configs' = configs
    BY <1>1 DEF ReleaseConfig
  <2>2. QED
    BY <1>1, <2>1 DEF UniqueIds, EntriesOf, HasId, Known
<1>2. CASE Known(id)
  <2>1. PICK at \in 1 .. Len(configs) :
          /\ configs[at].id = id
          /\ HasId(id) = {at}
          /\ configs' = EraseAt(configs, at)
    BY <1>2, FoundConfig DEF ReleaseConfig
  <2> DEFINE From(i) == IF i < at THEN i ELSE i + 1
  <2>2. /\ configs' \in Seq(Entry)
        /\ Len(configs') = Len(configs) - 1
        /\ \A i \in 1 .. Len(configs') : configs'[i] = configs[From(i)]
    BY <2>1, ErasedEntries
  <2>3. \A i \in 1 .. Len(configs') : From(i) \in (1 .. Len(configs)) \ {at}
    BY <2>2
  <2>4. \A i, j \in 1 .. Len(configs') : From(i) = From(j) => i = j
    BY <2>2
  <2>5. \A k \in (1 .. Len(configs)) \ {at} : \E i \in 1 .. Len(configs') : From(i) = k
    <3>1. TAKE k \in (1 .. Len(configs)) \ {at}
    <3>2. CASE k < at
      <4>1. k \in 1 .. Len(configs') /\ From(k) = k
        BY <2>2, <3>2
      <4>2. QED
        BY <4>1
    <3>3. CASE k > at
      <4>1. k - 1 \in 1 .. Len(configs') /\ From(k - 1) = k
        BY <2>2, <3>3
      <4>2. QED
        BY <4>1
    <3>4. QED
      BY <3>2, <3>3
  <2> HIDE DEF From
  <2>6. UniqueIds'
    <3>1. SUFFICES ASSUME NEW i \in DOMAIN configs', NEW j \in DOMAIN configs',
                          configs'[i].id = configs'[j].id
                   PROVE  i = j
      BY DEF UniqueIds
    <3>2. i \in 1 .. Len(configs') /\ j \in 1 .. Len(configs')
      BY <2>2
    <3>3. /\ From(i) \in DOMAIN configs /\ From(j) \in DOMAIN configs
          /\ configs'[i] = configs[From(i)] /\ configs'[j] = configs[From(j)]
      BY <2>2, <2>3, <3>2
    <3>4. From(i) = From(j)
      BY <3>1, <3>3 DEF UniqueIds
    <3>5. QED
      BY <2>4, <3>2, <3>4
  <2>7. ASSUME NEW other, other # id
        PROVE  EntriesOf(other)' = EntriesOf(other)
    <3>1. ASSUME NEW i \in HasId(other)'
          PROVE  From(i) \in HasId(other) /\ configs'[i] = configs[From(i)]
      BY <2>2, <2>3, <3>1 DEF HasId
    <3>2. ASSUME NEW k \in HasId(other)
          PROVE  \E i \in HasId(other)' : configs'[i] = configs[k]
      <4>1. k \in (1 .. Len(configs)) \ {at} /\ configs[k].id = other
        BY <2>1, <2>7, <3>2 DEF HasId
      <4>2. PICK i \in 1 .. Len(configs') : From(i) = k
        BY <2>5, <4>1
      <4>3. QED
        BY <2>2, <4>1, <4>2 DEF HasId
    <3>3. QED
      BY <3>1, <3>2 DEF EntriesOf
  <2>8. EntriesOf(id)' = {}
    <3>1. \A i \in 1 .. Len(configs') : configs'[i].id # id
      BY <2>1, <2>2, <2>3 DEF HasId
    <3>2. QED
      BY <2>2, <3>1 DEF EntriesOf, HasId
  <2>9. QED
    BY <2>2, <2>6, <2>7, <2>8
<1>3. QED
  BY <1>1, <1>2

-----------------------------------------------------------------------------
(* The type invariant, one lemma per kind of export. *)

LEMMA EntriesHaveTheirId ==
  ASSUME NEW id, NEW entry \in EntriesFor(id)
  PROVE  entry.id = id
BY DEF EntriesFor, ResolveRegisteredConfig, MalformedEntry

LEMMA RegisterConfigSteps ==
  ASSUME IInv, NEW id \in ConfigIds, RegisterConfig(id)
  PROVE  /\ IInv'
         /\ \A other : other # id => EntriesOf(other)' = EntriesOf(other)
<1> DEFINE payload == IF shared = Nothing THEN Malformed ELSE shared.payload
<1>1. PICK entry : /\ entry = IF payload.parses
                              THEN ResolveRegisteredConfig(id, payload.plugin, payload.global)
                              ELSE MalformedEntry(id)
                   /\ UpsertConfig(id, entry)
  BY DEF RegisterConfig
<1>2. entry \in EntriesFor(id)
  <2>1. CASE shared = Nothing
    <3>1. payload = Malformed /\ ~payload.parses
      BY <2>1 DEF Malformed
    <3>2. QED
      BY <1>1, <3>1 DEF EntriesFor
  <2>2. CASE shared # Nothing
    <3>1. payload = shared.payload /\ shared.payload \in Payloads
      <4>1. shared.kind \in {"payload", "nothing"} /\ BufferOK
        BY DEF RegisterConfig, Holds, IInv, TypeOK, BufferOK
      <4>2. shared.kind = "payload" /\ shared.payload \in Payloads
        BY <2>2, <4>1, BufferKinds
      <4>3. QED
        BY <2>2, <4>2
    <3> HIDE DEF payload
    <3>2. QED
      BY <1>1, <3>1 DEF EntriesFor
  <2>3. QED
    BY <2>1, <2>2
<1>3. entry \in Entry /\ entry.id = id
  BY <1>2, EntriesHaveTheirId DEF Entry
<1>4. /\ configs' \in Seq(Entry)
      /\ UniqueIds'
      /\ \A other : other # id => EntriesOf(other)' = EntriesOf(other)
  BY <1>1, <1>3, UpsertedConfigs DEF IInv, TypeOK
<1>5. TypeOK'
  BY <1>4 DEF IInv, TypeOK, RegisterConfig, results
<1>6. QED
  BY <1>4, <1>5 DEF IInv

LEMMA ReleaseConfigSteps ==
  ASSUME IInv, NEW id \in ConfigIds, ReleaseConfig(id)
  PROVE  /\ IInv'
         /\ \A other : other # id => EntriesOf(other)' = EntriesOf(other)
         /\ EntriesOf(id)' = {}
<1>1. /\ configs' \in Seq(Entry)
      /\ UniqueIds'
      /\ \A other : other # id => EntriesOf(other)' = EntriesOf(other)
      /\ EntriesOf(id)' = {}
  BY ReleasedConfigs DEF IInv, TypeOK
<1>2. TypeOK'
  BY <1>1 DEF IInv, TypeOK, ReleaseConfig, results
<1>3. QED
  BY <1>1, <1>2 DEF IInv

LEMMA AnswerSteps ==
  ASSUME IInv, shared' \in Sendable \cup Answers,
         UNCHANGED <<configs, filePath, overrideConfig, results>>
  PROVE  IInv'
BY DEF IInv, TypeOK, UniqueIds, results

LEMMA ConfigAnswers ==
  ASSUME IInv, NEW id,
         GetConfigDiagnostics(id) \/ GetResolvedConfig(id)
  PROVE  IInv'
<1>1. ASSUME Known(id)
      PROVE  configs[FindConfig(id)] \in Entry
  <2>1. configs \in Seq(Entry) /\ FindConfig(id) \in 1 .. Len(configs)
    BY <1>1, FoundConfig DEF IInv, TypeOK
  <2>2. QED
    BY <2>1
<1> DEFINE found == configs[FindConfig(id)]
<1>2. CASE GetConfigDiagnostics(id)
  <2>1. shared' \in {DiagnosticBytes(e.diagnostics) : e \in Entry} \cup {DiagnosticBytes(<<>>)}
    <3>1. shared' = DiagnosticBytes(IF Known(id) THEN found.diagnostics ELSE <<>>)
      BY <1>2 DEF GetConfigDiagnostics
    <3> HIDE DEF found
    <3>2. Known(id) => found \in Entry
      BY <1>1 DEF found
    <3>3. QED
      BY <3>1, <3>2
  <2>2. shared' \in Answers
    BY <2>1 DEF Answers
  <2>3. QED
    BY <1>2, <2>2, AnswerSteps DEF GetConfigDiagnostics
<1>3. CASE GetResolvedConfig(id)
  <2>1. shared' \in {ResolvedBytes(e.resolved) : e \in Entry} \cup {ResolvedBytes(EmptyObject)}
    <3>1. shared' = ResolvedBytes(IF Known(id) THEN found.resolved ELSE EmptyObject)
      BY <1>3 DEF GetResolvedConfig
    <3> HIDE DEF found
    <3>2. Known(id) => found \in Entry
      BY <1>1 DEF found
    <3>3. QED
      BY <3>1, <3>2
  <2>2. shared' \in Answers
    BY <2>1 DEF Answers
  <2>3. QED
    BY <1>3, <2>2, AnswerSteps DEF GetResolvedConfig
<1>4. QED
  BY <1>2, <1>3

LEMMA ContextSteps ==
  ASSUME IInv, SetFilePath \/ SetOverrideConfig
  PROVE  IInv'
<1>1. BufferOK
  BY DEF IInv, TypeOK, BufferOK
<1>2. CASE SetFilePath
  <2>1. filePath' \in {NoPath} \cup NormalizedPaths
    <3>1. CASE shared = Nothing
      BY <1>2, <3>1 DEF SetFilePath
    <3>2. CASE shared # Nothing
      <4>1. shared.kind \in {"path", "nothing"}
        BY <1>2 DEF SetFilePath, Holds
      <4>2. shared.path \in Paths
        BY <1>1, <3>2, <4>1, BufferKinds
      <4>3. filePath' = NormalizeFilePath(shared.path)
        BY <1>2, <3>2 DEF SetFilePath
      <4>4. QED
        BY <4>2, <4>3 DEF NormalizedPaths
    <3>3. QED
      BY <3>1, <3>2
  <2>2. QED
    BY <1>2, <2>1 DEF IInv, TypeOK, UniqueIds, SetFilePath, results
<1>3. CASE SetOverrideConfig
  <2>1. overrideConfig' \in {Nothing} \cup {OverrideBytes(o) : o \in Overrides}
    <3>1. shared.kind \in {"override", "nothing"} /\ overrideConfig' = shared
      BY <1>3 DEF SetOverrideConfig, Holds
    <3>2. shared = Nothing \/ \E o \in Overrides : shared = OverrideBytes(o)
      BY <1>1, <3>1, BufferKinds
    <3>3. QED
      BY <3>1, <3>2
  <2>2. QED
    BY <1>3, <2>1 DEF IInv, TypeOK, UniqueIds, SetOverrideConfig, results
<1>4. QED
  BY <1>2, <1>3

(* The text that is formatted is a text, so that one that comes out equal  *)
(* is one too.                                                             *)
LEMMA FormatSteps ==
  ASSUME IInv, NEW id, NEW start, NEW end, FormatInner(id, start, end)
  PROVE  IInv' /\ ResultsMatchCode' /\ configs' = configs
<1>1. /\ shared' = Nothing
      /\ overrideConfig' = Nothing
      /\ UNCHANGED <<configs, filePath>>
  BY DEF FormatInner, FormatInvalidRange, FormatUnknownId, FormatFound, ConsumesRequest
<1>2. /\ formatted' \in Texts
      /\ error' \in {NoError} \cup Messages
      /\ code' \in {0, 1, 2}
      /\ ResultsMatchCode'
  <2>1. ASSUME NEW message \in Messages, Fails(message)
        PROVE  <1>2!:
    BY <2>1, SetsAssumption DEF Fails, ResultsMatchCode
  <2>2. \A message \in {"invalid format range", "unknown config id",
                        "failed to apply replacements"} : message \in Messages
    BY DEF Messages
  <2>3. ASSUME NEW output, Produces(Input, output)
        PROVE  <1>2!:
    <3>1. CASE output \notin Texts
      BY <2>1, <2>2, <2>3, <3>1 DEF Produces
    <3>2. CASE output \in Texts
      BY <2>3, <3>2, SetsAssumption DEF Produces, ResultsMatchCode
    <3>3. QED
      BY <3>1, <3>2
  <2>4. CASE FormatInvalidRange(start, end)
    BY <2>1, <2>2, <2>4 DEF FormatInvalidRange
  <2>5. CASE FormatUnknownId(id, start, end)
    BY <2>1, <2>2, <2>5 DEF FormatUnknownId
  <2>6. CASE FormatFound(id, start, end)
    BY <2>3, <2>6 DEF FormatFound
  <2>7. QED
    BY <2>4, <2>5, <2>6 DEF FormatInner
<1>3. TypeOK'
  BY <1>1, <1>2 DEF IInv, TypeOK
<1>4. UniqueIds'
  BY <1>1 DEF IInv, UniqueIds
<1>5. QED
  BY <1>1, <1>2, <1>3, <1>4 DEF IInv

LEMMA FetchSteps ==
  ASSUME IInv, GetFormattedText \/ GetErrorText
  PROVE  IInv'
<1>1. CASE GetFormattedText
  <2>1. shared' \in Sendable /\ formatted' \in Texts
    BY <1>1, SetsAssumption DEF GetFormattedText, Sendable, IInv, TypeOK
  <2>2. QED
    BY <1>1, <2>1 DEF IInv, TypeOK, UniqueIds, GetFormattedText
<1>2. CASE GetErrorText
  <2>1. shared' \in {Nothing} \cup Answers
    <3>1. CASE error = NoError
      BY <1>2, <3>1 DEF GetErrorText, ErrorBytes
    <3>2. CASE error \in Messages
      BY <1>2, <3>2 DEF GetErrorText, Answers
    <3>3. QED
      BY <3>1, <3>2 DEF IInv, TypeOK
  <2>2. QED
    BY <1>2, <2>1 DEF IInv, TypeOK, UniqueIds, GetErrorText
<1>3. QED
  BY <1>1, <1>2

-----------------------------------------------------------------------------
(* The theorems. *)

LEMMA InitIInv == Init => IInv
BY SetsAssumption DEF Init, IInv, TypeOK, UniqueIds

LEMMA NextIInv == IInv /\ [Next]_vars => IInv'
<1> SUFFICES ASSUME IInv, [Next]_vars PROVE IInv'
  OBVIOUS
<1>1. ASSUME NEW bytes \in Sendable, HostSends(bytes)
      PROVE  IInv'
  BY <1>1, AnswerSteps DEF HostSends
<1>2. ASSUME NEW which \in StaticAnswers, StaticAnswer(which)
      PROVE  IInv'
  BY <1>2, AnswerSteps DEF StaticAnswer, Answers
<1>3. ASSUME NEW id \in ConfigIds,
             RegisterConfig(id) \/ ReleaseConfig(id)
               \/ GetConfigDiagnostics(id) \/ GetResolvedConfig(id)
      PROVE  IInv'
  BY <1>3, RegisterConfigSteps, ReleaseConfigSteps, ConfigAnswers
<1>4. CASE SetFilePath \/ SetOverrideConfig
  BY <1>4, ContextSteps
<1>5. CASE Formats
  BY <1>5, FormatSteps DEF Formats, Format, FormatRange
<1>6. CASE GetFormattedText \/ GetErrorText
  BY <1>6, FetchSteps
<1>7. CASE UNCHANGED vars
  BY <1>7 DEF IInv, TypeOK, UniqueIds, vars, results
<1>8. QED
  BY <1>1, <1>2, <1>3, <1>4, <1>5, <1>6, <1>7 DEF Next

LEMMA SpecIInv == Spec => []IInv
BY InitIInv, NextIInv, PTL DEF Spec

(* The process state has its type: the buffer holds what was sent or an    *)
(* answer, and every entry is the one some payload registers.              *)
THEOREM TypeCorrect == Spec => []TypeOK
BY SpecIInv, PTL DEF IInv

(* However many configurations are registered, over one another and        *)
(* released, no id ever has two entries.                                   *)
THEOREM IdsStayUnique == Spec => []UniqueIds
BY SpecIInv, PTL DEF IInv

(* Nothing given at all resolves to LLVM's style, as it is. *)
LEMMA EmptyObjectsResolve ==
  ASSUME NEW m, m = Merged(EmptyObject, EmptyObject, EmptyObject),
         NEW r, r = ResolveFormatStyle(EmptyObject, EmptyObject, EmptyObject)
  PROVE  /\ r.style = LLVMStyle
         /\ r.resolved = EmptyObject
         /\ r.valid
<1>1. PICK m0 : m0 = [options |-> EmptyObject, diagnostics |-> <<>>]
  OBVIOUS
<1>2. \A merge : merge = m0 => MergeObjectOptions(EmptyObject, merge) = m0
  BY <1>1 DEF MergeObjectOptions, EmptyObject
<1>3. \A merge : MergeGlobalOptions(EmptyObject, merge) = merge
  BY DEF MergeGlobalOptions, TakeNumber, TakeUseTabs, Applies, EmptyObject
<1>4. RejectFilesystemStyle(m0) = m0
  BY <1>1 DEF RejectFilesystemStyle, NamesOneOf, EmptyObject
<1>5. m = m0
  BY <1>1, <1>2, <1>3, <1>4 DEF Merged
<1>6. m.options = EmptyObject /\ DOMAIN m.options = {}
  BY <1>1, <1>5 DEF EmptyObject
<1>7. QED
  BY <1>6 DEF ResolveFormatStyle

LEMMA EntriesAreFresh ==
  ASSUME NEW entry \in Entry,
         NEW fresh, fresh = ResolveFormatStyle(entry.plugin, entry.global, EmptyObject)
  PROVE  /\ entry.style = fresh.style
         /\ entry.resolved = fresh.resolved
         /\ entry.valid => fresh.valid
         /\ entry.diagnostics = <<>> => entry.valid
<1>1. PICK id \in ConfigIds : entry \in EntriesFor(id)
  BY DEF Entry
<1>2. CASE entry = MalformedEntry(id)
  <2>1. /\ entry.plugin = EmptyObject
        /\ entry.global = EmptyObject
        /\ entry.style = LLVMStyle
        /\ entry.resolved = EmptyObject
        /\ ~entry.valid
        /\ entry.diagnostics # <<>>
    BY <1>2 DEF MalformedEntry
  <2>2. fresh.style = LLVMStyle /\ fresh.resolved = EmptyObject
    BY <2>1, EmptyObjectsResolve
  <2>3. QED
    BY <2>1, <2>2
<1>3. CASE \E payload \in Payloads :
             entry = ResolveRegisteredConfig(id, payload.plugin, payload.global)
  <2>1. PICK payload \in Payloads :
          entry = ResolveRegisteredConfig(id, payload.plugin, payload.global)
    BY <1>3
  <2>2. entry.plugin = payload.plugin /\ entry.global = payload.global
    BY <2>1 DEF ResolveRegisteredConfig
  <2>3. /\ entry.style = fresh.style
        /\ entry.resolved = fresh.resolved
        /\ entry.valid = fresh.valid
        /\ entry.diagnostics = fresh.diagnostics
    BY <2>1, <2>2 DEF ResolveRegisteredConfig
  <2>4. fresh.diagnostics = <<>> => fresh.valid
    BY ResolveCases
  <2>5. QED
    BY <2>3, <2>4
<1>4. QED
  BY <1>1, <1>2, <1>3 DEF EntriesFor

(* The style and the resolved options an entry has kept since it was       *)
(* registered are those that resolving it again gives, at any time.        *)
THEOREM CacheStaysFresh == Spec => []CacheIsFresh
<1>1. TypeOK => CacheIsFresh
  <2>1. SUFFICES ASSUME TypeOK, NEW i \in DOMAIN configs
                 PROVE  LET entry == configs[i]
                            fresh == ResolveFormatStyle(entry.plugin, entry.global,
                                                        EmptyObject)
                        IN /\ entry.style = fresh.style
                           /\ entry.resolved = fresh.resolved
                           /\ entry.valid => fresh.valid
                           /\ entry.diagnostics = <<>> => entry.valid
    BY DEF CacheIsFresh
  <2>2. configs[i] \in Entry
    BY <2>1 DEF TypeOK
  <2>3. QED
    BY <2>2, EntriesAreFresh
<1>2. QED
  BY <1>1, TypeCorrect, PTL

(* No request, whatever is registered and whatever override is pending,    *)
(* is formatted with a style that names a file.                            *)
THEOREM NoStyleNeedsFiles == Spec => []StylesNeedNoFiles
<1>1. TypeOK => StylesNeedNoFiles
  <2>1. SUFFICES ASSUME TypeOK, NEW i \in DOMAIN configs, NEW text \in Texts
                 PROVE  ~NamesOneOf(StyleForFormat(configs[i], text).options,
                                    FilesystemStyles)
    BY DEF StylesNeedNoFiles
  <2>2. PICK entry \in Entry : entry = configs[i]
    BY <2>1 DEF TypeOK
  <2>3. ~NamesOneOf(entry.style.options, FilesystemStyles)
    <3>1. PICK fresh : fresh = ResolveFormatStyle(entry.plugin, entry.global, EmptyObject)
      OBVIOUS
    <3>2. entry.style = fresh.style
      BY <3>1, EntriesAreFresh
    <3>3. QED
      BY <3>1, <3>2, ResolvedNeedsNoFile
  <2>4. PICK resolved : resolved =
          ResolveFormatStyle(entry.plugin, entry.global, OverrideOptions)
    OBVIOUS
  <2>5. ~NamesOneOf(resolved.style.options, FilesystemStyles)
    BY <2>4, ResolvedNeedsNoFile
  <2>6. \E options : resolved.style = StyleOf(options)
    BY <2>4, ResolveCases DEF LLVMStyle
  <2>7. [resolved.style EXCEPT !.language = GuessLanguage(filePath, text)].options
          = resolved.style.options
    BY <2>6 DEF StyleOf
  <2>8. StyleForFormat(configs[i], text).options
          \in {entry.style.options, resolved.style.options}
    BY <2>2, <2>4, <2>7 DEF StyleForFormat
  <2>9. QED
    BY <2>3, <2>5, <2>8
<1>2. QED
  BY <1>1, TypeCorrect, PTL

(* What can be fetched is what the last return code announced.             *)
THEOREM ResultsAlwaysMatchCode == Spec => []ResultsMatchCode
<1>1. Init => ResultsMatchCode
  BY DEF Init, ResultsMatchCode
<1>2. IInv /\ ResultsMatchCode /\ [Next]_vars => ResultsMatchCode'
  <2> SUFFICES ASSUME IInv, ResultsMatchCode, [Next]_vars PROVE ResultsMatchCode'
    OBVIOUS
  <2>1. CASE Formats
    BY <2>1, FormatSteps DEF Formats, Format, FormatRange
  <2>2. CASE GetFormattedText
    BY <2>2 DEF GetFormattedText, ResultsMatchCode
  <2>3. CASE GetErrorText
    BY <2>3 DEF GetErrorText, ResultsMatchCode
  <2>4. CASE UNCHANGED results
    BY <2>4 DEF results, ResultsMatchCode
  <2>5. \/ Formats \/ GetFormattedText \/ GetErrorText \/ UNCHANGED results
    BY DEF Next, vars, results, HostSends, StaticAnswer, RegisterConfig, ReleaseConfig,
           GetConfigDiagnostics, GetResolvedConfig, SetFilePath, SetOverrideConfig
  <2>6. QED
    BY <2>1, <2>2, <2>3, <2>4, <2>5
<1>3. QED
  BY <1>1, <1>2, SpecIInv, PTL DEF Spec

(* Registering or releasing one id leaves the entries of all others, and   *)
(* releasing leaves none of its own.                                       *)
THEOREM ConfigsAreIndependent == Spec => OneConfigAtATime
<1>1. IInv /\ [Next]_vars =>
        [\A id \in ConfigIds :
           /\ RegisterConfig(id) \/ ReleaseConfig(id) =>
                \A other \in ConfigIds \ {id} : EntriesOf(other)' = EntriesOf(other)
           /\ ReleaseConfig(id) => EntriesOf(id)' = {}]_vars
  BY RegisterConfigSteps, ReleaseConfigSteps
<1>2. QED
  BY <1>1, SpecIInv, PTL DEF Spec, OneConfigAtATime

(* No return of format_inner, early or late, leaves an override behind.    *)
THEOREM OverridesServeOnce == Spec => OverrideServesOnce
<1>1. [Next]_vars => [overrideConfig' # Nothing => ~Formats]_vars
  <2>1. \A id, start, end : FormatInner(id, start, end) => overrideConfig' = Nothing
    BY DEF FormatInner, FormatInvalidRange, FormatUnknownId, FormatFound, ConsumesRequest
  <2>2. Formats => overrideConfig' = Nothing
    BY <2>1 DEF Formats, Format, FormatRange
  <2>3. QED
    BY <2>2
<1>2. QED
  BY <1>1, PTL DEF Spec, OverrideServesOnce


-----------------------------------------------------------------------------
(* The inductive invariant.                                                *)

Steps == {"idle", "register", "path", "send override", "override",
          "send text", "format", "fetch", "read text", "read error"}

(* The host is at work on one of its requests, or on none. *)
AtWork ==
  /\ host \in Hosts
  /\ step \in Steps
  /\ step = "register" => task.id \in ConfigIds
  /\ step \notin {"idle", "register"} => task \in host.requests

(* Between the host's writing and the call that takes it, the buffer holds *)
(* what the host wrote.                                                    *)
BufferKnown ==
  /\ step = "register" => \E payload \in Payloads : shared = PayloadBytes(payload)
  /\ step = "path" => shared = IF task.path = NoPath THEN Nothing
                               ELSE PathBytes(task.path)
  /\ step = "override" => shared = task.override
  /\ step = "format" => shared = TextBytes(task.text)

(* The path is that of the request, once it has been set. *)
PathKnown ==
  step \in {"send override", "override", "send text", "format"}
    => filePath = Service!Slashes(task.path)

(* So is the override; a host that sets none for some requests leaves none *)
(* behind either.                                                          *)
OverrideKnown ==
  /\ step \in {"send text", "format"} => overrideConfig = task.override
  /\ ~host.alwaysSetsOverride /\ step \notin {"send text", "format"}
       => overrideConfig = Nothing

(* What the request in work should be answered, by the abstract service.   *)
Deserved ==
  IF ~Service!RangeIn(task) THEN Service!Failed(task, "invalid format range")
  ELSE IF task.id \notin DOMAIN Registered THEN Service!Failed(task, "unknown config id")
  ELSE Service!Answer(Registered[task.id], task)

(* After format, it is what the code and the results announce; and it is   *)
(* what the fetch left in the buffer.                                      *)
AnswerKnown ==
  /\ step = "fetch" =>
       \/ code = 0 /\ error = NoError /\ Deserved = Service!Unchanged(task)
       \/ code = 1 /\ error = NoError /\ Deserved = Service!Changed(task, formatted)
       \/ code = 2 /\ error \in Messages /\ Deserved = Service!Failed(task, error)
  /\ step = "read text" => Holds("text") /\ Deserved = Service!Changed(task, Input)
  /\ step = "read error" => /\ shared.kind = "error"
                            /\ Deserved = Service!Failed(task, shared.error)

SInv == IInv /\ AtWork /\ BufferKnown /\ PathKnown /\ OverrideKnown /\ AnswerKnown

-----------------------------------------------------------------------------
(* The abstract configurations. *)

Kept(entry) == [plugin |-> entry.plugin, global |-> entry.global]

(* What is registered is the one entry there is for each id. *)
RegisteredRight ==
  /\ Registered = [id \in DOMAIN Registered |-> Registered[id]]
  /\ DOMAIN Registered \subseteq ConfigIds
  /\ \A id \in ConfigIds :
       IF id \in DOMAIN Registered
       THEN \E entry \in Entry : /\ EntriesOf(id) = {entry}
                                 /\ Registered[id] = Kept(entry)
       ELSE EntriesOf(id) = {}

LEMMA RegisteredIsRight == IInv => RegisteredRight
<1> SUFFICES ASSUME IInv PROVE RegisteredRight
  OBVIOUS
<1>1. ASSUME NEW id \in ConfigIds, Known(id)
      PROVE  /\ id \in DOMAIN Registered
             /\ \E entry \in Entry : EntriesOf(id) = {entry} /\ Registered[id] = Kept(entry)
  <2>1. /\ FindConfig(id) \in 1 .. Len(configs) /\ configs \in Seq(Entry)
        /\ HasId(id) = {FindConfig(id)}
    BY <1>1, FoundConfig DEF IInv, TypeOK
  <2>2. EntriesOf(id) = {configs[FindConfig(id)]} /\ configs[FindConfig(id)] \in Entry
    BY <2>1 DEF EntriesOf
  <2>3. id \in DOMAIN Registered /\ Registered[id] = Kept(configs[FindConfig(id)])
    BY <1>1 DEF Registered, Kept
  <2>4. QED
    BY <2>2, <2>3
<1>2. ASSUME NEW id \in ConfigIds, ~Known(id)
      PROVE  id \notin DOMAIN Registered /\ EntriesOf(id) = {}
  BY <1>2 DEF Registered, Known, EntriesOf
<1>3. /\ DOMAIN Registered \subseteq ConfigIds
      /\ Registered = [id \in DOMAIN Registered |-> Registered[id]]
  BY DEF Registered
<1>4. QED
  BY <1>1, <1>2, <1>3 DEF RegisteredRight

LEMMA RegisteredIsRightNext == (IInv => RegisteredRight)'
BY RegisteredIsRight, PTL

LEMMA UpsertedEntry ==
  ASSUME configs \in Seq(Entry), UniqueIds, NEW id, NEW entry \in Entry,
         entry.id = id, UpsertConfig(id, entry)
  PROVE  EntriesOf(id)' = {entry}
<1>1. CASE Known(id)
  <2>1. PICK at \in 1 .. Len(configs) :
          HasId(id) = {at} /\ configs' = [configs EXCEPT ![at] = entry]
    BY <1>1, FoundConfig DEF UpsertConfig
  <2>2. /\ DOMAIN configs' = DOMAIN configs /\ configs'[at] = entry
        /\ \A i \in DOMAIN configs : i # at => configs'[i] = configs[i]
    BY <2>1
  <2>3. HasId(id)' = {at}
    BY <2>1, <2>2 DEF HasId
  <2>4. QED
    BY <2>2, <2>3 DEF EntriesOf
<1>2. CASE ~Known(id)
  <2>1. /\ configs' = Append(configs, entry)
        /\ Len(configs') = Len(configs) + 1
        /\ configs' \in Seq(Entry)
        /\ \A i \in 1 .. Len(configs) : configs'[i] = configs[i]
        /\ configs'[Len(configs) + 1] = entry
    BY <1>2, AppendProperties DEF UpsertConfig
  <2>2. \A i \in 1 .. Len(configs) : configs[i].id # id
    BY <1>2 DEF Known, HasId
  <2>3. HasId(id)' = {Len(configs) + 1}
    BY <2>1, <2>2 DEF HasId
  <2>4. QED
    BY <2>1, <2>3 DEF EntriesOf
<1>3. QED
  BY <1>1, <1>2

(* Registering puts a configuration under its id. *)
LEMMA RegistrationMaps ==
  ASSUME IInv, NEW id \in ConfigIds, RegisterConfig(id)
  PROVE  /\ IInv'
         /\ \E config \in Configs : Registered' = Put(Registered, id, config)
<1> DEFINE payload == IF shared = Nothing THEN Malformed ELSE shared.payload
<1>1. PICK entry : /\ entry = IF payload.parses
                              THEN ResolveRegisteredConfig(id, payload.plugin, payload.global)
                              ELSE MalformedEntry(id)
                   /\ UpsertConfig(id, entry)
  BY DEF RegisterConfig
<1>2. payload = Malformed \/ payload \in Payloads
  <2>1. shared.kind \in {"payload", "nothing"} /\ BufferOK
    BY DEF RegisterConfig, Holds, IInv, TypeOK, BufferOK
  <2>2. shared # Nothing => shared.payload \in Payloads
    BY <2>1, BufferKinds
  <2>3. QED
    BY <2>2
<1> HIDE DEF payload
<1>3. entry \in EntriesFor(id) /\ Kept(entry) \in Configs
  <2>1. CASE payload.parses
    <3>1. payload \in Payloads
      BY <1>2, <2>1 DEF Malformed
    <3>2. entry = ResolveRegisteredConfig(id, payload.plugin, payload.global)
      BY <1>1, <2>1
    <3>3. Kept(entry) = [plugin |-> payload.plugin, global |-> payload.global]
      BY <3>2 DEF Kept, ResolveRegisteredConfig
    <3>4. QED
      BY <2>1, <3>1, <3>2, <3>3 DEF EntriesFor, Configs
  <2>2. CASE ~payload.parses
    <3>1. entry = MalformedEntry(id)
      BY <1>1, <2>2
    <3>2. Kept(entry) = [plugin |-> EmptyObject, global |-> EmptyObject]
      BY <3>1 DEF Kept, MalformedEntry
    <3>3. QED
      BY <3>1, <3>2 DEF EntriesFor, Configs
  <2>3. QED
    BY <2>1, <2>2
<1>4. entry \in Entry /\ entry.id = id
  BY <1>3, EntriesHaveTheirId DEF Entry
<1>5. EntriesOf(id)' = {entry}
  BY <1>1, <1>4, UpsertedEntry DEF IInv, TypeOK
<1>6. IInv' /\ \A other : other # id => EntriesOf(other)' = EntriesOf(other)
  BY RegisterConfigSteps
<1>7. RegisteredRight /\ RegisteredRight'
  BY <1>6, RegisteredIsRight, RegisteredIsRightNext
<1>8. id \in DOMAIN Registered' /\ Registered'[id] = Kept(entry)
  BY <1>5, <1>7 DEF RegisteredRight
<1>9. ASSUME NEW other \in ConfigIds, other # id
      PROVE  /\ other \in DOMAIN Registered' <=> other \in DOMAIN Registered
             /\ other \in DOMAIN Registered => Registered'[other] = Registered[other]
  BY <1>6, <1>7, <1>9 DEF RegisteredRight
<1>10. Registered' = Put(Registered, id, Kept(entry))
  <2>1. DOMAIN Registered' = DOMAIN Registered \cup {id}
    BY <1>7, <1>8, <1>9 DEF RegisteredRight
  <2>2. Registered' = [i \in DOMAIN Registered' |-> Registered'[i]]
    BY <1>7 DEF RegisteredRight
  <2>3. \A i \in DOMAIN Registered' :
          Registered'[i] = IF i = id THEN Kept(entry) ELSE Registered[i]
    BY <1>7, <1>8, <1>9 DEF RegisteredRight
  <2> HIDE DEF Registered
  <2>4. QED
    BY <2>1, <2>2, <2>3 DEF Put
<1>11. QED
  BY <1>3, <1>6, <1>10

(* Releasing takes it away. *)
LEMMA ReleaseMaps ==
  ASSUME IInv, NEW id \in ConfigIds, ReleaseConfig(id)
  PROVE  /\ IInv'
         /\ Registered' = [i \in DOMAIN Registered \ {id} |-> Registered[i]]
<1>1. /\ IInv' /\ EntriesOf(id)' = {}
      /\ \A other : other # id => EntriesOf(other)' = EntriesOf(other)
  BY ReleaseConfigSteps
<1>2. RegisteredRight /\ RegisteredRight'
  BY <1>1, RegisteredIsRight, RegisteredIsRightNext
<1>3. id \notin DOMAIN Registered'
  BY <1>1, <1>2 DEF RegisteredRight
<1>4. ASSUME NEW other \in ConfigIds, other # id
      PROVE  /\ other \in DOMAIN Registered' <=> other \in DOMAIN Registered
             /\ other \in DOMAIN Registered => Registered'[other] = Registered[other]
  BY <1>1, <1>2, <1>4 DEF RegisteredRight
<1>5. DOMAIN Registered' = DOMAIN Registered \ {id}
  BY <1>2, <1>3, <1>4 DEF RegisteredRight
<1>6. Registered' = [i \in DOMAIN Registered' |-> Registered'[i]]
  BY <1>2 DEF RegisteredRight
<1>7. \A i \in DOMAIN Registered' : Registered'[i] = Registered[i]
  BY <1>2, <1>4, <1>5 DEF RegisteredRight
<1>8. QED
  BY <1>1, <1>5, <1>6, <1>7

LEMMA RegisteredStays ==
  ASSUME configs' = configs PROVE Registered' = Registered
BY DEF Registered, Known, FindConfig, HasId

LEMMA DeservedStays ==
  ASSUME configs' = configs, task' = task PROVE Deserved' = Deserved
<1>1. Registered' = Registered
  BY RegisteredStays
<1>2. QED
  BY <1>1 DEF Deserved

-----------------------------------------------------------------------------
(* The answer to a request. *)

LEMMA RequestParts ==
  ASSUME NEW request \in Requests
  PROVE  /\ request.id \in ConfigIds
         /\ request.path = NoPath \/ request.path \in Paths
         /\ request.override \in {Nothing} \cup {OverrideBytes(o) : o \in Overrides}
         /\ request.text \in Texts
         /\ request.ranged \in BOOLEAN
         /\ ~request.ranged => request.start = 0 /\ request.end = Length(request.text)
BY RequestsAssumption

LEMMA SlashesKeepPaths ==
  ASSUME NEW path, path = NoPath \/ path \in Paths
  PROVE  /\ NormalizeFilePath(path) = Service!Slashes(path)
         /\ Service!Slashes(path) = NoPath <=> path = NoPath
<1>1. NormalizeFilePath(path) = Service!Slashes(path)
  BY DEF NormalizeFilePath, Service!Slashes
<1>2. path \in Seq(STRING)
  <2>1. NoPath \in Seq(STRING)
    BY DEF NoPath
  <2>2. QED
    BY <2>1, PathsAssumption
<1>3. DOMAIN Service!Slashes(path) = DOMAIN path
  BY DEF Service!Slashes
<1>4. CASE path = NoPath
  <2>1. DOMAIN path = {}
    BY <1>4 DEF NoPath
  <2>2. Service!Slashes(path) = [i \in {} |-> path[i]]
    BY <2>1 DEF Service!Slashes
  <2>3. Service!Slashes(path) = <<>>
    BY <2>2
  <2>4. QED
    BY <1>1, <1>4, <2>3 DEF NoPath
<1>5. CASE path # NoPath
  <2>1. DOMAIN path # {}
    <3>1. path # <<>>
      BY <1>5 DEF NoPath
    <3>2. Len(path) > 0 /\ DOMAIN path = 1 .. Len(path) /\ Len(path) \in Nat
      BY <1>2, <3>1, EmptySeq
    <3>3. QED
      BY <3>2
  <2>2. DOMAIN NoPath = {}
    BY DEF NoPath
  <2>3. QED
    BY <1>1, <1>3, <1>5, <2>1, <2>2
<1>6. QED
  BY <1>4, <1>5

LEMMA InputIsText ==
  ASSUME NEW text \in Texts, shared = TextBytes(text)
  PROVE  Input = text /\ Holds("text")
<1>1. CASE text = EmptyText
  BY <1>1 DEF TextBytes, Input, Holds, Nothing
<1>2. CASE text # EmptyText
  <2>1. shared = [kind |-> "text", text |-> text]
    BY <1>2 DEF TextBytes
  <2>2. shared.kind = "text" /\ shared.text = text /\ shared # Nothing
    BY <2>1 DEF Nothing
  <2>3. QED
    BY <2>2 DEF Input, Holds
<1>3. QED
  BY <1>1, <1>2

LEMMA OverrideAgrees ==
  ASSUME NEW override \in {Nothing} \cup {OverrideBytes(o) : o \in Overrides},
         overrideConfig = override
  PROVE  OverrideOptions = Service!OptionsOf(override)
<1>1. CASE override = Nothing
  BY <1>1 DEF OverrideOptions, Service!OptionsOf, Nothing, EmptyObject, Service!EmptyObject
<1>2. CASE \E o \in Overrides : override = OverrideBytes(o)
  <2>1. override.kind = "override" /\ override # Nothing
    BY <1>2 DEF OverrideBytes, Nothing
  <2>2. QED
    BY <2>1 DEF OverrideOptions, Service!OptionsOf, EmptyObject, Service!EmptyObject
<1>3. QED
  BY <1>1, <1>2

(* The abstract service resolves a style in the same way: its copies of    *)
(* the operators of FormatStyle are the operators themselves.              *)
LEMMA ServiceSpeaksJson ==
  /\ Service!EmptyObject = EmptyObject
  /\ \A value : /\ Service!IsBool(value) <=> IsBool(value)
                /\ Service!BoolOf(value) = BoolOf(value)
                /\ Service!IsNumber(value) <=> IsNumber(value)
                /\ Service!HalvesOf(value) = HalvesOf(value)
                /\ Service!TabStyle(value) = TabStyle(value)
  /\ \A halves : Service!Number(Service!Truncate(halves)) = Number(Truncate(halves))
<1>1. Service!EmptyObject = EmptyObject
  BY DEF Service!EmptyObject, EmptyObject, Service!Null, Null
<1>2. \A value : /\ Service!IsBool(value) <=> IsBool(value)
                 /\ Service!BoolOf(value) = BoolOf(value)
                 /\ Service!IsNumber(value) <=> IsNumber(value)
                 /\ Service!HalvesOf(value) = HalvesOf(value)
                 /\ Service!TabStyle(value) = TabStyle(value)
  BY DEF Service!IsBool, IsBool, Service!BoolOf, BoolOf, Service!IsNumber, IsNumber,
         Service!HalvesOf, HalvesOf, Service!TabStyle, TabStyle, Service!Str, Str
<1>3. \A halves : Service!Number(Service!Truncate(halves)) = Number(Truncate(halves))
  BY DEF Service!Number, Number, Service!Truncate, Truncate
<1>4. QED
  BY <1>1, <1>2, <1>3

LEMMA ServiceMerges ==
  ASSUME NEW source, NEW merge
  PROVE  /\ Service!MergeObjectOptions(source, merge) = MergeObjectOptions(source, merge)
         /\ Service!MergeGlobalOptions(source, merge) = MergeGlobalOptions(source, merge)
         /\ Service!RejectFilesystemStyle(merge) = RejectFilesystemStyle(merge)
<1>1. \A m, key, value : Service!WithOption(m, key, value) = WithOption(m, key, value)
  BY DEF Service!WithOption, WithOption, Service!Put, Put
<1>2. \A m, name : Service!WithDiagnostic(m, name) = WithDiagnostic(m, name)
  BY DEF Service!WithDiagnostic, WithDiagnostic
<1>3. \A g, key, options, clangKey :
        Service!Applies(g, key, options, clangKey) <=> Applies(g, key, options, clangKey)
  BY DEF Service!Applies, Applies, Service!Null, Null
<1>4. \A m, key, clangKey :
        Service!TakeNumber(key, clangKey, source, m) = TakeNumber(key, clangKey, source, m)
  BY <1>1, <1>2, <1>3, ServiceSpeaksJson DEF Service!TakeNumber, TakeNumber
<1>5. \A m : Service!TakeUseTabs(source, m) = TakeUseTabs(source, m)
  BY <1>1, <1>2, <1>3, ServiceSpeaksJson DEF Service!TakeUseTabs, TakeUseTabs
<1>6. Service!MergeGlobalOptions(source, merge) = MergeGlobalOptions(source, merge)
  BY <1>4, <1>5 DEF Service!MergeGlobalOptions, MergeGlobalOptions
<1>7. Service!MergeObjectOptions(source, merge) = MergeObjectOptions(source, merge)
  BY DEF Service!MergeObjectOptions, MergeObjectOptions
<1>8. Service!RejectFilesystemStyle(merge) = RejectFilesystemStyle(merge)
  BY <1>2 DEF Service!RejectFilesystemStyle, RejectFilesystemStyle,
              Service!NamesOneOf, NamesOneOf, Service!Str, Str
<1>9. QED
  BY <1>6, <1>7, <1>8

LEMMA ServiceResolves ==
  ASSUME NEW plugin, NEW global, NEW override
  PROVE  Service!ResolveFormatStyle(plugin, global, override)
           = ResolveFormatStyle(plugin, global, override)
<1>1. Service!Merged(plugin, global, override) = Merged(plugin, global, override)
  BY ServiceMerges, ServiceSpeaksJson DEF Service!Merged, Merged
<1>2. Service!LLVMStyle = LLVMStyle /\ \A options : Service!StyleOf(options) = StyleOf(options)
  BY ServiceSpeaksJson DEF Service!LLVMStyle, LLVMStyle, Service!StyleOf, StyleOf
<1>3. QED
  BY <1>1, <1>2 DEF Service!ResolveFormatStyle, ResolveFormatStyle

(* style_for_format arrives at the style the request alone asks for. *)
LEMMA StyleAgrees ==
  ASSUME NEW request \in Requests, NEW entry \in Entry,
         filePath = Service!Slashes(request.path),
         overrideConfig = request.override
  PROVE  StyleForFormat(entry, request.text) = Service!StyleFor(Kept(entry), request)
<1>1. OverrideOptions = Service!OptionsOf(request.override)
  BY RequestParts, OverrideAgrees
<1>2. entry.style = ResolveFormatStyle(entry.plugin, entry.global, EmptyObject).style
  BY EntriesAreFresh
<1>3. filePath = NoPath <=> request.path = <<>>
  BY RequestParts, SlashesKeepPaths DEF NoPath
<1>4. Kept(entry).plugin = entry.plugin /\ Kept(entry).global = entry.global
  BY DEF Kept
<1>5. QED
  BY <1>1, <1>2, <1>3, <1>4, ServiceResolves, ServiceSpeaksJson
     DEF StyleForFormat, Service!StyleFor

(* format_inner leaves in code and results what the request deserves. *)
LEMMA FormatAnswers ==
  ASSUME IInv, task \in Requests,
         filePath = Service!Slashes(task.path),
         overrideConfig = task.override,
         shared = TextBytes(task.text),
         FormatInner(task.id, task.start, task.end)
  PROVE  \/ code' = 0 /\ error' = NoError /\ Deserved = Service!Unchanged(task)
         \/ code' = 1 /\ error' = NoError /\ Deserved = Service!Changed(task, formatted')
         \/ code' = 2 /\ error' \in Messages /\ Deserved = Service!Failed(task, error')
<1>1. task.text \in Texts /\ task.id \in ConfigIds
  BY RequestParts
<1>2. Input = task.text
  BY <1>1, InputIsText
<1>3. RangeIsValid(Input, task.start, task.end) <=> Service!RangeIn(task)
  BY <1>2 DEF RangeIsValid, Service!RangeIn
<1>4. task.id \in DOMAIN Registered <=> Known(task.id)
  BY <1>1 DEF Registered
<1>5. CASE FormatInvalidRange(task.start, task.end)
  BY <1>3, <1>5 DEF FormatInvalidRange, Fails, Deserved, Messages
<1>6. CASE FormatUnknownId(task.id, task.start, task.end)
  BY <1>3, <1>4, <1>6 DEF FormatUnknownId, Fails, Deserved, Messages
<1>7. CASE FormatFound(task.id, task.start, task.end)
  <2>1. Known(task.id)
    BY <1>7 DEF FormatFound
  <2>2. PICK entry \in Entry : entry = configs[FindConfig(task.id)]
    <3>1. FindConfig(task.id) \in 1 .. Len(configs) /\ configs \in Seq(Entry)
      BY <2>1, FoundConfig DEF IInv, TypeOK
    <3>2. QED
      BY <3>1
  <2>3. Registered[task.id] = Kept(entry)
    BY <1>1, <2>1, <2>2 DEF Registered, Kept
  <2> DEFINE style == Service!StyleFor(Kept(entry), task)
             range == [offset |-> task.start, length |-> task.end - task.start]
             out   == LibFormat(style, filePath, task.text, range)
  <2>4. StyleForFormat(entry, Input) = style
    BY <1>2, StyleAgrees
  <2>5. Produces(task.text, out)
    BY <1>2, <1>7, <2>2, <2>4 DEF FormatFound
  <2>6. Deserved = IF out \notin Texts
                   THEN Service!Failed(task, "failed to apply replacements")
                   ELSE IF out = task.text THEN Service!Unchanged(task)
                   ELSE Service!Changed(task, out)
    <3>1. Deserved = Service!Answer(Registered[task.id], task)
      BY <1>3, <1>4, <1>7, <2>1 DEF FormatFound, Deserved
    <3>2. QED
      BY <2>3, <3>1 DEF Service!Answer
  <2> HIDE DEF out
  <2>7. QED
    BY <2>5, <2>6 DEF Produces, Fails, Messages
<1>8. QED
  BY <1>5, <1>6, <1>7 DEF FormatInner

-----------------------------------------------------------------------------
(* Every step of the session keeps the invariant, and is a step of the     *)
(* abstract service or none.                                               *)

Stutters == UNCHANGED Service!vars

LEMMA SameEntries ==
  ASSUME UNCHANGED configs, UNCHANGED answer
  PROVE  Stutters
BY RegisteredStays DEF Stutters, Service!vars

(* Sending bytes is a step of the plugin, unless there is nothing to send. *)
LEMMA HostSendsKeeps ==
  ASSUME IInv, NEW bytes \in {Nothing} \cup Sendable, HostSends(bytes)
  PROVE  IInv'
BY DEF HostSends, IInv, TypeOK, UniqueIds, results

LEMMA SendPayloadKeeps ==
  ASSUME SInv, NEW id \in ConfigIds, NEW payload \in Payloads,
         SendPayload(id, payload), UNCHANGED host
  PROVE  SInv' /\ Stutters
<1>1. IInv'
  BY HostSendsKeeps DEF SInv, SendPayload, Sendable
<1>2. AtWork' /\ BufferKnown' /\ PathKnown' /\ OverrideKnown' /\ AnswerKnown'
  BY DEF SInv, SendPayload, HostSends, AtWork, BufferKnown, PathKnown, OverrideKnown,
         AnswerKnown, Steps
<1>3. Stutters
  BY SameEntries DEF SendPayload, HostSends, hostVars
<1>4. QED
  BY <1>1, <1>2, <1>3 DEF SInv

LEMMA RegisterKeeps ==
  ASSUME SInv, Register, UNCHANGED host
  PROVE  SInv' /\ Service!Next
<1>1. task.id \in ConfigIds
  BY DEF SInv, AtWork, Register
<1>2. IInv' /\ \E config \in Configs : Registered' = Put(Registered, task.id, config)
  BY <1>1, RegistrationMaps DEF SInv, Register
<1>3. AtWork' /\ BufferKnown' /\ PathKnown' /\ OverrideKnown' /\ AnswerKnown'
  BY DEF SInv, Register, RegisterConfig, AtWork, BufferKnown, PathKnown, OverrideKnown,
         AnswerKnown, Steps
<1>4. Service!Next
  <2>1. PICK config \in Configs : Registered' = Put(Registered, task.id, config)
    BY <1>2
  <2>2. Service!Register(task.id, config)
    BY <2>1 DEF Service!Register, Register, Put, Service!Put
  <2>3. QED
    BY <1>1, <2>2 DEF Service!Next
<1>5. QED
  BY <1>2, <1>3, <1>4 DEF SInv

LEMMA ReleaseKeeps ==
  ASSUME SInv, NEW id \in ConfigIds, Release(id), UNCHANGED host
  PROVE  SInv' /\ Service!Next
<1>1. IInv' /\ Registered' = [i \in DOMAIN Registered \ {id} |-> Registered[i]]
  BY ReleaseMaps DEF SInv, Release
<1>2. AtWork' /\ BufferKnown' /\ PathKnown' /\ OverrideKnown' /\ AnswerKnown'
  BY DEF SInv, Release, ReleaseConfig, AtWork, BufferKnown, PathKnown, OverrideKnown,
         AnswerKnown, Steps, hostVars
<1>3. Service!Release(id)
  BY <1>1 DEF Service!Release, Release, hostVars
<1>4. QED
  BY <1>1, <1>2, <1>3 DEF SInv, Service!Next

LEMMA SendPathKeeps ==
  ASSUME SInv, NEW request \in host.requests, SendPath(request), UNCHANGED host
  PROVE  SInv' /\ Stutters
<1>1. request \in Requests /\ (request.path = NoPath \/ request.path \in Paths)
  BY RequestParts DEF Requests, SInv, AtWork
<1>2. IInv'
  BY <1>1, HostSendsKeeps DEF SInv, SendPath, Sendable
<1>3. AtWork' /\ BufferKnown' /\ PathKnown' /\ OverrideKnown' /\ AnswerKnown'
  BY DEF SInv, SendPath, HostSends, AtWork, BufferKnown, PathKnown, OverrideKnown,
         AnswerKnown, Steps
<1>4. Stutters
  BY SameEntries DEF SendPath, HostSends
<1>5. QED
  BY <1>2, <1>3, <1>4 DEF SInv

LEMMA SetPathKeeps ==
  ASSUME SInv, SetPath, UNCHANGED host
  PROVE  SInv' /\ Stutters
<1>1. task \in Requests /\ task \in host.requests
  BY DEF Requests, SInv, AtWork, SetPath
<1>2. IInv'
  BY ContextSteps DEF SInv, SetPath
<1>3. filePath' = Service!Slashes(task.path)
  <2>1. shared = IF task.path = NoPath THEN Nothing ELSE PathBytes(task.path)
    BY DEF SInv, BufferKnown, SetPath
  <2>2. CASE task.path = NoPath
    <3>1. filePath' = NoPath
      BY <2>1, <2>2 DEF SetPath, SetFilePath
    <3>2. QED
      BY <1>1, <2>2, <3>1, RequestParts, SlashesKeepPaths
  <2>3. CASE task.path # NoPath
    <3>1. shared # Nothing /\ shared.path = task.path
      BY <2>1, <2>3 DEF PathBytes, Nothing
    <3>2. QED
      BY <1>1, <3>1, RequestParts, SlashesKeepPaths DEF SetPath, SetFilePath
  <2>4. QED
    BY <2>2, <2>3
<1>4. /\ step' \in {"send override", "send text"} /\ step = "path"
      /\ step' = "send text" => task.override = Nothing /\ ~host.alwaysSetsOverride
      /\ task' = task
      /\ UNCHANGED <<configs, overrideConfig, answer>>
  BY DEF SetPath, SetFilePath, GoesOn
<1>5. AtWork' /\ BufferKnown' /\ PathKnown' /\ OverrideKnown' /\ AnswerKnown'
  BY <1>1, <1>3, <1>4 DEF SInv, AtWork, BufferKnown, PathKnown, OverrideKnown,
         AnswerKnown, Steps
<1>6. Stutters
  BY <1>4, SameEntries
<1>7. QED
  BY <1>2, <1>5, <1>6 DEF SInv

LEMMA SendOverrideKeeps ==
  ASSUME SInv, SendOverride, UNCHANGED host
  PROVE  SInv' /\ Stutters
<1>1. /\ task.override \in {Nothing} \cup {OverrideBytes(o) : o \in Overrides}
      /\ task \in host.requests
  BY RequestParts DEF Requests, SInv, AtWork, SendOverride
<1>2. IInv'
  BY <1>1, HostSendsKeeps DEF SInv, SendOverride, Sendable
<1>3. AtWork' /\ BufferKnown' /\ PathKnown' /\ OverrideKnown' /\ AnswerKnown'
  BY <1>1 DEF SInv, SendOverride, HostSends, GoesOn, AtWork, BufferKnown, PathKnown,
         OverrideKnown, AnswerKnown, Steps
<1>4. Stutters
  BY SameEntries DEF SendOverride, HostSends, GoesOn
<1>5. QED
  BY <1>2, <1>3, <1>4 DEF SInv

LEMMA SetOverrideKeeps ==
  ASSUME SInv, SetOverride, UNCHANGED host
  PROVE  SInv' /\ Stutters
<1>1. IInv'
  BY ContextSteps DEF SInv, SetOverride
<1>2. AtWork' /\ BufferKnown' /\ PathKnown' /\ OverrideKnown' /\ AnswerKnown'
  BY DEF SInv, SetOverride, SetOverrideConfig, GoesOn, AtWork, BufferKnown, PathKnown,
         OverrideKnown, AnswerKnown, Steps
<1>3. Stutters
  BY SameEntries DEF SetOverride, SetOverrideConfig, GoesOn
<1>4. QED
  BY <1>1, <1>2, <1>3 DEF SInv

LEMMA SendTextKeeps ==
  ASSUME SInv, SendText, UNCHANGED host
  PROVE  SInv' /\ Stutters
<1>1. task.text \in Texts
  BY RequestParts DEF Requests, SInv, AtWork, SendText
<1>2. IInv'
  BY <1>1, HostSendsKeeps DEF SInv, SendText, Sendable
<1>3. AtWork' /\ BufferKnown' /\ PathKnown' /\ OverrideKnown' /\ AnswerKnown'
  BY DEF SInv, SendText, HostSends, GoesOn, AtWork, BufferKnown, PathKnown,
         OverrideKnown, AnswerKnown, Steps
<1>4. Stutters
  BY SameEntries DEF SendText, HostSends, GoesOn
<1>5. QED
  BY <1>2, <1>3, <1>4 DEF SInv

LEMMA CallFormatKeeps ==
  ASSUME SInv, CallFormat, UNCHANGED host
  PROVE  SInv' /\ Stutters
<1>1. /\ task \in Requests /\ task \in host.requests /\ step = "format"
      /\ filePath = Service!Slashes(task.path)
      /\ overrideConfig = task.override
      /\ shared = TextBytes(task.text)
  BY DEF Requests, SInv, AtWork, BufferKnown, PathKnown, OverrideKnown, CallFormat
<1>2. FormatInner(task.id, task.start, task.end)
  <2>1. CASE task.ranged
    BY <2>1 DEF CallFormat, FormatRange
  <2>2. CASE ~task.ranged
    <3>1. Input = task.text
      BY <1>1, RequestParts, InputIsText
    <3>2. task.start = 0 /\ task.end = Length(Input)
      BY <1>1, <2>2, <3>1, RequestParts
    <3>3. QED
      BY <2>2, <3>2 DEF CallFormat, Format
  <2>3. QED
    BY <2>1, <2>2
<1>3. IInv' /\ configs' = configs /\ overrideConfig' = Nothing
  BY <1>2, FormatSteps DEF SInv, FormatInner, FormatInvalidRange, FormatUnknownId,
                           FormatFound, ConsumesRequest
<1>4. step' = "fetch" /\ task' = task /\ UNCHANGED answer
  BY DEF CallFormat, GoesOn
<1>5. Deserved' = Deserved
  BY <1>3, <1>4, DeservedStays
<1>6. AnswerKnown'
  <2>1. \/ code' = 0 /\ error' = NoError /\ Deserved = Service!Unchanged(task)
        \/ code' = 1 /\ error' = NoError /\ Deserved = Service!Changed(task, formatted')
        \/ code' = 2 /\ error' \in Messages /\ Deserved = Service!Failed(task, error')
    BY <1>1, <1>2, FormatAnswers DEF SInv
  <2>2. \A out : /\ Service!Unchanged(task)' = Service!Unchanged(task)
                 /\ Service!Changed(task', out) = Service!Changed(task, out)
                 /\ Service!Failed(task', out) = Service!Failed(task, out)
    BY <1>4 DEF Service!Unchanged, Service!Changed, Service!Failed
  <2> HIDE DEF Deserved
  <2>3. QED
    BY <1>4, <1>5, <2>1, <2>2 DEF AnswerKnown
<1>7. AtWork' /\ BufferKnown' /\ PathKnown' /\ OverrideKnown'
  BY <1>1, <1>3, <1>4 DEF SInv, AtWork, BufferKnown, PathKnown, OverrideKnown, Steps
<1>8. Stutters
  BY <1>3, <1>4, SameEntries
<1>9. QED
  BY <1>3, <1>6, <1>7, <1>8 DEF SInv

(* An answer that is what the request deserves is the service's. *)
LEMMA ServesTask ==
  ASSUME task \in Requests, answer' = Deserved, UNCHANGED configs
  PROVE  Service!Next
<1>1. Registered' = Registered
  BY RegisteredStays
<1>2. CASE ~Service!RangeIn(task)
  BY <1>1, <1>2 DEF Deserved, Service!ServeBadRange, Service!Next
<1>3. CASE Service!RangeIn(task) /\ task.id \notin DOMAIN Registered
  BY <1>1, <1>3 DEF Deserved, Service!ServeUnknown, Service!Next
<1>4. CASE Service!RangeIn(task) /\ task.id \in DOMAIN Registered
  <2>1. answer' = Service!Answer(Registered[task.id], task)
    BY <1>4 DEF Deserved
  <2>2. Service!Serve(task)
    BY <1>1, <1>4, <2>1 DEF Service!Serve
  <2>3. QED
    BY <2>2 DEF Service!Next
<1>5. QED
  BY <1>2, <1>3, <1>4

LEMMA AnswerKeeps ==
  ASSUME SInv, FetchNothing \/ ReadText \/ ReadError, UNCHANGED host
  PROVE  SInv' /\ Service!Next
<1>1. /\ task \in Requests /\ step \notin {"send text", "format"}
      /\ step' = "idle" /\ UNCHANGED vars
  BY DEF Requests, SInv, AtWork, FetchNothing, ReadText, ReadError, AnswerIs
<1>2. IInv'
  BY <1>1 DEF SInv, IInv, TypeOK, UniqueIds, vars, results
<1>3. AtWork' /\ BufferKnown' /\ PathKnown' /\ OverrideKnown' /\ AnswerKnown'
  BY <1>1 DEF SInv, AtWork, BufferKnown, PathKnown, OverrideKnown, AnswerKnown, Steps, vars
<1>4. answer' = Deserved
  <2>1. CASE FetchNothing
    BY <2>1 DEF FetchNothing, AnswerIs, SInv, AnswerKnown, Service!Unchanged
  <2>2. CASE ReadText
    BY <2>2 DEF ReadText, AnswerIs, SInv, AnswerKnown, Service!Changed
  <2>3. CASE ReadError
    BY <2>3 DEF ReadError, AnswerIs, SInv, AnswerKnown, Service!Failed
  <2>4. QED
    BY <2>1, <2>2, <2>3
<1>5. Service!Next
  BY <1>1, <1>4, ServesTask DEF vars
<1>6. QED
  BY <1>2, <1>3, <1>5 DEF SInv

LEMMA FetchTextKeeps ==
  ASSUME SInv, FetchText, UNCHANGED host
  PROVE  SInv' /\ Stutters
<1>1. /\ step = "fetch" /\ step' = "read text" /\ task' = task /\ code = 1
      /\ shared' = TextBytes(formatted)
      /\ UNCHANGED <<configs, filePath, overrideConfig, answer>>
  BY DEF FetchText, GetFormattedText, GoesOn
<1>2. IInv'
  BY FetchSteps DEF SInv, FetchText
<1>3. formatted \in Texts /\ Deserved = Service!Changed(task, formatted)
  <2>1. code = 1 /\ step = "fetch"
    BY <1>1, Zenon
  <2>2. code # 0 /\ code # 2
    BY <2>1
  <2>3. AnswerKnown /\ formatted \in Texts
    BY DEF SInv, IInv, TypeOK
  <2>4. code = 0 \/ Deserved = Service!Changed(task, formatted) \/ code = 2
    BY <2>1, <2>3, Zenon DEF AnswerKnown
  <2>5. QED
    BY <2>2, <2>3, <2>4, Zenon
<1>4. Input' = formatted /\ Holds("text")'
  <2>1. CASE formatted = EmptyText
    BY <1>1, <2>1 DEF TextBytes, Input, Holds, Nothing
  <2>2. CASE formatted # EmptyText
    <3>1. shared' = [kind |-> "text", text |-> formatted]
      BY <1>1, <2>2 DEF TextBytes
    <3>2. shared'.kind = "text" /\ shared'.text = formatted /\ shared' # Nothing
      BY <3>1 DEF Nothing
    <3>3. QED
      BY <3>2 DEF Input, Holds
  <2>3. QED
    BY <2>1, <2>2
<1>5. AnswerKnown'
  <2>1. Deserved' = Deserved
    BY <1>1, DeservedStays
  <2>2. \A out : Service!Changed(task', out) = Service!Changed(task, out)
    BY <1>1 DEF Service!Changed
  <2> HIDE DEF Deserved
  <2>3. QED
    BY <1>1, <1>3, <1>4, <2>1, <2>2 DEF AnswerKnown
<1>6. AtWork' /\ BufferKnown' /\ PathKnown' /\ OverrideKnown'
  BY <1>1 DEF SInv, AtWork, BufferKnown, PathKnown, OverrideKnown, Steps
<1>7. Stutters
  BY <1>1, SameEntries
<1>8. QED
  BY <1>2, <1>5, <1>6, <1>7 DEF SInv

LEMMA FetchErrorKeeps ==
  ASSUME SInv, FetchError, UNCHANGED host
  PROVE  SInv' /\ Stutters
<1>1. /\ step = "fetch" /\ step' = "read error" /\ task' = task /\ code = 2
      /\ shared' = ErrorBytes(error)
      /\ UNCHANGED <<configs, filePath, overrideConfig, answer>>
  BY DEF FetchError, GetErrorText, GoesOn
<1>2. IInv'
  BY FetchSteps DEF SInv, FetchError
<1>3. error \in Messages /\ Deserved = Service!Failed(task, error)
  <2>1. code = 2 /\ step = "fetch"
    BY <1>1, Zenon
  <2>2. code # 0 /\ code # 1
    BY <2>1
  <2>3. AnswerKnown
    BY DEF SInv
  <2>4. code = 0 \/ code = 1 \/ error \in Messages
    BY <2>1, <2>3, Zenon DEF AnswerKnown
  <2>5. code = 0 \/ code = 1 \/ Deserved = Service!Failed(task, error)
    BY <2>1, <2>3, Zenon DEF AnswerKnown
  <2>6. QED
    BY <2>2, <2>4, <2>5, Zenon
<1>4. shared'.kind = "error" /\ shared'.error = error
  <2>1. shared' = [kind |-> "error", error |-> error]
    BY <1>1, <1>3 DEF ErrorBytes, Messages, NoError
  <2>2. QED
    BY <2>1
<1>5. AnswerKnown'
  <2>1. Deserved' = Deserved
    BY <1>1, DeservedStays
  <2>2. \A why : Service!Failed(task', why) = Service!Failed(task, why)
    BY <1>1 DEF Service!Failed
  <2> HIDE DEF Deserved
  <2>3. QED
    BY <1>1, <1>3, <1>4, <2>1, <2>2 DEF AnswerKnown
<1>6. AtWork' /\ BufferKnown' /\ PathKnown' /\ OverrideKnown'
  BY <1>1 DEF SInv, AtWork, BufferKnown, PathKnown, OverrideKnown, Steps
<1>7. Stutters
  BY <1>1, SameEntries
<1>8. QED
  BY <1>2, <1>5, <1>6, <1>7 DEF SInv

LEMMA FreshIsInit == FreshInstance => IInv' /\ Registered' = EmptyObject
<1> SUFFICES ASSUME FreshInstance PROVE IInv' /\ Registered' = EmptyObject
  OBVIOUS
<1>1. IInv'
  BY SetsAssumption DEF FreshInstance, IInv, TypeOK, UniqueIds
<1>2. \A id : ~Known(id)'
  BY DEF FreshInstance, Known, HasId
<1>3. DOMAIN Registered' = {}
  BY <1>2 DEF Registered
<1>4. Registered' = [id \in DOMAIN Registered' |-> Registered'[id]]
  BY DEF Registered
<1>5. QED
  BY <1>1, <1>3, <1>4 DEF EmptyObject

LEMMA TrapKeeps ==
  ASSUME SInv, Trap, UNCHANGED host
  PROVE  SInv' /\ Service!Next
<1>1. IInv' /\ Registered' = EmptyObject
  BY FreshIsInit DEF Trap
<1>2. AtWork' /\ BufferKnown' /\ PathKnown' /\ OverrideKnown' /\ AnswerKnown'
  BY DEF SInv, Trap, FreshInstance, AtWork, BufferKnown, PathKnown, OverrideKnown,
         AnswerKnown, Steps
<1>3. answer' \in {answer} \cup {Service!Crashed(request) : request \in Requests}
  BY DEF Trap, Service!Crashed
<1>4. Service!Next
  BY <1>1, <1>3, ServiceSpeaksJson DEF Service!Crash, Service!Next
<1>5. QED
  BY <1>1, <1>2, <1>4 DEF SInv

LEMMA AbandonKeeps ==
  ASSUME SInv, Abandon, UNCHANGED host
  PROVE  SInv' /\ Stutters
<1>1. /\ host.mayAbandon /\ step' = "idle"
      /\ UNCHANGED <<vars, answer>>
  BY DEF Abandon
<1>2. host.alwaysSetsOverride
  BY <1>1, HostAssumption DEF SInv, AtWork
<1>3. IInv'
  BY <1>1 DEF SInv, IInv, TypeOK, UniqueIds, vars, results
<1>4. AtWork' /\ BufferKnown' /\ PathKnown' /\ OverrideKnown' /\ AnswerKnown'
  BY <1>1, <1>2 DEF SInv, AtWork, BufferKnown, PathKnown, OverrideKnown, AnswerKnown, Steps
<1>5. Stutters
  BY <1>1, SameEntries DEF vars
<1>6. QED
  BY <1>3, <1>4, <1>5 DEF SInv

-----------------------------------------------------------------------------
(* The theorems. *)

LEMMA SessionStarts == SessionInit => SInv /\ Service!Init
<1> SUFFICES ASSUME SessionInit PROVE SInv /\ Service!Init
  OBVIOUS
<1>1. IInv
  BY InitIInv DEF SessionInit
<1>2. AtWork /\ BufferKnown /\ PathKnown /\ OverrideKnown /\ AnswerKnown
  BY DEF SessionInit, Init, AtWork, BufferKnown, PathKnown, OverrideKnown, AnswerKnown, Steps
<1>3. Registered = EmptyObject
  <2>1. \A id : ~Known(id)
    BY DEF SessionInit, Init, Known, HasId
  <2>2. DOMAIN Registered = {} /\ Registered = [id \in DOMAIN Registered |-> Registered[id]]
    BY <2>1 DEF Registered
  <2>3. QED
    BY <2>2 DEF EmptyObject
<1>4. Service!Init
  BY <1>3, ServiceSpeaksJson DEF SessionInit, Service!Init, NoAnswer, Service!NoAnswer
<1>5. QED
  BY <1>1, <1>2, <1>4 DEF SInv

LEMMA SessionSteps ==
  SInv /\ [SessionNext]_sessionVars => SInv' /\ [Service!Next]_(Service!vars)
<1> SUFFICES ASSUME SInv, [SessionNext]_sessionVars
             PROVE  SInv' /\ (Service!Next \/ Stutters)
  BY DEF Stutters
<1>1. CASE UNCHANGED sessionVars
  <2>1. UNCHANGED <<vars, step, task, answer, host>>
    BY <1>1 DEF sessionVars, hostVars
  <2>2. IInv'
    BY <2>1 DEF SInv, IInv, TypeOK, UniqueIds, vars, results
  <2>3. AtWork' /\ BufferKnown' /\ PathKnown' /\ OverrideKnown'
    BY <2>1 DEF SInv, AtWork, BufferKnown, PathKnown, OverrideKnown, Steps, vars
  <2>4. AnswerKnown'
    <3>1. Deserved' = Deserved
      BY <2>1, DeservedStays DEF vars
    <3> HIDE DEF Deserved
    <3>2. QED
      BY <2>1, <3>1 DEF SInv, AnswerKnown, vars, Holds, Input, Service!Unchanged,
                        Service!Changed, Service!Failed
  <2>5. Stutters
    BY <2>1, SameEntries DEF vars
  <2>6. QED
    BY <2>2, <2>3, <2>4, <2>5 DEF SInv
<1>2. ASSUME SessionNext
      PROVE  SInv' /\ (Service!Next \/ Stutters)
  <2>1. ASSUME NEW id \in ConfigIds, NEW payload \in Payloads, SendPayload(id, payload)
        PROVE  SInv' /\ Stutters
    BY <1>2, <2>1, SendPayloadKeeps DEF SessionNext
  <2>2. ASSUME NEW id \in ConfigIds, Release(id)
        PROVE  SInv' /\ Service!Next
    BY <1>2, <2>2, ReleaseKeeps DEF SessionNext
  <2>3. ASSUME NEW request \in host.requests, SendPath(request)
        PROVE  SInv' /\ Stutters
    BY <1>2, <2>3, SendPathKeeps DEF SessionNext
  <2>4. CASE Register \/ FetchNothing \/ ReadText \/ ReadError \/ Trap
    BY <1>2, <2>4, RegisterKeeps, AnswerKeeps, TrapKeeps DEF SessionNext
  <2>5. CASE SetPath \/ SendOverride \/ SetOverride \/ SendText
    BY <1>2, <2>5, SetPathKeeps, SendOverrideKeeps, SetOverrideKeeps, SendTextKeeps
       DEF SessionNext
  <2>6. CASE CallFormat \/ FetchText \/ FetchError \/ Abandon
    BY <1>2, <2>6, CallFormatKeeps, FetchTextKeeps, FetchErrorKeeps, AbandonKeeps
       DEF SessionNext
  <2>7. QED
    BY <1>2, <2>1, <2>2, <2>3, <2>4, <2>5, <2>6 DEF SessionNext
<1>3. QED
  BY <1>1, <1>2

(* A fetch finds what the return code announced: no error the host was not *)
(* told of, and no bytes of another kind (get_formatted_text and           *)
(* get_error_text, dprint_plugin.cpp:577-590).                             *)
THEOREM FetchesFindTheirResult == SessionSpec => []FetchFindsWhatWasAnnounced
<1>1. SInv => FetchFindsWhatWasAnnounced
  <2> SUFFICES ASSUME SInv PROVE FetchFindsWhatWasAnnounced
    OBVIOUS
  <2>1. /\ step = "fetch" => \/ code = 0 /\ error = NoError
                             \/ code = 1 /\ error = NoError
                             \/ code = 2 /\ error \in Messages
        /\ step = "read text" => Holds("text")
        /\ step = "read error" => shared.kind = "error"
    BY Zenon DEF SInv, AnswerKnown
  <2>2. error \in Messages => error # NoError
    BY DEF Messages, NoError
  <2>3. ASSUME step = "fetch"
        PROVE  code \in {0, 1, 2} /\ (code = 2 <=> error # NoError)
    <3>1. \/ code = 0 /\ error = NoError
          \/ code = 1 /\ error = NoError
          \/ code = 2 /\ error # NoError
      BY <2>1, <2>2, <2>3, Zenon
    <3>2. QED
      BY <3>1
  <2>4. QED
    BY <2>1, <2>3, Zenon DEF FetchFindsWhatWasAnnounced
<1>2. QED
  BY <1>1, SessionStarts, SessionSteps, PTL DEF SessionSpec

(* Through the shared buffer and all that is kept between calls, the       *)
(* plugin and a host implement the abstract service: what is answered to a *)
(* request is a function of that request and of the configuration under    *)
(* its id (format_inner and style_for_format, dprint_plugin.cpp:388-473).  *)
THEOREM SessionImplementsService == SessionSpec => ServesEachRequestAlone
BY SessionStarts, SessionSteps, PTL DEF SessionSpec, ServesEachRequestAlone, Service!Spec
=============================================================================
