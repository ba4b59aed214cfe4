---------------------------- MODULE DprintPlugin ----------------------------
(***************************************************************************)
(* src/dprint_plugin.cpp: the exports of the dprint ABI v4 and the process *)
(* state behind them.  One action is one call of an export, whole.  The    *)
(* module instance is single-threaded; what interleaves is the order in    *)
(* which the host calls, and every datum crosses one shared byte buffer.   *)
(*                                                                         *)
(* The bytes in the buffer are a record tagged by what they are, since the *)
(* host is assumed to call a function that takes bytes only with bytes of  *)
(* that kind or with an empty buffer.  Texts are opaque but for a length.  *)
(***************************************************************************)
EXTENDS FormatStyle, FiniteSets

CONSTANTS
  ConfigIds,            (* the config ids the host uses                      *)
  Payloads,             (* what register_config can be sent                  *)
  Overrides,            (* what set_override_config can be sent, not empty   *)
  Paths,                (* what set_file_path can be sent, not empty         *)
  Texts,                (* source texts                                      *)
  EmptyText,            (* the text of length 0                              *)
  Length(_),            (* the bytes of a text                               *)
  Offsets,              (* the uint32_t values format_range is called with   *)
  GuessLanguage(_, _),  (* clang::format::guessLanguage                      *)
  LibFormat(_, _, _, _) (* sortIncludes, reformat and applyAllReplacements:  *)
                        (* style, file name, text, range -> the text they    *)
                        (* produce, or a value that is no text on failure    *)

(* A payload is malformed, or a JSON object with or without "plugin".      *)
Malformed                    == [parses |-> FALSE]
Payload(plugin, global)      == [parses |-> TRUE, hasPlugin |-> TRUE,
                                 plugin |-> plugin, global |-> global]
PayloadWithoutPlugin(global) == [parses |-> TRUE, hasPlugin |-> FALSE,
                                 plugin |-> EmptyObject, global |-> global]

(* An override is garbage, or a JSON object of clang-format options.       *)
Garbage           == [parses |-> FALSE]
Override(options) == [parses |-> TRUE, options |-> options]

ASSUME SetsAssumption ==
  /\ EmptyText \in Texts
  /\ Length(EmptyText) = 0
  /\ \A text \in Texts : Length(text) \in Nat
  /\ Offsets \subseteq Nat

VARIABLES
  shared,         (* shared_bytes()         *)
  configs,        (* registered_configs()   *)
  filePath,       (* file_path()            *)
  overrideConfig, (* override_config_json() *)
  formatted,      (* formatted_text()       *)
  error,          (* error_text()           *)
  code            (* what the last format or format_range returned *)

vars == <<shared, configs, filePath, overrideConfig, formatted, error, code>>

results == <<formatted, error, code>>

Nothing       == [kind |-> "nothing"]
NoPath        == <<>>
NoError       == "no error"
NotCalled     == 3           \* format and format_range return 0, 1 or 2
StaticAnswers == {"info", "license", "matching", "updates"}

(* The bytes the buffer can hold, by kind. *)
PayloadBytes(payload)   == [kind |-> "payload", payload |-> payload]
OverrideBytes(override) == [kind |-> "override", override |-> override]
PathBytes(path)         == [kind |-> "path", path |-> path]
TextBytes(text)         == IF text = EmptyText THEN Nothing
                           ELSE [kind |-> "text", text |-> text]
DiagnosticBytes(names)  == [kind |-> "diagnostics", diagnostics |-> names]
ResolvedBytes(options)  == [kind |-> "resolved", resolved |-> options]
ErrorBytes(message)     == IF message = NoError THEN Nothing
                           ELSE [kind |-> "error", error |-> message]
StaticBytes(which)      == [kind |-> which]

(* The host has sent bytes of this kind, or there are none. *)
Holds(kind) == shared.kind \in {kind, "nothing"}

-----------------------------------------------------------------------------
(* The registered configurations, oldest first. *)

HasId(id) == {i \in DOMAIN configs : configs[i].id = id}
Known(id) == HasId(id) # {}

(* find_config: the first entry with the id. *)
FindConfig(id) == CHOOSE i \in HasId(id) : \A j \in HasId(id) : i <= j

(* Faulty variant: the entry does not keep the global object.              *)
ResolveForgettingGlobal(id, plugin, global) ==
  LET resolved == ResolveFormatStyle(plugin, global, EmptyObject)
  IN [id |-> id, plugin |-> plugin, global |-> EmptyObject,
      style |-> resolved.style, resolved |-> resolved.resolved,
      diagnostics |-> resolved.diagnostics, valid |-> resolved.valid]

ResolveRegisteredConfig(id, plugin, global) ==
  LET resolved == ResolveFormatStyle(plugin, global, EmptyObject)
  IN [id |-> id, plugin |-> plugin, global |-> global,
      style |-> resolved.style, resolved |-> resolved.resolved,
      diagnostics |-> resolved.diagnostics, valid |-> resolved.valid]

(* The entry of a payload that is not a JSON object: all defaults but for  *)
(* the diagnostic.                                                         *)
MalformedEntry(id) ==
  [id |-> id, plugin |-> EmptyObject, global |-> EmptyObject,
   style |-> LLVMStyle, resolved |-> EmptyObject,
   diagnostics |-> <<"clangFormat">>, valid |-> FALSE]

(* Faulty variant: pushes back without looking for the id.                 *)
AppendConfig(id, entry) == configs' = Append(configs, entry)

UpsertConfig(id, entry) ==
  configs' = IF Known(id) THEN [configs EXCEPT ![FindConfig(id)] = entry]
             ELSE Append(configs, entry)

(* Faulty variant: pops the last entry.                                    *)
EraseLast(entries, i) == SubSeq(entries, 1, Len(entries) - 1)

EraseAt(entries, i) ==
  SubSeq(entries, 1, i - 1) \o SubSeq(entries, i + 1, Len(entries))

-----------------------------------------------------------------------------
(* Sending and fetching bytes. *)

(* clear_shared_bytes, and the host's writes through the pointer it got.   *)
HostSends(bytes) ==
  /\ shared' = bytes
  /\ UNCHANGED <<configs, filePath, overrideConfig, results>>

(* get_plugin_info, get_license_text, get_config_file_matching and         *)
(* check_config_updates answer a constant.                                 *)
StaticAnswer(which) ==
  /\ shared' = StaticBytes(which)
  /\ UNCHANGED <<configs, filePath, overrideConfig, results>>

-----------------------------------------------------------------------------
(* Configurations. *)

(* register_config: the diagnostic for a missing "plugin" goes into a      *)
(* vector that nobody reads when the payload parses.                       *)
RegisterConfig(id) ==
  /\ Holds("payload")
  /\ LET payload == IF shared = Nothing THEN Malformed ELSE shared.payload
     IN UpsertConfig(id,
          IF payload.parses
          THEN ResolveRegisteredConfig(id, payload.plugin, payload.global)
          ELSE MalformedEntry(id))
  /\ shared' = Nothing
  /\ UNCHANGED <<filePath, overrideConfig, results>>

ReleaseConfig(id) ==
  /\ configs' = IF Known(id) THEN EraseAt(configs, FindConfig(id)) ELSE configs
  /\ UNCHANGED <<shared, filePath, overrideConfig, results>>

GetConfigDiagnostics(id) ==
  /\ shared' = DiagnosticBytes(IF Known(id)
                               THEN configs[FindConfig(id)].diagnostics
                               ELSE <<>>)
  /\ UNCHANGED <<configs, filePath, overrideConfig, results>>

GetResolvedConfig(id) ==
  /\ shared' = ResolvedBytes(IF Known(id)
                             THEN configs[FindConfig(id)].resolved
                             ELSE EmptyObject)
  /\ UNCHANGED <<configs, filePath, overrideConfig, results>>

-----------------------------------------------------------------------------
(* The context of the next request. *)

NormalizeFilePath(path) ==
  [i \in DOMAIN path |-> IF path[i] = "\\" THEN "/" ELSE path[i]]

SetFilePath ==
  /\ Holds("path")
  /\ filePath' = IF shared = Nothing THEN NoPath
                 ELSE NormalizeFilePath(shared.path)
  /\ shared' = Nothing
  /\ UNCHANGED <<configs, overrideConfig, results>>

(* Faulty variant: an empty buffer leaves the override that was pending.   *)
SetOverrideUnlessEmpty ==
  /\ Holds("override")
  /\ overrideConfig' = IF shared = Nothing THEN overrideConfig ELSE shared
  /\ shared' = Nothing
  /\ UNCHANGED <<configs, filePath, results>>

SetOverrideConfig ==
  /\ Holds("override")
  /\ overrideConfig' = shared
  /\ shared' = Nothing
  /\ UNCHANGED <<configs, filePath, results>>

-----------------------------------------------------------------------------
(* Formatting. *)

(* What style_for_format passes on: a missing or unparsable override is    *)
(* the null pointer, and its diagnostics are dropped.                      *)
OverrideOptions ==
  IF overrideConfig # Nothing /\ overrideConfig.override.parses
  THEN overrideConfig.override.options
  ELSE EmptyObject

(* style_for_format: when the options do not resolve, the style registered *)
(* is used as it is, without a guess at the language.                      *)
StyleForFormat(entry, text) ==
  LET resolved == ResolveFormatStyle(entry.plugin, entry.global, OverrideOptions)
  IN IF ~resolved.valid THEN entry.style
     ELSE IF filePath = NoPath THEN resolved.style
     ELSE [resolved.style EXCEPT !.language = GuessLanguage(filePath, text)]

(* The text that format_inner takes out of the buffer. *)
Input == IF shared = Nothing THEN EmptyText ELSE shared.text

(* Faulty variants: the text of an earlier request stays, and an error     *)
(* without its message.                                                    *)
FailsKeepingText(message) ==
  /\ error' = message
  /\ code' = 2
  /\ UNCHANGED formatted

FailsWithoutMessage(message) ==
  /\ formatted' = EmptyText
  /\ error' = NoError
  /\ code' = 2

Fails(message) ==
  /\ formatted' = EmptyText
  /\ error' = message
  /\ code' = 2

(* Faulty variant: the failure of applyAllReplacements is not looked at.   *)
ProducesUnchecked(input, output) ==
  /\ formatted' = IF output = input THEN EmptyText ELSE output
  /\ error' = NoError
  /\ code' = IF output = input THEN 0 ELSE 1

Produces(input, output) ==
  IF output \notin Texts THEN Fails("failed to apply replacements")
  ELSE /\ formatted' = IF output = input THEN EmptyText ELSE output
       /\ error' = NoError
       /\ code' = IF output = input THEN 0 ELSE 1

(* Every return of format_inner: the buffer and the override are consumed. *)
ConsumesRequest ==
  /\ shared' = Nothing
  /\ overrideConfig' = Nothing
  /\ UNCHANGED <<configs, filePath>>

RangeIsValid(input, start, end) == start <= end /\ end <= Length(input)

FormatInvalidRange(start, end) ==
  /\ Holds("text")
  /\ ~RangeIsValid(Input, start, end)
  /\ Fails("invalid format range")
  /\ ConsumesRequest

(* Faulty variant: an early return that leaves the override.               *)
FormatUnknownIdKeepsOverride(id, start, end) ==
  /\ Holds("text")
  /\ RangeIsValid(Input, start, end)
  /\ ~Known(id)
  /\ Fails("unknown config id")
  /\ shared' = Nothing
  /\ UNCHANGED <<configs, filePath, overrideConfig>>

FormatUnknownId(id, start, end) ==
  /\ Holds("text")
  /\ RangeIsValid(Input, start, end)
  /\ ~Known(id)
  /\ Fails("unknown config id")
  /\ ConsumesRequest

FormatFound(id, start, end) ==
  /\ Holds("text")
  /\ RangeIsValid(Input, start, end)
  /\ Known(id)
  /\ LET style == StyleForFormat(configs[FindConfig(id)], Input)
         range == [offset |-> start, length |-> end - start]
     IN Produces(Input, LibFormat(style, filePath, Input, range))
  /\ ConsumesRequest

FormatInner(id, start, end) ==
  \/ FormatInvalidRange(start, end)
  \/ FormatUnknownId(id, start, end)
  \/ FormatFound(id, start, end)

Format(id) == FormatInner(id, 0, Length(Input))

FormatRange(id, start, end) == FormatInner(id, start, end)

(* The string is moved out, so that a second call answers nothing. *)
GetFormattedText ==
  /\ shared' = TextBytes(formatted)
  /\ formatted' = EmptyText
  /\ UNCHANGED <<configs, filePath, overrideConfig, error, code>>

GetErrorText ==
  /\ shared' = ErrorBytes(error)
  /\ error' = NoError
  /\ UNCHANGED <<configs, filePath, overrideConfig, formatted, code>>

-----------------------------------------------------------------------------

Init ==
  /\ shared = Nothing
  /\ configs = <<>>
  /\ filePath = NoPath
  /\ overrideConfig = Nothing
  /\ formatted = EmptyText
  /\ error = NoError
  /\ code = NotCalled

Sendable ==
  {PayloadBytes(p) : p \in Payloads} \cup {OverrideBytes(o) : o \in Overrides}
    \cup {PathBytes(p) : p \in Paths} \cup {TextBytes(t) : t \in Texts}

Formats ==
  \E id \in ConfigIds :
    \/ Format(id)
    \/ \E start, end \in Offsets : FormatRange(id, start, end)

Next ==
  \/ \E bytes \in Sendable : HostSends(bytes)
  \/ \E which \in StaticAnswers : StaticAnswer(which)
  \/ \E id \in ConfigIds :
       \/ RegisterConfig(id)
       \/ ReleaseConfig(id)
       \/ GetConfigDiagnostics(id)
       \/ GetResolvedConfig(id)
  \/ SetFilePath
  \/ SetOverrideConfig
  \/ Formats
  \/ GetFormattedText
  \/ GetErrorText

Spec == Init /\ [][Next]_vars

-----------------------------------------------------------------------------
(* Properties. *)

EntriesFor(id) ==
  {ResolveRegisteredConfig(id, payload.plugin, payload.global) :
     payload \in {p \in Payloads : p.parses}} \cup {MalformedEntry(id)}

Entry == UNION {EntriesFor(id) : id \in ConfigIds}

Messages == {"invalid format range", "unknown config id",
             "failed to apply replacements"}

NormalizedPaths == {NormalizeFilePath(path) : path \in Paths}

Answers ==
  {StaticBytes(which) : which \in StaticAnswers}
    \cup {DiagnosticBytes(e.diagnostics) : e \in Entry}
    \cup {ResolvedBytes(e.resolved) : e \in Entry}
    \cup {DiagnosticBytes(<<>>), ResolvedBytes(EmptyObject)}
    \cup {ErrorBytes(message) : message \in Messages}

(* The buffer holds what was sent or what an export answers, an entry is   *)
(* what a payload the host can send registers, and so on.                  *)
TypeOK ==
  /\ shared \in {Nothing} \cup Sendable \cup Answers
  /\ configs \in Seq(Entry)
  /\ filePath \in {NoPath} \cup NormalizedPaths
  /\ overrideConfig \in {Nothing} \cup {OverrideBytes(o) : o \in Overrides}
  /\ formatted \in Texts
  /\ error \in {NoError} \cup Messages
  /\ code \in {0, 1, 2, NotCalled}

(* However registrations and releases of an id follow each other, it has   *)
(* one entry at most: release_config erases the first one it meets and     *)
(* find_config looks no further than the first.                            *)
UniqueIds ==
  \A i, j \in DOMAIN configs : configs[i].id = configs[j].id => i = j

(* The style an entry caches, and the resolved options it reports, are     *)
(* what resolving its own plugin and global objects again would give,      *)
(* which is what style_for_format does for every request.                  *)
CacheIsFresh ==
  \A i \in DOMAIN configs :
    LET entry == configs[i]
        fresh == ResolveFormatStyle(entry.plugin, entry.global, EmptyObject)
    IN /\ entry.style = fresh.style
       /\ entry.resolved = fresh.resolved
       /\ entry.valid => fresh.valid
       /\ entry.diagnostics = <<>> => entry.valid

(* Whatever is registered and whatever override is pending, the style a    *)
(* request formats with never asks for a style of the file system.         *)
StylesNeedNoFiles ==
  \A i \in DOMAIN configs, text \in Texts :
    ~NamesOneOf(StyleForFormat(configs[i], text).options, FilesystemStyles)

(* What the host can still fetch belongs to the last request: a text only  *)
(* after 1, an error only after 2, and never the one left from before.     *)
ResultsMatchCode ==
  /\ formatted # EmptyText => code = 1 /\ error = NoError
  /\ error # NoError => code = 2

(* An override serves one request: it is gone after every return of        *)
(* format_inner, the early ones too.                                       *)
OverrideServesOnce ==
  [][overrideConfig' # Nothing => ~Formats]_vars

EntriesOf(id) == {configs[i] : i \in HasId(id)}

(* A registration or a release is about one id: it disturbs no other,      *)
(* wherever its entry lies in the vector, and an id released is unknown.   *)
OneConfigAtATime ==
  [][\A id \in ConfigIds :
       /\ RegisterConfig(id) \/ ReleaseConfig(id) =>
            \A other \in ConfigIds \ {id} : EntriesOf(other)' = EntriesOf(other)
       /\ ReleaseConfig(id) => EntriesOf(id)' = {}]_vars

(* A filesystem style is rejected (README.md): a request whose override    *)
(* names one reports an error.                                             *)
FilesystemOverrideRejected ==
  [][Formats /\ NamesOneOf(OverrideOptions, FilesystemStyles) => code' = 2]_vars
=============================================================================
