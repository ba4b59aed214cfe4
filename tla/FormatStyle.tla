---------------------------- MODULE FormatStyle ----------------------------
(***************************************************************************)
(* src/dprint_plugin.cpp: how a plugin configuration, the dprint global    *)
(* configuration and a per-request override become one clang-format style  *)
(* (parse_bool_value .. resolve_format_style).  All of it is pure.         *)
(*                                                                         *)
(* A JSON value is a record tagged by its kind; a number carries twice its *)
(* value, so that the cast to int64_t has a fraction to drop.  A JSON      *)
(* object is a function from its keys.  A diagnostic is the property name  *)
(* it is reported under; its message is left out.                          *)
(***************************************************************************)
EXTENDS Integers, Sequences

CONSTANTS
  NumericTexts,         (* the strings that strtod consumes to the end, each *)
                        (* mapped to twice the number it yields              *)
  FilesystemStyles,     (* every spelling, in any case, of "file" and of     *)
                        (* "InheritParentConfig"                             *)
  ParseConfiguration(_) (* clang::format::parseConfiguration accepts these   *)
                        (* options                                           *)

ASSUME NumericTextsAssumption ==
  \A text \in DOMAIN NumericTexts : NumericTexts[text] \in Int

Null         == [kind |-> "null"]
Bool(b)      == [kind |-> "bool", bool |-> b]
Number(n)    == [kind |-> "number", halves |-> 2 * n]
Fraction(h)  == [kind |-> "number", halves |-> h]
Str(t)       == [kind |-> "string", text |-> t]
Container    == [kind |-> "container"]      \* an array or a nested object

IsJson(value) ==
  \/ value \in {Null, Container, Bool(TRUE), Bool(FALSE)}
  \/ value.kind = "number" /\ value.halves \in Int /\ value = Fraction(value.halves)
  \/ value.kind = "string" /\ value = Str(value.text)

EmptyObject == [k \in {} |-> Null]

(* The object with one more member, or with the member replaced. *)
Put(object, key, value) ==
  [k \in DOMAIN object \cup {key} |-> IF k = key THEN value ELSE object[k]]

-----------------------------------------------------------------------------
(* parse_bool_value and parse_number_value: a value of the JSON type, or a *)
(* string that spells one.                                                 *)

IsBool(value) ==
  \/ value.kind = "bool"
  \/ value.kind = "string" /\ value.text \in {"true", "false"}

BoolOf(value) == IF value.kind = "bool" THEN value.bool ELSE value.text = "true"

IsNumber(value) ==
  \/ value.kind = "number"
  \/ value.kind = "string" /\ value.text \in DOMAIN NumericTexts

HalvesOf(value) ==
  IF value.kind = "number" THEN value.halves ELSE NumericTexts[value.text]

(* static_cast<int64_t>: towards zero. *)
Truncate(halves) == IF halves < 0 THEN -((-halves) \div 2) ELSE halves \div 2

(* Faulty variant: a global option replaces the clang-format option.       *)
AppliesRegardless(global, globalKey, options, clangKey) ==
  globalKey \in DOMAIN global /\ global[globalKey] # Null

(* A global option is looked at when it is there, is not null, and the     *)
(* clang-format option it maps to has not been given.                      *)
Applies(global, globalKey, options, clangKey) ==
  /\ globalKey \in DOMAIN global
  /\ global[globalKey] # Null
  /\ clangKey \notin DOMAIN options

(* A merge in progress is the options so far and the diagnostics so far.   *)
WithOption(merge, key, value) ==
  [options |-> Put(merge.options, key, value), diagnostics |-> merge.diagnostics]

WithDiagnostic(merge, name) ==
  [options |-> merge.options, diagnostics |-> Append(merge.diagnostics, name)]

(* Faulty variant: no return after the diagnostic, number is still 0.      *)
TakeNumberFallsThrough(globalKey, clangKey, global, merge) ==
  IF ~Applies(global, globalKey, merge.options, clangKey) THEN merge
  ELSE IF IsNumber(global[globalKey])
    THEN WithOption(merge, clangKey, Number(Truncate(HalvesOf(global[globalKey]))))
    ELSE WithOption(WithDiagnostic(merge, globalKey), clangKey, Number(0))

TakeNumber(globalKey, clangKey, global, merge) ==
  IF ~Applies(global, globalKey, merge.options, clangKey) THEN merge
  ELSE IF IsNumber(global[globalKey])
    THEN WithOption(merge, clangKey, Number(Truncate(HalvesOf(global[globalKey]))))
    ELSE WithDiagnostic(merge, globalKey)

TabStyle(value) == Str(IF BoolOf(value) THEN "Always" ELSE "Never")

(* Faulty variant: a useTabs that is no boolean is passed over.            *)
TakeUseTabsSilently(global, merge) ==
  IF Applies(global, "useTabs", merge.options, "UseTab")
       /\ IsBool(global["useTabs"])
  THEN WithOption(merge, "UseTab", TabStyle(global["useTabs"]))
  ELSE merge

TakeUseTabs(global, merge) ==
  IF ~Applies(global, "useTabs", merge.options, "UseTab") THEN merge
  ELSE IF IsBool(global["useTabs"])
    THEN WithOption(merge, "UseTab", TabStyle(global["useTabs"]))
    ELSE WithDiagnostic(merge, "useTabs")

(* merge_global_options; newLineKind is looked up and ignored. *)
MergeGlobalOptions(global, merge) ==
  TakeUseTabs(global,
    TakeNumber("indentWidth", "IndentWidth", global,
      TakeNumber("lineWidth", "ColumnLimit", global, merge)))

(* merge_object_options: every entry of source, over what is there. *)
MergeObjectOptions(source, merge) ==
  [options |->
     [k \in DOMAIN source \cup DOMAIN merge.options |->
        IF k \in DOMAIN source THEN source[k] ELSE merge.options[k]],
   diagnostics |-> merge.diagnostics]

NamesOneOf(options, styles) ==
  /\ "BasedOnStyle" \in DOMAIN options
  /\ \E name \in styles : options["BasedOnStyle"] = Str(name)

(* Faulty variant: compares with ==, not equals_insensitive.               *)
RejectExactCase(merge) ==
  IF NamesOneOf(merge.options, {"file", "InheritParentConfig"})
  THEN WithDiagnostic(merge, "BasedOnStyle")
  ELSE merge

(* reject_filesystem_dependent_style: when BasedOnStyle is a string that   *)
(* spells one of them.                                                     *)
RejectFilesystemStyle(merge) ==
  IF NamesOneOf(merge.options, FilesystemStyles)
  THEN WithDiagnostic(merge, "BasedOnStyle")
  ELSE merge

(* A style is the options laid over LLVM's, and the language it is for. *)
StyleOf(options) == [options |-> options, language |-> "Cpp"]
LLVMStyle        == StyleOf(EmptyObject)

(* A null override_options pointer is an empty object here: either way     *)
(* nothing is merged.                                                      *)
Merged(plugin, global, override) ==
  LET start  == [options |-> EmptyObject, diagnostics |-> <<>>]
      own    == MergeObjectOptions(plugin, start)
  IN RejectFilesystemStyle(
       MergeGlobalOptions(global, MergeObjectOptions(override, own)))

(* Faulty variant: parses before it looks at the diagnostics.              *)
ResolveParsingFirst(plugin, global, override) ==
  LET merge == Merged(plugin, global, override)
  IN [style |-> StyleOf(merge.options), resolved |-> merge.options,
      diagnostics |-> merge.diagnostics, valid |-> merge.diagnostics = <<>>]

(* resolve_format_style.  With no option at all it is done before it looks *)
(* at the diagnostics; otherwise any diagnostic leaves it invalid.         *)
ResolveFormatStyle(plugin, global, override) ==
  LET merge == Merged(plugin, global, override)
      empty == DOMAIN merge.options = {}
      Result(style, diagnostics, valid) ==
        [style |-> style, resolved |-> merge.options,
         diagnostics |-> diagnostics, valid |-> valid]
  IN CASE empty -> Result(LLVMStyle, merge.diagnostics, TRUE)
       [] ~empty /\ merge.diagnostics # <<>> ->
            Result(LLVMStyle, merge.diagnostics, FALSE)
       [] /\ ~empty
          /\ merge.diagnostics = <<>>
          /\ ~ParseConfiguration(merge.options) ->
            Result(LLVMStyle, <<"clangFormat">>, FALSE)
       [] OTHER -> Result(StyleOf(merge.options), <<>>, TRUE)
=============================================================================
