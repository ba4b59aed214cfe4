----------------------- MODULE StyleResolutionProofs -----------------------
(***************************************************************************)
(* What README.md promises of resolve_format_style, proved for all plugin, *)
(* global and override objects.  The invariant behind the theorems is that *)
(* the result, once there, is the function's; the rest is lemmas on        *)
(* ResolveFormatStyle.                                                     *)
(***************************************************************************)
EXTENDS StyleResolution, SequenceTheorems, TLAPS

-----------------------------------------------------------------------------
(* Lemmas on the operators of FormatStyle.                                 *)

(* What the diagnostics of merge_global_options are about, and what those  *)
(* of the whole merge are.                                                 *)
GlobalNames == {"lineWidth", "indentWidth", "useTabs"}
Names       == GlobalNames \cup {"BasedOnStyle"}

(* A merge in progress: options are an object, diagnostics are names. *)
IsMerge(merge, names) ==
  /\ merge.options = [k \in DOMAIN merge.options |-> merge.options[k]]
  /\ merge.diagnostics \in Seq(names)

(* Two objects agree on a key, the member and its absence.                 *)
Agree(a, b, key) ==
  /\ key \in DOMAIN a <=> key \in DOMAIN b
  /\ key \in DOMAIN a => a[key] = b[key]

LEMMA WithOptionIsMerge ==
  ASSUME NEW names, NEW merge, IsMerge(merge, names), NEW key, NEW value
  PROVE  /\ IsMerge(WithOption(merge, key, value), names)
         /\ WithOption(merge, key, value).diagnostics = merge.diagnostics
         /\ \A k : k # key =>
              Agree(WithOption(merge, key, value).options, merge.options, k)
BY DEF IsMerge, WithOption, Put, Agree

LEMMA WithDiagnosticIsMerge ==
  ASSUME NEW names, NEW merge, IsMerge(merge, names), NEW name \in names
  PROVE  /\ IsMerge(WithDiagnostic(merge, name), names)
         /\ WithDiagnostic(merge, name).diagnostics # <<>>
         /\ WithDiagnostic(merge, name).options = merge.options
<1>1. /\ Append(merge.diagnostics, name) \in Seq(names)
      /\ Append(merge.diagnostics, name) # <<>>
  BY AppendProperties DEF IsMerge
<1>2. QED
  BY <1>1 DEF IsMerge, WithDiagnostic

LEMMA TakeNumberIsMerge ==
  ASSUME NEW merge, IsMerge(merge, GlobalNames), NEW defaults,
         NEW globalKey \in GlobalNames, NEW clangKey
  PROVE  LET taken == TakeNumber(globalKey, clangKey, defaults, merge)
         IN /\ IsMerge(taken, GlobalNames)
            /\ \A k : k # clangKey => Agree(taken.options, merge.options, k)
<1> DEFINE number == Number(Truncate(HalvesOf(defaults[globalKey])))
           with   == WithOption(merge, clangKey, number)
           bad    == WithDiagnostic(merge, globalKey)
<1>1. /\ IsMerge(with, GlobalNames)
      /\ \A k : k # clangKey => Agree(with.options, merge.options, k)
  BY WithOptionIsMerge
<1>2. IsMerge(bad, GlobalNames) /\ bad.options = merge.options
  BY WithDiagnosticIsMerge
<1>3. \A k : Agree(merge.options, merge.options, k)
  BY DEF Agree
<1>4. TakeNumber(globalKey, clangKey, defaults, merge) \in {merge, with, bad}
  BY DEF TakeNumber
<1> HIDE DEF with, bad
<1>5. QED
  BY <1>1, <1>2, <1>3, <1>4

LEMMA TakeUseTabsIsMerge ==
  ASSUME NEW merge, IsMerge(merge, GlobalNames), NEW defaults
  PROVE  LET taken == TakeUseTabs(defaults, merge)
         IN /\ IsMerge(taken, GlobalNames)
            /\ \A k : k # "UseTab" => Agree(taken.options, merge.options, k)
<1> DEFINE with == WithOption(merge, "UseTab", TabStyle(defaults["useTabs"]))
           bad  == WithDiagnostic(merge, "useTabs")
<1>1. /\ IsMerge(with, GlobalNames)
      /\ \A k : k # "UseTab" => Agree(with.options, merge.options, k)
  BY WithOptionIsMerge
<1>2. IsMerge(bad, GlobalNames) /\ bad.options = merge.options
  <2>1. "useTabs" \in GlobalNames
    BY DEF GlobalNames
  <2>2. QED
    BY <2>1, WithDiagnosticIsMerge
<1>3. \A k : Agree(merge.options, merge.options, k)
  BY DEF Agree
<1>4. TakeUseTabs(defaults, merge) \in {merge, with, bad}
  BY DEF TakeUseTabs
<1> HIDE DEF with, bad
<1>5. QED
  BY <1>1, <1>2, <1>3, <1>4

LEMMA MergeObjectIsMerge ==
  ASSUME NEW names, NEW merge, merge.diagnostics \in Seq(names), NEW source
  PROVE  LET merged == MergeObjectOptions(source, merge)
         IN /\ IsMerge(merged, names)
            /\ \A k : IF k \in DOMAIN source
                     THEN Agree(merged.options, source, k)
                     ELSE Agree(merged.options, merge.options, k)
BY DEF IsMerge, MergeObjectOptions, Agree

(* merge_global_options leaves BasedOnStyle alone. *)
LEMMA MergeGlobalIsMerge ==
  ASSUME NEW merge, IsMerge(merge, GlobalNames), NEW defaults
  PROVE  LET merged == MergeGlobalOptions(defaults, merge)
         IN /\ IsMerge(merged, GlobalNames)
            /\ Agree(merged.options, merge.options, "BasedOnStyle")
<1>0. /\ "lineWidth" \in GlobalNames
      /\ "indentWidth" \in GlobalNames
  BY DEF GlobalNames
<1>1. PICK m1 : m1 = TakeNumber("lineWidth", "ColumnLimit", defaults, merge)
  OBVIOUS
<1>2. PICK m2 : m2 = TakeNumber("indentWidth", "IndentWidth", defaults, m1)
  OBVIOUS
<1>3. PICK m3 : m3 = TakeUseTabs(defaults, m2)
  OBVIOUS
<1>4. IsMerge(m1, GlobalNames) /\ Agree(m1.options, merge.options, "BasedOnStyle")
  BY <1>0, <1>1, TakeNumberIsMerge
<1>5. IsMerge(m2, GlobalNames) /\ Agree(m2.options, m1.options, "BasedOnStyle")
  BY <1>0, <1>2, <1>4, TakeNumberIsMerge
<1>6. IsMerge(m3, GlobalNames) /\ Agree(m3.options, m2.options, "BasedOnStyle")
  BY <1>3, <1>5, TakeUseTabsIsMerge
<1>7. Agree(m3.options, merge.options, "BasedOnStyle")
  BY <1>4, <1>5, <1>6 DEF Agree
<1>8. MergeGlobalOptions(defaults, merge) = m3
  BY <1>1, <1>2, <1>3 DEF MergeGlobalOptions
<1>9. QED
  BY <1>6, <1>7, <1>8

-----------------------------------------------------------------------------
(* reject_filesystem_dependent_style, and the whole merge. *)

(* The object that has the last word on BasedOnStyle. *)
Ranking(own, over) == IF "BasedOnStyle" \in DOMAIN over THEN over ELSE own

HasDiagnostic(diagnostics, name) ==
  \E i \in DOMAIN diagnostics : diagnostics[i] = name

LEMMA RejectIsMerge ==
  ASSUME NEW merge, IsMerge(merge, GlobalNames)
  PROVE  LET checked == RejectFilesystemStyle(merge)
         IN /\ IsMerge(checked, Names)
            /\ checked.options = merge.options
            /\ NamesOneOf(merge.options, FilesystemStyles)
                 <=> HasDiagnostic(checked.diagnostics, "BasedOnStyle")
<1> DEFINE bad == WithDiagnostic(merge, "BasedOnStyle")
<1>1. merge.diagnostics \in Seq(GlobalNames) /\ merge.diagnostics \in Seq(Names)
  BY DEF IsMerge, Names
<1>2. "BasedOnStyle" \in Names /\ "BasedOnStyle" \notin GlobalNames
  BY DEF Names, GlobalNames
<1>3. IsMerge(merge, Names)
  BY <1>1 DEF IsMerge
<1>4. IsMerge(bad, Names) /\ bad.options = merge.options
  BY <1>2, <1>3, WithDiagnosticIsMerge
<1>5. HasDiagnostic(bad.diagnostics, "BasedOnStyle")
  <2>1. PICK d : d = Append(merge.diagnostics, "BasedOnStyle")
    OBVIOUS
  <2>2. /\ d \in Seq(Names)
        /\ Len(d) = Len(merge.diagnostics) + 1
        /\ d[Len(merge.diagnostics) + 1] = "BasedOnStyle"
    BY <1>1, <1>2, <2>1, AppendProperties
  <2>3. Len(d) \in DOMAIN d /\ d[Len(d)] = "BasedOnStyle"
    BY <1>1, <2>2
  <2>4. QED
    BY <2>1, <2>3 DEF HasDiagnostic, WithDiagnostic
<1>6. ~HasDiagnostic(merge.diagnostics, "BasedOnStyle")
  BY <1>1, <1>2 DEF HasDiagnostic
<1>7. QED
  BY <1>3, <1>4, <1>5, <1>6 DEF RejectFilesystemStyle

LEMMA MergedIsMerge ==
  ASSUME NEW own, NEW defaults, NEW over
  PROVE  LET merged == Merged(own, defaults, over)
         IN /\ IsMerge(merged, Names)
            /\ Agree(merged.options, Ranking(own, over), "BasedOnStyle")
            /\ NamesOneOf(merged.options, FilesystemStyles)
                 <=> HasDiagnostic(merged.diagnostics, "BasedOnStyle")
<1>0. PICK m0 : m0 = [options |-> EmptyObject, diagnostics |-> <<>>]
  OBVIOUS
<1>1. PICK m1 : m1 = MergeObjectOptions(own, m0)
  OBVIOUS
<1>2. PICK m2 : m2 = MergeObjectOptions(over, m1)
  OBVIOUS
<1>3. PICK m3 : m3 = MergeGlobalOptions(defaults, m2)
  OBVIOUS
<1>4. PICK m : m = RejectFilesystemStyle(m3)
  OBVIOUS
<1>5. m0.diagnostics \in Seq(GlobalNames) /\ DOMAIN m0.options = {}
  BY <1>0 DEF EmptyObject
<1>6. IsMerge(m1, GlobalNames) /\ Agree(m1.options, own, "BasedOnStyle")
  BY <1>1, <1>5, MergeObjectIsMerge DEF Agree
<1>7. /\ IsMerge(m2, GlobalNames)
      /\ IF "BasedOnStyle" \in DOMAIN over
           THEN Agree(m2.options, over, "BasedOnStyle")
           ELSE Agree(m2.options, m1.options, "BasedOnStyle")
  BY <1>2, <1>6, MergeObjectIsMerge DEF IsMerge
<1>8. IsMerge(m3, GlobalNames) /\ Agree(m3.options, m2.options, "BasedOnStyle")
  BY <1>3, <1>7, MergeGlobalIsMerge
<1>9. /\ IsMerge(m, Names)
      /\ m.options = m3.options
      /\ NamesOneOf(m3.options, FilesystemStyles)
           <=> HasDiagnostic(m.diagnostics, "BasedOnStyle")
  BY <1>4, <1>8, RejectIsMerge
<1>10. Agree(m.options, Ranking(own, over), "BasedOnStyle")
  BY <1>6, <1>7, <1>8, <1>9 DEF Agree, Ranking
<1>11. Merged(own, defaults, over) = m
  BY <1>0, <1>1, <1>2, <1>3, <1>4 DEF Merged
<1>12. QED
  BY <1>9, <1>10, <1>11

-----------------------------------------------------------------------------
(* The four ways out of resolve_format_style. *)

LEMMA ResolveCases ==
  ASSUME NEW own, NEW defaults, NEW over,
         NEW r, r = ResolveFormatStyle(own, defaults, over),
         NEW m, m = Merged(own, defaults, over)
  PROVE  /\ r.resolved = m.options
         /\ r.valid \in BOOLEAN
         /\ r.valid => r.style = StyleOf(m.options)
         /\ ~r.valid => r.style = LLVMStyle /\ r.diagnostics # <<>>
         /\ r.diagnostics = <<>> => r.valid
         /\ r.valid /\ DOMAIN m.options # {} => m.diagnostics = <<>>
         /\ m.diagnostics # <<>> => r.diagnostics = m.diagnostics
         /\ m.diagnostics = <<>> => r.diagnostics \in {<<>>, <<"clangFormat">>}
<1>1. IsMerge(m, Names)
  BY MergedIsMerge
<1>2. ASSUME DOMAIN m.options = {}
      PROVE  m.options = EmptyObject
  BY <1>1, <1>2 DEF IsMerge, EmptyObject
<1>3. <<"clangFormat">> # <<>>
  OBVIOUS
<1>4. QED
  BY <1>2, <1>3 DEF ResolveFormatStyle, LLVMStyle

-----------------------------------------------------------------------------
(* Who decides an option. *)

(* The cast to int64_t drops the fraction, and nothing else. *)
LEMMA TruncateTowardsZero ==
  ASSUME NEW h \in Int
  PROVE  LET n == 2 * Truncate(h)
         IN /\ n \in Int
            /\ n % 2 = 0 /\ n * h >= 0 /\ (h - n) \in {-1, 0, 1}
            /\ IF h < 0 THEN n >= h ELSE n <= h
<1>1. CASE h < 0
  <2>1. PICK q \in Nat : q = (-h) \div 2
    BY <1>1
  <2>2. 2 * q <= -h /\ -h <= 2 * q + 1
    BY <1>1, <2>1
  <2>3. Truncate(h) = -q
    BY <1>1, <2>1 DEF Truncate
  <2>4. (-(2 * q)) * h >= 0
    BY <1>1
  <2>5. (2 * (-q)) % 2 = 0
    OBVIOUS
  <2>6. QED
    BY <1>1, <2>2, <2>3, <2>4, <2>5
<1>2. CASE h >= 0
  <2>1. PICK q \in Nat : q = h \div 2
    BY <1>2
  <2>2. 2 * q <= h /\ h <= 2 * q + 1
    BY <1>2, <2>1
  <2>3. Truncate(h) = q
    BY <1>2, <2>1 DEF Truncate
  <2>4. (2 * q) * h >= 0
    BY <1>2
  <2>5. (2 * q) % 2 = 0
    OBVIOUS
  <2>6. QED
    BY <1>2, <2>2, <2>3, <2>4, <2>5
<1>3. QED
  BY <1>1, <1>2

(* take_number adds one option, or none.                                   *)
LEMMA TakeNumberEffect ==
  ASSUME NEW merge, NEW defaults, NEW globalKey, NEW clangKey,
         NEW used, used <=> /\ Applies(defaults, globalKey, merge.options, clangKey)
                            /\ IsNumber(defaults[globalKey]),
         NEW taken, taken = TakeNumber(globalKey, clangKey, defaults, merge)
  PROVE  /\ DOMAIN taken.options =
              DOMAIN merge.options \cup {k \in {clangKey} : used}
         /\ \A k \in DOMAIN merge.options : taken.options[k] = merge.options[k]
         /\ used => taken.options[clangKey] =
                      Number(Truncate(HalvesOf(defaults[globalKey])))
<1>1. CASE used
  <2>1. taken = WithOption(merge, clangKey,
                           Number(Truncate(HalvesOf(defaults[globalKey]))))
    BY <1>1 DEF TakeNumber
  <2>2. clangKey \notin DOMAIN merge.options
    BY <1>1 DEF Applies
  <2>3. QED
    BY <1>1, <2>1, <2>2 DEF WithOption, Put
<1>2. CASE ~used
  <2>1. taken.options = merge.options
    BY <1>2 DEF TakeNumber, WithDiagnostic
  <2>2. QED
    BY <1>2, <2>1
<1>3. QED
  BY <1>1, <1>2

LEMMA TakeUseTabsEffect ==
  ASSUME NEW merge, NEW defaults,
         NEW used, used <=> /\ Applies(defaults, "useTabs", merge.options, "UseTab")
                            /\ IsBool(defaults["useTabs"]),
         NEW taken, taken = TakeUseTabs(defaults, merge)
  PROVE  /\ DOMAIN taken.options =
              DOMAIN merge.options \cup {k \in {"UseTab"} : used}
         /\ \A k \in DOMAIN merge.options : taken.options[k] = merge.options[k]
         /\ used => taken.options["UseTab"] = TabStyle(defaults["useTabs"])
<1>1. CASE used
  <2>1. taken = WithOption(merge, "UseTab", TabStyle(defaults["useTabs"]))
    BY <1>1 DEF TakeUseTabs
  <2>2. "UseTab" \notin DOMAIN merge.options
    BY <1>1 DEF Applies
  <2>3. QED
    BY <1>1, <2>1, <2>2 DEF WithOption, Put
<1>2. CASE ~used
  <2>1. taken.options = merge.options
    BY <1>2 DEF TakeUseTabs, WithDiagnostic
  <2>2. QED
    BY <1>2, <2>1
<1>3. QED
  BY <1>1, <1>2

LEMMA HalvesAreIntegers ==
  ASSUME NEW value, IsJson(value), IsNumber(value)
  PROVE  HalvesOf(value) \in Int
<1>1. CASE value.kind = "number"
  <2>1. value \notin {Null, Container, Bool(TRUE), Bool(FALSE)}
    BY <1>1 DEF Null, Container, Bool
  <2>2. value.halves \in Int
    BY <1>1, <2>1 DEF IsJson
  <2>3. QED
    BY <1>1, <2>2 DEF HalvesOf
<1>2. CASE value.kind # "number"
  BY <1>2, NumericTextsAssumption DEF IsNumber, HalvesOf
<1>3. QED
  BY <1>1, <1>2

LEMMA BooleansAreSpelled ==
  ASSUME NEW value, IsJson(value), IsBool(value)
  PROVE  BoolOf(value) <=> value \in {Bool(TRUE), Str("true")}
<1>1. CASE value.kind = "bool"
  <2>1. value \in {Bool(TRUE), Bool(FALSE)}
    <3>1. value \notin {Null, Container}
      BY <1>1 DEF Null, Container
    <3>2. value.kind \notin {"number", "string"}
      BY <1>1
    <3>3. QED
      BY <3>1, <3>2 DEF IsJson
  <2>2. BoolOf(Bool(TRUE)) /\ ~BoolOf(Bool(FALSE))
    BY DEF BoolOf, Bool
  <2>3. Bool(FALSE) # Bool(TRUE) /\ Bool(FALSE) # Str("true")
    BY DEF Bool, Str
  <2>4. QED
    BY <2>1, <2>2, <2>3
<1>2. CASE value.kind = "string"
  <2>1. value = Str(value.text)
    <3>1. value \notin {Null, Container, Bool(TRUE), Bool(FALSE)}
      BY <1>2 DEF Null, Container, Bool
    <3>2. value.kind # "number"
      BY <1>2
    <3>3. QED
      BY <3>1, <3>2 DEF IsJson
  <2>2. BoolOf(value) <=> value.text = "true"
    BY <1>2 DEF BoolOf
  <2>3. value # Bool(TRUE)
    BY <1>2 DEF Bool
  <2>4. value = Str("true") <=> value.text = "true"
    BY <2>1 DEF Str
  <2>5. QED
    BY <2>2, <2>3, <2>4
<1>3. QED
  BY <1>1, <1>2 DEF IsBool

-----------------------------------------------------------------------------
(* The result of resolve_format_style.                                     *)

(* Inputs stay what was drawn; the result is not there yet, or it is the   *)
(* function's.                                                             *)
ResultInv ==
  /\ global \in Globals
  /\ \/ result = Pending
     \/ result = ResolveFormatStyle(plugin, global, override)

LEMMA ResultInvariant == Spec => []ResultInv
<1>1. Init => ResultInv
  BY DEF Init, ResultInv
<1>2. ResultInv /\ [Next]_vars => ResultInv'
  BY DEF ResultInv, Next, Resolve, vars
<1>3. QED
  BY <1>1, <1>2, PTL DEF Spec

(* An invalid result has a diagnostic and LLVM's style; a valid one has    *)
(* the style of the options it reports (resolve_format_style).             *)
THEOREM ValidityIsExplained == Spec => []ValidityExplained
<1>1. ResultInv => ValidityExplained
  <2>1. SUFFICES ASSUME ResultInv, Resolved
                 PROVE  /\ ~result.valid => /\ result.diagnostics # <<>>
                                            /\ result.style = LLVMStyle
                        /\ result.valid => result.style = StyleOf(result.resolved)
    BY DEF ValidityExplained
  <2>2. result = ResolveFormatStyle(plugin, global, override)
    BY <2>1 DEF ResultInv, Resolved
  <2>3. QED
    BY <2>2, ResolveCases
<1>2. QED
  BY <1>1, ResultInvariant, PTL

(* A style of the file system, named by whichever source has the last word *)
(* on BasedOnStyle, is reported and leaves LLVM's style, invalid; nothing  *)
(* else is reported so (reject_filesystem_dependent_style).                *)
THEOREM FilesystemIsRejected == Spec => []FilesystemStyleRejected
<1>1. ResultInv => FilesystemStyleRejected
  <2>1. SUFFICES ASSUME ResultInv, Resolved
                 PROVE  NamesOneOf(Ranking(plugin, override), FilesystemStyles)
                          <=> /\ HasDiagnostic(result.diagnostics, "BasedOnStyle")
                              /\ ~result.valid
                              /\ result.style = LLVMStyle
    BY DEF FilesystemStyleRejected, Ranking, HasDiagnostic
  <2>2. result = ResolveFormatStyle(plugin, global, override)
    BY <2>1 DEF ResultInv, Resolved
  <2>3. PICK m : m = Merged(plugin, global, override)
    OBVIOUS
  <2>4. /\ Agree(m.options, Ranking(plugin, override), "BasedOnStyle")
        /\ NamesOneOf(m.options, FilesystemStyles)
             <=> HasDiagnostic(m.diagnostics, "BasedOnStyle")
    BY <2>3, MergedIsMerge
  <2>5. NamesOneOf(m.options, FilesystemStyles)
          <=> NamesOneOf(Ranking(plugin, override), FilesystemStyles)
    BY <2>4 DEF Agree, NamesOneOf
  <2>6. CASE NamesOneOf(m.options, FilesystemStyles)
    <3>1. HasDiagnostic(m.diagnostics, "BasedOnStyle") /\ DOMAIN m.options # {}
      BY <2>4, <2>6 DEF NamesOneOf
    <3>2. m.diagnostics # <<>>
      BY <3>1 DEF HasDiagnostic
    <3>3. /\ ~result.valid
          /\ result.style = LLVMStyle
          /\ result.diagnostics = m.diagnostics
      BY <2>2, <2>3, <3>1, <3>2, ResolveCases
    <3>4. QED
      BY <2>5, <2>6, <3>1, <3>3
  <2>7. CASE ~NamesOneOf(m.options, FilesystemStyles)
    <3>1. ~HasDiagnostic(m.diagnostics, "BasedOnStyle")
      BY <2>4, <2>7
    <3>2. \/ result.diagnostics = m.diagnostics
          \/ result.diagnostics \in {<<>>, <<"clangFormat">>}
      BY <2>2, <2>3, ResolveCases
    <3>3. /\ ~HasDiagnostic(<<>>, "BasedOnStyle")
          /\ ~HasDiagnostic(<<"clangFormat">>, "BasedOnStyle")
      BY DEF HasDiagnostic
    <3>4. QED
      BY <2>5, <2>7, <3>1, <3>2, <3>3
  <2>8. QED
    BY <2>6, <2>7
<1>2. QED
  BY <1>1, ResultInvariant, PTL

-----------------------------------------------------------------------------
(* The global option that goes with a clang-format option is used.         *)
Used(key) == FromGlobal(key) /\ WellTyped(key)

NumberKeys == {"ColumnLimit", "IndentWidth"}

LEMMA GlobalOfKeys ==
  /\ DOMAIN GlobalOf = NumberKeys \cup {"UseTab"}
  /\ GlobalOf["ColumnLimit"] = "lineWidth"
  /\ GlobalOf["IndentWidth"] = "indentWidth"
  /\ GlobalOf["UseTab"] = "useTabs"
BY DEF GlobalOf, NumberKeys

LEMMA MergedRanked ==
  ASSUME NEW m, m = Merged(plugin, global, override)
  PROVE  /\ DOMAIN m.options = DOMAIN plugin \cup DOMAIN override
                                 \cup {k \in DOMAIN GlobalOf : Used(k)}
         /\ \A k \in DOMAIN override : m.options[k] = override[k]
         /\ \A k \in DOMAIN plugin \ DOMAIN override : m.options[k] = plugin[k]
         /\ \A k \in NumberKeys : Used(k) =>
              m.options[k] = Number(Truncate(HalvesOf(global[GlobalOf[k]])))
         /\ Used("UseTab") => m.options["UseTab"] = TabStyle(global["useTabs"])
<1>0. PICK m0 : m0 = [options |-> EmptyObject, diagnostics |-> <<>>]
  OBVIOUS
<1>1. PICK m1 : m1 = MergeObjectOptions(plugin, m0)
  OBVIOUS
<1>2. PICK m2 : m2 = MergeObjectOptions(override, m1)
  OBVIOUS
<1>3. PICK m3 : m3 = TakeNumber("lineWidth", "ColumnLimit", global, m2)
  OBVIOUS
<1>4. PICK m4 : m4 = TakeNumber("indentWidth", "IndentWidth", global, m3)
  OBVIOUS
<1>5. PICK m5 : m5 = TakeUseTabs(global, m4)
  OBVIOUS
<1>6. m = RejectFilesystemStyle(m5)
  BY <1>0, <1>1, <1>2, <1>3, <1>4, <1>5 DEF Merged, MergeGlobalOptions
<1>7. m.options = m5.options
  BY <1>6 DEF RejectFilesystemStyle, WithDiagnostic
<1>8. /\ DOMAIN m2.options = DOMAIN plugin \cup DOMAIN override
      /\ \A k \in DOMAIN override : m2.options[k] = override[k]
      /\ \A k \in DOMAIN plugin \ DOMAIN override : m2.options[k] = plugin[k]
  BY <1>0, <1>1, <1>2 DEF MergeObjectOptions, EmptyObject
<1>9. Used("ColumnLimit") <=> /\ Applies(global, "lineWidth", m2.options, "ColumnLimit")
                              /\ IsNumber(global["lineWidth"])
  BY <1>8, GlobalOfKeys DEF Used, FromGlobal, WellTyped, Applies, NumberKeys
<1>10. /\ DOMAIN m3.options =
             DOMAIN m2.options \cup {k \in {"ColumnLimit"} : Used("ColumnLimit")}
       /\ \A k \in DOMAIN m2.options : m3.options[k] = m2.options[k]
       /\ Used("ColumnLimit") => m3.options["ColumnLimit"] =
             Number(Truncate(HalvesOf(global["lineWidth"])))
  BY <1>3, <1>9, TakeNumberEffect
<1>11. Used("IndentWidth") <=> /\ Applies(global, "indentWidth", m3.options, "IndentWidth")
                               /\ IsNumber(global["indentWidth"])
  BY <1>8, <1>10, GlobalOfKeys DEF Used, FromGlobal, WellTyped, Applies, NumberKeys
<1>12. /\ DOMAIN m4.options =
             DOMAIN m3.options \cup {k \in {"IndentWidth"} : Used("IndentWidth")}
       /\ \A k \in DOMAIN m3.options : m4.options[k] = m3.options[k]
       /\ Used("IndentWidth") => m4.options["IndentWidth"] =
             Number(Truncate(HalvesOf(global["indentWidth"])))
  BY <1>4, <1>11, TakeNumberEffect
<1>13. Used("UseTab") <=> /\ Applies(global, "useTabs", m4.options, "UseTab")
                          /\ IsBool(global["useTabs"])
  BY <1>8, <1>10, <1>12, GlobalOfKeys DEF Used, FromGlobal, WellTyped, Applies, NumberKeys
<1>14. /\ DOMAIN m5.options =
             DOMAIN m4.options \cup {k \in {"UseTab"} : Used("UseTab")}
       /\ \A k \in DOMAIN m4.options : m5.options[k] = m4.options[k]
       /\ Used("UseTab") => m5.options["UseTab"] = TabStyle(global["useTabs"])
  BY <1>5, <1>13, TakeUseTabsEffect
<1>15. DOMAIN m5.options = DOMAIN plugin \cup DOMAIN override
                             \cup {k \in DOMAIN GlobalOf : Used(k)}
  BY <1>8, <1>10, <1>12, <1>14, GlobalOfKeys DEF NumberKeys
<1>16. \A k \in DOMAIN m2.options : m5.options[k] = m2.options[k]
  BY <1>10, <1>12, <1>14
<1>17. \A k \in NumberKeys : Used(k) =>
         m5.options[k] = Number(Truncate(HalvesOf(global[GlobalOf[k]])))
  BY <1>10, <1>12, <1>14, GlobalOfKeys DEF NumberKeys
<1>18. QED
  BY <1>7, <1>8, <1>14, <1>15, <1>16, <1>17

(* An override outranks the plugin configuration, which outranks the       *)
(* globals; a global that decides has its number truncated or its boolean  *)
(* turned into UseTab; no other option appears (README.md, Configure).     *)
THEOREM SourcesAreRanked == Spec => []SourcesRanked
<1>1. ResultInv => SourcesRanked
  <2>1. SUFFICES ASSUME ResultInv, Resolved
                 PROVE  SourcesRanked
    BY DEF SourcesRanked
  <2>2. PICK m : m = Merged(plugin, global, override)
    OBVIOUS
  <2>3. result.resolved = m.options
    BY <2>1, <2>2, ResolveCases DEF ResultInv, Resolved
  <2>4. DOMAIN result.resolved =
          DOMAIN plugin \cup DOMAIN override
            \cup {k \in DOMAIN GlobalOf : FromGlobal(k) /\ WellTyped(k)}
    BY <2>2, <2>3, MergedRanked DEF Used
  <2>5. ASSUME NEW k \in DOMAIN result.resolved,
               k \notin DOMAIN override, k \notin DOMAIN plugin,
               k # "UseTab"
        PROVE  LET h == HalvesOf(global[GlobalOf[k]])
                   n == result.resolved[k].halves
               IN n % 2 = 0 /\ n * h >= 0 /\ (h - n) \in {-1, 0, 1}
                  /\ (IF h < 0 THEN n >= h ELSE n <= h)
    <3>1. k \in NumberKeys /\ Used(k)
      BY <2>4, <2>5, GlobalOfKeys DEF Used
    <3>2. PICK h : h = HalvesOf(global[GlobalOf[k]])
      OBVIOUS
    <3>3. h \in Int
      <4>1. IsNumber(global[GlobalOf[k]]) /\ GlobalOf[k] \in DOMAIN global
        BY <3>1, GlobalOfKeys DEF Used, WellTyped, FromGlobal, NumberKeys
      <4>2. global \in Globals
        BY <2>1 DEF ResultInv
      <4>3. QED
        BY <3>2, <4>1, <4>2, GlobalsAssumption, HalvesAreIntegers
    <3>4. result.resolved[k] = Number(Truncate(h))
      BY <2>2, <2>3, <3>1, <3>2, MergedRanked
    <3>5. result.resolved[k].halves = 2 * Truncate(h)
      BY <3>4 DEF Number
    <3>6. QED
      BY <3>2, <3>3, <3>5, TruncateTowardsZero
  <2>6. ASSUME NEW k \in DOMAIN result.resolved,
               k \notin DOMAIN override, k \notin DOMAIN plugin,
               k = "UseTab"
        PROVE  result.resolved[k] =
                 IF global["useTabs"] \in {Bool(TRUE), Str("true")}
                 THEN Str("Always") ELSE Str("Never")
    <3>1. Used("UseTab")
      BY <2>4, <2>6 DEF Used
    <3>2. result.resolved[k] = TabStyle(global["useTabs"])
      BY <2>2, <2>3, <2>6, <3>1, MergedRanked
    <3>3. BoolOf(global["useTabs"]) <=> global["useTabs"] \in {Bool(TRUE), Str("true")}
      <4>1. IsBool(global["useTabs"]) /\ "useTabs" \in DOMAIN global
        BY <3>1, GlobalOfKeys DEF Used, WellTyped, FromGlobal
      <4>2. global \in Globals
        BY <2>1 DEF ResultInv
      <4>3. QED
        BY <4>1, <4>2, GlobalsAssumption, BooleansAreSpelled
    <3>4. QED
      BY <3>2, <3>3 DEF TabStyle
  <2>7. ASSUME NEW k \in DOMAIN override
        PROVE  result.resolved[k] = override[k]
    BY <2>2, <2>3, MergedRanked
  <2>8. ASSUME NEW k \in DOMAIN plugin \ DOMAIN override
        PROVE  result.resolved[k] = plugin[k]
    BY <2>2, <2>3, MergedRanked
  <2>9. QED
    BY <2>4, <2>5, <2>6, <2>7, <2>8 DEF SourcesRanked
<1>2. QED
  BY <1>1, ResultInvariant, PTL

-----------------------------------------------------------------------------
(* What is reported of the globals, and in which order. *)

(* A global option that is consulted and is of the wrong type.             *)
Bad(key) == FromGlobal(key) /\ ~WellTyped(key)

Report(diagnostics, bad, name) ==
  IF bad THEN Append(diagnostics, name) ELSE diagnostics

GlobalReports ==
  Report(Report(Report(<<>>, Bad("ColumnLimit"), "lineWidth"),
                Bad("IndentWidth"), "indentWidth"),
         Bad("UseTab"), "useTabs")

(* take_number and its like for useTabs add one diagnostic, or none. *)
LEMMA NumberReports ==
  ASSUME NEW merge, NEW defaults, NEW globalKey, NEW clangKey, NEW bad,
         bad <=> /\ Applies(defaults, globalKey, merge.options, clangKey)
                 /\ ~IsNumber(defaults[globalKey])
  PROVE  TakeNumber(globalKey, clangKey, defaults, merge).diagnostics
           = Report(merge.diagnostics, bad, globalKey)
BY DEF TakeNumber, WithOption, WithDiagnostic, Report

LEMMA UseTabsReports ==
  ASSUME NEW merge, NEW defaults, NEW bad,
         bad <=> /\ Applies(defaults, "useTabs", merge.options, "UseTab")
                 /\ ~IsBool(defaults["useTabs"])
  PROVE  TakeUseTabs(defaults, merge).diagnostics
           = Report(merge.diagnostics, bad, "useTabs")
BY DEF TakeUseTabs, WithOption, WithDiagnostic, Report

(* Options that hold what was given, and what the globals added, if any:   *)
(* each bad global is still looked at.                                     *)
LEMMA BadApplies ==
  ASSUME NEW options, NEW added \in SUBSET {k \in DOMAIN GlobalOf : Used(k)},
         DOMAIN options = DOMAIN plugin \cup DOMAIN override \cup added
  PROVE  /\ Bad("ColumnLimit") <=> /\ Applies(global, "lineWidth", options, "ColumnLimit")
                                   /\ ~IsNumber(global["lineWidth"])
         /\ Bad("IndentWidth") <=> /\ Applies(global, "indentWidth", options, "IndentWidth")
                                   /\ ~IsNumber(global["indentWidth"])
         /\ Bad("UseTab") <=> /\ Applies(global, "useTabs", options, "UseTab")
                              /\ ~IsBool(global["useTabs"])
<1>1. \A k \in DOMAIN GlobalOf : Used(k) => WellTyped(k)
  BY DEF Used
<1>2. QED
  BY <1>1, GlobalOfKeys DEF Bad, FromGlobal, WellTyped, Applies, NumberKeys

LEMMA MergeReports ==
  ASSUME NEW m, m = Merged(plugin, global, override)
  PROVE  /\ m = [options |-> m.options, diagnostics |-> m.diagnostics]
         /\ m.options = [k \in DOMAIN m.options |-> m.options[k]]
         /\ m.diagnostics = Report(GlobalReports,
                                   NamesOneOf(m.options, FilesystemStyles),
                                   "BasedOnStyle")
<1>0. PICK m0 : m0 = [options |-> EmptyObject, diagnostics |-> <<>>]
  OBVIOUS
<1>1. PICK m1 : m1 = MergeObjectOptions(plugin, m0)
  OBVIOUS
<1>2. PICK m2 : m2 = MergeObjectOptions(override, m1)
  OBVIOUS
<1>3. PICK m3 : m3 = TakeNumber("lineWidth", "ColumnLimit", global, m2)
  OBVIOUS
<1>4. PICK m4 : m4 = TakeNumber("indentWidth", "IndentWidth", global, m3)
  OBVIOUS
<1>5. PICK m5 : m5 = TakeUseTabs(global, m4)
  OBVIOUS
<1>6. m = RejectFilesystemStyle(m5)
  BY <1>0, <1>1, <1>2, <1>3, <1>4, <1>5 DEF Merged, MergeGlobalOptions
<1>7. m2.diagnostics = <<>> /\ DOMAIN m2.options = DOMAIN plugin \cup DOMAIN override
  BY <1>0, <1>1, <1>2 DEF MergeObjectOptions, EmptyObject
<1>8. Used("ColumnLimit") <=> /\ Applies(global, "lineWidth", m2.options, "ColumnLimit")
                              /\ IsNumber(global["lineWidth"])
  BY <1>7, GlobalOfKeys DEF Used, FromGlobal, WellTyped, Applies, NumberKeys
<1>9. DOMAIN m3.options = DOMAIN m2.options \cup {k \in {"ColumnLimit"} : Used("ColumnLimit")}
  BY <1>3, <1>8, TakeNumberEffect
<1>10. Used("IndentWidth") <=> /\ Applies(global, "indentWidth", m3.options, "IndentWidth")
                               /\ IsNumber(global["indentWidth"])
  BY <1>7, <1>9, GlobalOfKeys DEF Used, FromGlobal, WellTyped, Applies, NumberKeys
<1>11. DOMAIN m4.options = DOMAIN m3.options \cup {k \in {"IndentWidth"} : Used("IndentWidth")}
  BY <1>4, <1>10, TakeNumberEffect
<1>12. m3.diagnostics = Report(m2.diagnostics, Bad("ColumnLimit"), "lineWidth")
  <2>1. Bad("ColumnLimit") <=> /\ Applies(global, "lineWidth", m2.options, "ColumnLimit")
                               /\ ~IsNumber(global["lineWidth"])
    <3>1. PICK added : added = {}
      OBVIOUS
    <3>2. /\ added \in SUBSET {k \in DOMAIN GlobalOf : Used(k)}
          /\ DOMAIN m2.options = DOMAIN plugin \cup DOMAIN override \cup added
      BY <1>7, <3>1
    <3>3. QED
      BY <3>2, BadApplies
  <2>2. QED
    BY <1>3, <2>1, NumberReports
<1>13. m4.diagnostics = Report(m3.diagnostics, Bad("IndentWidth"), "indentWidth")
  <2>1. Bad("IndentWidth") <=> /\ Applies(global, "indentWidth", m3.options, "IndentWidth")
                               /\ ~IsNumber(global["indentWidth"])
    <3> DEFINE added == {k \in {"ColumnLimit"} : Used("ColumnLimit")}
    <3>1. added \in SUBSET {k \in DOMAIN GlobalOf : Used(k)}
      BY GlobalOfKeys DEF NumberKeys
    <3>2. DOMAIN m3.options = DOMAIN plugin \cup DOMAIN override \cup added
      BY <1>7, <1>9
    <3> HIDE DEF added
    <3>3. QED
      BY <3>1, <3>2, BadApplies
  <2>2. QED
    BY <1>4, <2>1, NumberReports
<1>14. m5.diagnostics = Report(m4.diagnostics, Bad("UseTab"), "useTabs")
  <2>1. Bad("UseTab") <=> /\ Applies(global, "useTabs", m4.options, "UseTab")
                          /\ ~IsBool(global["useTabs"])
    <3> DEFINE added == {k \in NumberKeys : Used(k)}
    <3>1. added \in SUBSET {k \in DOMAIN GlobalOf : Used(k)}
      BY GlobalOfKeys
    <3>2. DOMAIN m4.options = DOMAIN plugin \cup DOMAIN override \cup added
      BY <1>7, <1>9, <1>11 DEF NumberKeys
    <3> HIDE DEF added
    <3>3. QED
      BY <3>1, <3>2, BadApplies
  <2>2. QED
    BY <1>5, <2>1, UseTabsReports
<1>15. m5.diagnostics = GlobalReports
  BY <1>7, <1>12, <1>13, <1>14, Zenon DEF GlobalReports
<1>16. /\ m.options = m5.options
       /\ m.diagnostics = Report(m5.diagnostics, NamesOneOf(m.options, FilesystemStyles),
                                 "BasedOnStyle")
  BY <1>6 DEF RejectFilesystemStyle, WithDiagnostic, Report
<1>17. m = [options |-> m.options, diagnostics |-> m.diagnostics]
  <2> DEFINE IsPair(x) == x = [options |-> x.options, diagnostics |-> x.diagnostics]
  <2>1. IsPair(m2)
    BY <1>2 DEF MergeObjectOptions
  <2>2. \A x, key, value : IsPair(WithOption(x, key, value)) /\ IsPair(WithDiagnostic(x, key))
    BY DEF WithOption, WithDiagnostic
  <2> HIDE DEF IsPair
  <2>3. IsPair(m3)
    BY <1>3, <2>1, <2>2 DEF TakeNumber
  <2>4. IsPair(m4)
    BY <1>4, <2>2, <2>3 DEF TakeNumber
  <2>5. IsPair(m5)
    BY <1>5, <2>2, <2>4 DEF TakeUseTabs
  <2>6. IsPair(m)
    BY <1>6, <2>2, <2>5 DEF RejectFilesystemStyle
  <2>7. QED
    BY <2>6 DEF IsPair
<1>18. m.options = [k \in DOMAIN m.options |-> m.options[k]]
  BY MergedIsMerge DEF IsMerge
<1>19. QED
  BY <1>15, <1>16, <1>17, <1>18

LEMMA ReportHas ==
  ASSUME NEW d \in Seq(Names), NEW bad \in BOOLEAN, NEW name \in Names
  PROVE  /\ Report(d, bad, name) \in Seq(Names)
         /\ \A g : HasDiagnostic(Report(d, bad, name), g)
                     <=> HasDiagnostic(d, g) \/ (bad /\ g = name)
<1>1. PICK e : e = Append(d, name)
  OBVIOUS
<1>2. /\ e \in Seq(Names)
      /\ Len(e) = Len(d) + 1
      /\ e[Len(d) + 1] = name
      /\ \A i \in 1 .. Len(d) : e[i] = d[i]
  BY <1>1, AppendProperties
<1>3. DOMAIN e = 1 .. Len(d) + 1 /\ DOMAIN d = 1 .. Len(d) /\ Len(d) \in Nat
  BY <1>2
<1>4. \A g : HasDiagnostic(e, g) <=> HasDiagnostic(d, g) \/ g = name
  BY <1>2, <1>3 DEF HasDiagnostic
<1>5. QED
  BY <1>1, <1>2, <1>4 DEF Report

(* Every global option that is consulted and has the wrong type is         *)
(* reported under its own name, and no other is (merge_global_options).    *)
THEOREM BadGlobalsAreReported == Spec => []BadGlobalsReported
<1>1. ResultInv => BadGlobalsReported
  <2>1. SUFFICES ASSUME ResultInv, Resolved, NEW g \in GlobalNames
                 PROVE  HasDiagnostic(result.diagnostics, g)
                          <=> \E k \in DOMAIN GlobalOf : GlobalOf[k] = g /\ Bad(k)
    BY DEF BadGlobalsReported, HasDiagnostic, GlobalNames, Bad
  <2>2. PICK m : m = Merged(plugin, global, override)
    OBVIOUS
  <2>3. result = ResolveFormatStyle(plugin, global, override)
    BY <2>1 DEF ResultInv, Resolved
  <2>4. {"lineWidth", "indentWidth", "useTabs", "BasedOnStyle"} \subseteq Names
    BY DEF Names, GlobalNames
  <2>5. \A k : Bad(k) \in BOOLEAN
    BY DEF Bad, FromGlobal
  <2>6. PICK d1 : d1 = Report(<<>>, Bad("ColumnLimit"), "lineWidth")
    OBVIOUS
  <2>7. PICK d2 : d2 = Report(d1, Bad("IndentWidth"), "indentWidth")
    OBVIOUS
  <2>8. PICK d3 : d3 = Report(d2, Bad("UseTab"), "useTabs")
    OBVIOUS
  <2>9. ~HasDiagnostic(<<>>, g)
    BY DEF HasDiagnostic
  <2>10. d1 \in Seq(Names) /\ (HasDiagnostic(d1, g) <=> Bad("ColumnLimit") /\ g = "lineWidth")
    <3>1. <<>> \in Seq(Names)
      OBVIOUS
    <3>2. QED
      BY <2>4, <2>5, <2>6, <2>9, <3>1, ReportHas
  <2>11. /\ d2 \in Seq(Names)
         /\ HasDiagnostic(d2, g) <=> \/ HasDiagnostic(d1, g)
                                     \/ Bad("IndentWidth") /\ g = "indentWidth"
    BY <2>4, <2>5, <2>7, <2>10, ReportHas
  <2>12. /\ d3 \in Seq(Names)
         /\ HasDiagnostic(d3, g) <=> HasDiagnostic(d2, g) \/ (Bad("UseTab") /\ g = "useTabs")
    BY <2>4, <2>5, <2>8, <2>11, ReportHas
  <2>13. HasDiagnostic(m.diagnostics, g) <=> HasDiagnostic(d3, g)
    <3>1. m.diagnostics = Report(d3, NamesOneOf(m.options, FilesystemStyles), "BasedOnStyle")
      BY <2>2, <2>6, <2>7, <2>8, MergeReports DEF GlobalReports
    <3>2. NamesOneOf(m.options, FilesystemStyles) \in BOOLEAN
      BY DEF NamesOneOf
    <3>3. g # "BasedOnStyle"
      BY DEF GlobalNames
    <3>4. \A bad \in BOOLEAN : HasDiagnostic(Report(d3, bad, "BasedOnStyle"), g)
                               <=> HasDiagnostic(d3, g)
      BY <2>4, <2>12, <3>3, ReportHas
    <3>5. QED
      BY <3>1, <3>2, <3>4, Zenon
  <2>14. HasDiagnostic(result.diagnostics, g) <=> HasDiagnostic(m.diagnostics, g)
    <3>1. \/ result.diagnostics = m.diagnostics
          \/ m.diagnostics = <<>> /\ result.diagnostics \in {<<>>, <<"clangFormat">>}
      BY <2>2, <2>3, ResolveCases
    <3>2. ~HasDiagnostic(<<"clangFormat">>, g)
      BY DEF HasDiagnostic, GlobalNames
    <3>3. QED
      BY <2>9, <3>1, <3>2
  <2>15. (\E k \in DOMAIN GlobalOf : GlobalOf[k] = g /\ Bad(k))
           <=> \/ Bad("ColumnLimit") /\ g = "lineWidth"
               \/ Bad("IndentWidth") /\ g = "indentWidth"
               \/ Bad("UseTab") /\ g = "useTabs"
    BY GlobalOfKeys DEF NumberKeys
  <2>16. QED
    BY <2>10, <2>11, <2>12, <2>13, <2>14, <2>15
<1>2. QED
  BY <1>1, ResultInvariant, PTL

(* What is resolved, registered again under the same globals and with no   *)
(* override, resolves to itself, its diagnostics included: what a user     *)
(* copies from get_resolved_config changes nothing.                        *)
THEOREM ResolvedStaysFixed == Spec => []ResolvedIsFixedPoint
<1>1. ResultInv => ResolvedIsFixedPoint
  <2>1. SUFFICES ASSUME ResultInv, Resolved
                 PROVE  ResolveFormatStyle(result.resolved, global, EmptyObject) = result
    BY DEF ResolvedIsFixedPoint
  <2>2. PICK m : m = Merged(plugin, global, override)
    OBVIOUS
  <2>3. result = ResolveFormatStyle(plugin, global, override)
    BY <2>1 DEF ResultInv, Resolved
  <2>4. result.resolved = m.options
    BY <2>2, <2>3, ResolveCases
  <2>5. DOMAIN m.options = DOMAIN plugin \cup DOMAIN override
                             \cup {k \in DOMAIN GlobalOf : Used(k)}
    BY <2>2, MergedRanked
  <2> DEFINE At(d) == [options |-> m.options, diagnostics |-> d]
  <2>6. MergeObjectOptions(EmptyObject, At(<<>>)) = At(<<>>)
    <3>1. m.options = [k \in DOMAIN m.options |-> m.options[k]]
      BY <2>2, MergeReports
    <3>2. QED
      BY <3>1 DEF MergeObjectOptions, EmptyObject
  <2>7. MergeObjectOptions(m.options, [options |-> EmptyObject, diagnostics |-> <<>>])
          = At(<<>>)
    <3>1. m.options = [k \in DOMAIN m.options |-> m.options[k]]
      BY <2>2, MergeReports
    <3>2. QED
      BY <3>1 DEF MergeObjectOptions, EmptyObject
  <2>8. ASSUME NEW d
        PROVE  /\ TakeNumber("lineWidth", "ColumnLimit", global, At(d))
                    = At(Report(d, Bad("ColumnLimit"), "lineWidth"))
               /\ TakeNumber("indentWidth", "IndentWidth", global, At(d))
                    = At(Report(d, Bad("IndentWidth"), "indentWidth"))
               /\ TakeUseTabs(global, At(d)) = At(Report(d, Bad("UseTab"), "useTabs"))
    <3>1. /\ Bad("ColumnLimit") <=> /\ Applies(global, "lineWidth", m.options, "ColumnLimit")
                                    /\ ~IsNumber(global["lineWidth"])
          /\ Bad("IndentWidth") <=> /\ Applies(global, "indentWidth", m.options, "IndentWidth")
                                    /\ ~IsNumber(global["indentWidth"])
          /\ Bad("UseTab") <=> /\ Applies(global, "useTabs", m.options, "UseTab")
                               /\ ~IsBool(global["useTabs"])
      BY <2>5, BadApplies
    <3>2. /\ Applies(global, "lineWidth", m.options, "ColumnLimit")
               => ~IsNumber(global["lineWidth"])
          /\ Applies(global, "indentWidth", m.options, "IndentWidth")
               => ~IsNumber(global["indentWidth"])
          /\ Applies(global, "useTabs", m.options, "UseTab") => ~IsBool(global["useTabs"])
      BY <2>5, GlobalOfKeys DEF Used, FromGlobal, WellTyped, Applies, NumberKeys
    <3>3. At(d).options = m.options
      OBVIOUS
    <3>4. \A name : WithDiagnostic(At(d), name) = At(Append(d, name))
      BY DEF WithDiagnostic
    <3> HIDE DEF At
    <3>5. QED
      BY <3>1, <3>2, <3>3, <3>4, Zenon DEF TakeNumber, TakeUseTabs, Report
  <2>9. RejectFilesystemStyle(At(GlobalReports)) = m
    <3>1. /\ m = At(m.diagnostics)
          /\ m.diagnostics = Report(GlobalReports, NamesOneOf(m.options, FilesystemStyles),
                                    "BasedOnStyle")
      BY <2>2, MergeReports
    <3>2. RejectFilesystemStyle(At(GlobalReports))
            = At(Report(GlobalReports, NamesOneOf(m.options, FilesystemStyles), "BasedOnStyle"))
      BY DEF RejectFilesystemStyle, WithDiagnostic, Report
    <3>3. QED
      BY <3>1, <3>2
  <2> HIDE DEF At
  <2>10. Merged(m.options, global, EmptyObject) = m
    <3>1. MergeGlobalOptions(global, At(<<>>)) = At(GlobalReports)
      BY <2>8 DEF MergeGlobalOptions, GlobalReports
    <3>2. QED
      BY <2>6, <2>7, <2>9, <3>1 DEF Merged
  <2>11. QED
    BY <2>2, <2>3, <2>4, <2>10 DEF ResolveFormatStyle
<1>2. QED
  BY <1>1, ResultInvariant, PTL
=============================================================================
