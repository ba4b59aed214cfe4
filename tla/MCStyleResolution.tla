------------------------- MODULE MCStyleResolution -------------------------
(* Instance of StyleResolution for TLC: for every key a few values of the  *)
(* right type, spelled as strings, of the wrong type, null, and absent.    *)
EXTENDS StyleResolution

MCNumericTexts == [t \in {"80", "-2.5"} |-> IF t = "80" THEN 160 ELSE -5]

(* clang-format knows LLVM and the styles of the file system, and a        *)
(* ColumnLimit is an unsigned number, perhaps in a string, or absent.      *)
MCParseConfiguration(options) ==
  /\ "BasedOnStyle" \in DOMAIN options =>
       options["BasedOnStyle"] \in {Str("LLVM"), Str("file"), Str("FILE")}
  /\ "ColumnLimit" \in DOMAIN options =>
       \/ options["ColumnLimit"] = Str("80")
       \/ /\ options["ColumnLimit"].kind = "number"
          /\ options["ColumnLimit"].halves >= 0

(* Some members of an object may be absent. *)
Objects(keys, Values(_)) ==
  UNION {{o \in [ks -> UNION {Values(k) : k \in ks}] :
             \A k \in ks : o[k] \in Values(k)} : ks \in SUBSET keys}

PluginValues(key) ==
  CASE key = "BasedOnStyle" ->
         {Str("LLVM"), Str("file"), Str("FILE"), Container}
    [] key = "ColumnLimit" -> {Number(2), Null}
    [] key = "UseTab" -> {Str("Never")}

OverrideValues(key) ==
  CASE key = "BasedOnStyle" -> {Str("LLVM"), Str("file")}
    [] key = "ColumnLimit" -> {Number(3)}
    [] key = "IndentWidth" -> {Str("80")}

GlobalValues(key) ==
  CASE key = "lineWidth" ->
         {Null, Bool(TRUE), Number(80), Str("80"), Str("-2.5"), Str("x")}
    [] key = "indentWidth" -> {Fraction(7), Container}
    [] key = "useTabs" -> {Null, Bool(TRUE), Str("false"), Number(1)}

PluginKeys   == {"BasedOnStyle", "ColumnLimit", "UseTab"}
OverrideKeys == {"BasedOnStyle", "ColumnLimit", "IndentWidth"}
GlobalKeys   == {"lineWidth", "indentWidth", "useTabs"}

MCPlugins   == Objects(PluginKeys, PluginValues)
MCOverrides == Objects(OverrideKeys, OverrideValues)
MCGlobals   == Objects(GlobalKeys, GlobalValues)
=============================================================================
