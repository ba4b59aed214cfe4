--------------------------- MODULE MCDprintPlugin ---------------------------
(* Instance of DprintPlugin for TLC.                                       *)
EXTENDS DprintPlugin

MCNumericTexts == [t \in {"80"} |-> 160]

(* A negative ColumnLimit is refused. *)
MCParseConfiguration(options) ==
  "ColumnLimit" \in DOMAIN options => options["ColumnLimit"] # Number(-1)

(* Clean; rejected, unless an override outranks it; nothing at all, not    *)
(* even the plugin object; not JSON.                                       *)
MCPayloads ==
  { Payload([ColumnLimit |-> Number(2)], [useTabs |-> Bool(FALSE)]),
    Payload([BasedOnStyle |-> Str("file")], EmptyObject),
    PayloadWithoutPlugin(EmptyObject),
    Malformed }

(* Accepted; rejected; refused by clang-format; not JSON.                  *)
MCOverrides ==
  { Override([BasedOnStyle |-> Str("LLVM"), UseTab |-> Str("Always")]),
    Override([BasedOnStyle |-> Str("FILE")]),
    Override([ColumnLimit |-> Number(-1)]),
    Garbage }

MCPaths == { <<"d", "\\", "m">>, <<"c">> }

MCGuessLanguage(path, text) == IF path[Len(path)] = "m" THEN "ObjC" ELSE "Cpp"

MCTexts == {"", "x", "xx"}

MCLength(text) == CASE text = "" -> 0 [] text = "x" -> 1 [] text = "xx" -> 2

(* Every argument has a say: Objective-C fails, a style with tabs doubles  *)
(* the text, a path shrinks it, and an empty range changes nothing.        *)
MCLibFormat(style, path, text, range) ==
  CASE style.language = "ObjC" /\ text = "xx" -> "failed"
    [] range.length = 0 -> text
    [] range.length > 0 /\ "UseTab" \in DOMAIN style.options
         /\ style.options["UseTab"] = Str("Always") -> "xx"
    [] range.length > 1 /\ DOMAIN style.options = {} /\ path = <<>> -> ""
    [] OTHER -> "x"
=============================================================================
