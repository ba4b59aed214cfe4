-------------------------- MODULE StyleResolution --------------------------
(***************************************************************************)
(* resolve_format_style as a one-step system: a plugin configuration, a    *)
(* global configuration and an override are drawn, the function runs, and  *)
(* its result is compared with what README.md says of the three.           *)
(***************************************************************************)
EXTENDS FormatStyle

CONSTANTS
  Plugins,   (* plugin objects ("clangFormat" of the dprint configuration) *)
  Globals,   (* global objects                                             *)
  Overrides  (* override objects, the empty one for no override            *)

ASSUME GlobalsAssumption ==
  \A object \in Globals : \A key \in DOMAIN object : IsJson(object[key])

VARIABLES plugin, global, override, result

vars == <<plugin, global, override, result>>

Pending == [valid |-> FALSE]

Init ==
  /\ plugin \in Plugins
  /\ global \in Globals
  /\ override \in Overrides
  /\ result = Pending

Resolve ==
  /\ result = Pending
  /\ result' = ResolveFormatStyle(plugin, global, override)
  /\ UNCHANGED <<plugin, global, override>>

Next == Resolve

Spec == Init /\ [][Next]_vars

Resolved == result # Pending

-----------------------------------------------------------------------------
(* The README's rules, stated of one clang-format option at a time.        *)

GlobalOf == [ColumnLimit |-> "lineWidth", IndentWidth |-> "indentWidth",
             UseTab |-> "useTabs"]

WellTyped(key) ==
  IF key = "UseTab" THEN IsBool(global["useTabs"])
                    ELSE IsNumber(global[GlobalOf[key]])

(* A global option is used for a clang-format option nobody gave. *)
FromGlobal(key) ==
  /\ key \notin DOMAIN plugin \cup DOMAIN override
  /\ key \in DOMAIN GlobalOf
  /\ GlobalOf[key] \in DOMAIN global
  /\ global[GlobalOf[key]] # Null

(* README.md "clangFormat wins over the global option when both are        *)
(* present", and a request's override wins over both: for each option, the *)
(* source that decides it, and nothing for an option no source gives.      *)
SourcesRanked ==
  Resolved =>
    /\ DOMAIN result.resolved =
         DOMAIN plugin \cup DOMAIN override
           \cup {k \in DOMAIN GlobalOf : FromGlobal(k) /\ WellTyped(k)}
    /\ \A k \in DOMAIN result.resolved :
         CASE k \in DOMAIN override -> result.resolved[k] = override[k]
           [] k \in DOMAIN plugin \ DOMAIN override ->
                result.resolved[k] = plugin[k]
           [] OTHER ->
                IF k = "UseTab"
                THEN result.resolved[k] =
                       IF global["useTabs"] \in {Bool(TRUE), Str("true")}
                       THEN Str("Always") ELSE Str("Never")
                ELSE LET h == HalvesOf(global[GlobalOf[k]])
                         n == result.resolved[k].halves
                     IN n % 2 = 0 /\ n * h >= 0 /\ (h - n) \in {-1, 0, 1}
                        /\ (IF h < 0 THEN n >= h ELSE n <= h)

(* Every global option that was consulted and has the wrong type is        *)
(* reported under its own name, and nothing else of the globals is.        *)
BadGlobalsReported ==
  Resolved =>
    \A g \in {"lineWidth", "indentWidth", "useTabs"} :
      (\E i \in DOMAIN result.diagnostics : result.diagnostics[i] = g)
        <=> \E k \in DOMAIN GlobalOf :
              GlobalOf[k] = g /\ FromGlobal(k) /\ ~WellTyped(k)

(* README.md: styles found through the file system are rejected.  Whatever *)
(* source names one, the style that results is LLVM's and invalid, and a   *)
(* source that outranks it with another style saves the configuration.     *)
FilesystemStyleRejected ==
  Resolved =>
    LET named == IF "BasedOnStyle" \in DOMAIN override THEN override ELSE plugin
    IN NamesOneOf(named, FilesystemStyles)
       <=> (/\ \E i \in DOMAIN result.diagnostics :
                 result.diagnostics[i] = "BasedOnStyle"
            /\ ~result.valid
            /\ result.style = LLVMStyle)

(* An invalid result says why, and never carries a half-applied style; a   *)
(* valid one carries exactly the options it reports as resolved.           *)
ValidityExplained ==
  Resolved =>
    /\ ~result.valid => result.diagnostics # <<>> /\ result.style = LLVMStyle
    /\ result.valid => result.style = StyleOf(result.resolved)

(* A resolved configuration is a fixed point: registered again under the   *)
(* same globals, with no override, it resolves to itself (dprint prints it *)
(* for the user with output-resolved-config).                              *)
ResolvedIsFixedPoint ==
  Resolved =>
    ResolveFormatStyle(result.resolved, global, EmptyObject) = result
=============================================================================
