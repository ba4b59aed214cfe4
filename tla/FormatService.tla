--------------------------- MODULE FormatService ---------------------------
(***************************************************************************)
(* What the plugin promises a host, with no buffer, no pending path and no *)
(* pending override: configurations are registered and released, and the   *)
(* answer to a request is a function of the request and of the             *)
(* configuration registered under its id, whatever was asked before.       *)
(***************************************************************************)
EXTENDS FormatStyle

CONSTANTS
  ConfigIds,            (* the config ids                                    *)
  Configs,              (* the [plugin, global] pairs that can be registered *)
  Requests,             (* the requests that can be made                     *)
  Texts,                (* source texts                                      *)
  Length(_),            (* the bytes of a text                               *)
  GuessLanguage(_, _),  (* the language for a path and a text                *)
  LibFormat(_, _, _, _) (* style, path, text, range -> text, or no text      *)

VARIABLES
  registered, (* registered id -> its configuration *)
  answer      (* the last answer, with its request  *)

vars == <<registered, answer>>

NoAnswer == [outcome |-> "none"]

Unchanged(request)    == [outcome |-> "unchanged", request |-> request]
Changed(request, out) == [outcome |-> "changed", request |-> request,
                          text |-> out]
Failed(request, why)  == [outcome |-> "failed", request |-> request,
                          error |-> why]
Crashed(request)      == [outcome |-> "crashed", request |-> request]

Slashes(path) == [i \in DOMAIN path |-> IF path[i] = "\\" THEN "/" ELSE path[i]]

(* The options of an override that is there and is a JSON object. *)
OptionsOf(override) ==
  IF override.kind = "override" /\ override.override.parses
  THEN override.override.options
  ELSE EmptyObject

(* The style of a request: the configuration with the request's options    *)
(* over it and the language of the file, or the configuration alone when   *)
(* that does not resolve.                                                  *)
StyleFor(config, request) ==
  LET own  == ResolveFormatStyle(config.plugin, config.global, EmptyObject)
      full == ResolveFormatStyle(config.plugin, config.global,
                                 OptionsOf(request.override))
  IN IF ~full.valid THEN own.style
     ELSE IF request.path = <<>> THEN full.style
     ELSE [full.style EXCEPT !.language =
             GuessLanguage(Slashes(request.path), request.text)]

(* A whole-file request has the range of its text. *)
RangeIn(request) ==
  /\ request.start <= request.end
  /\ request.end <= Length(request.text)

Answer(config, request) ==
  LET out == LibFormat(StyleFor(config, request), Slashes(request.path),
                       request.text,
                       [offset |-> request.start,
                        length |-> request.end - request.start])
  IN IF out \notin Texts THEN Failed(request, "failed to apply replacements")
     ELSE IF out = request.text THEN Unchanged(request)
     ELSE Changed(request, out)

-----------------------------------------------------------------------------

Init ==
  /\ registered = EmptyObject
  /\ answer = NoAnswer

Register(id, config) ==
  /\ registered' = Put(registered, id, config)
  /\ UNCHANGED answer

Release(id) ==
  /\ registered' = [i \in DOMAIN registered \ {id} |-> registered[i]]
  /\ UNCHANGED answer

ServeBadRange(request) ==
  /\ ~RangeIn(request)
  /\ answer' = Failed(request, "invalid format range")
  /\ UNCHANGED registered

ServeUnknown(request) ==
  /\ RangeIn(request)
  /\ request.id \notin DOMAIN registered
  /\ answer' = Failed(request, "unknown config id")
  /\ UNCHANGED registered

Serve(request) ==
  /\ RangeIn(request)
  /\ request.id \in DOMAIN registered
  /\ answer' = Answer(registered[request.id], request)
  /\ UNCHANGED registered

(* The instance traps (operator new calls abort when memory is exhausted): *)
(* all that was registered is lost with it, perhaps a request too.         *)
Crash ==
  /\ registered' = EmptyObject
  /\ answer' \in {answer} \cup {Crashed(request) : request \in Requests}

Next ==
  \/ \E id \in ConfigIds :
       \/ \E config \in Configs : Register(id, config)
       \/ Release(id)
  \/ \E request \in Requests :
       \/ ServeBadRange(request)
       \/ ServeUnknown(request)
       \/ Serve(request)
  \/ Crash

Spec == Init /\ [][Next]_vars
=============================================================================
