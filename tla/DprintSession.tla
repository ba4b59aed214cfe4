--------------------------- MODULE DprintSession ---------------------------
(***************************************************************************)
(* A host and one plugin instance: the exports of DprintPlugin, called in  *)
(* the order the ABI is made for.  A request is a file path, perhaps an    *)
(* override, a text and a call of format or format_range, and then the     *)
(* text or the error is fetched; each of these is a step of its own and    *)
(* each crosses the shared buffer.  The host itself is not part of the     *)
(* repository.                                                             *)
(*                                                                         *)
(* The host may give a request up between two calls, and a call may trap,  *)
(* after which the host goes on with a fresh instance.                     *)
(***************************************************************************)
EXTENDS DprintPlugin

CONSTANT
  Hosts (* records of                                                        *)
        (*   requests            what the host may ask: each with id, path,  *)
        (*                       override, text, ranged, start and end       *)
        (*   alwaysSetsOverride  it calls set_override_config for every      *)
        (*                       request, with an empty buffer for none      *)
        (*   mayAbandon          it gives requests up half-way               *)
        (*   mayTrap             calls may trap                              *)

(* An override that was set waits for the next format, whoever makes it: a *)
(* host that gives requests up has to overwrite it.                        *)
ASSUME HostAssumption ==
  \A h \in Hosts :
    /\ h.alwaysSetsOverride \in BOOLEAN
    /\ h.mayAbandon \in BOOLEAN
    /\ h.mayTrap \in BOOLEAN
    /\ h.mayAbandon => h.alwaysSetsOverride

Requests == UNION {h.requests : h \in Hosts}

(* A whole-file request spans its text. *)
ASSUME RequestsAssumption ==
  \A request \in Requests :
    /\ request.id \in ConfigIds
    /\ request.path \in {NoPath} \cup Paths
    /\ request.override \in {Nothing} \cup {OverrideBytes(o) : o \in Overrides}
    /\ request.text \in Texts
    /\ request.ranged \in BOOLEAN
    /\ ~request.ranged => request.start = 0 /\ request.end = Length(request.text)

ASSUME PathsAssumption == Paths \subseteq Seq(STRING)

VARIABLES
  host,   (* which of the Hosts it is                        *)
  step,   (* what the host does next                         *)
  task,   (* the request, or the id being registered         *)
  answer  (* the answer the host last got, with its request  *)

hostVars    == <<step, task, answer>>
sessionVars == <<vars, hostVars, host>>

Idle == [doing |-> "nothing"]

NoAnswer == [outcome |-> "none"]

(* A step of the host that calls one export and goes on to the next. *)
GoesOn(next) ==
  /\ step' = next
  /\ UNCHANGED <<task, answer>>

AnswerIs(outcome) ==
  /\ answer' = outcome
  /\ step' = "idle"
  /\ task' = Idle

-----------------------------------------------------------------------------
(* Configurations. *)

SendPayload(id, payload) ==
  /\ step = "idle"
  /\ HostSends(PayloadBytes(payload))
  /\ step' = "register"
  /\ task' = [doing |-> "register", id |-> id]
  /\ UNCHANGED answer

Register ==
  /\ step = "register"
  /\ RegisterConfig(task.id)
  /\ step' = "idle"
  /\ task' = Idle
  /\ UNCHANGED answer

Release(id) ==
  /\ step = "idle"
  /\ ReleaseConfig(id)
  /\ UNCHANGED hostVars

-----------------------------------------------------------------------------
(* A request. *)

SendPath(request) ==
  /\ step = "idle"
  /\ HostSends(IF request.path = NoPath THEN Nothing ELSE PathBytes(request.path))
  /\ step' = "path"
  /\ task' = request
  /\ UNCHANGED answer

SetPath ==
  /\ step = "path"
  /\ SetFilePath
  /\ GoesOn(IF task.override # Nothing \/ host.alwaysSetsOverride
            THEN "send override" ELSE "send text")

SendOverride ==
  /\ step = "send override"
  /\ HostSends(task.override)
  /\ GoesOn("override")

SetOverride ==
  /\ step = "override"
  /\ SetOverrideConfig
  /\ GoesOn("send text")

SendText ==
  /\ step = "send text"
  /\ HostSends(TextBytes(task.text))
  /\ GoesOn("format")

CallFormat ==
  /\ step = "format"
  /\ IF task.ranged THEN FormatRange(task.id, task.start, task.end)
                    ELSE Format(task.id)
  /\ GoesOn("fetch")

FetchNothing ==
  /\ step = "fetch"
  /\ code = 0
  /\ AnswerIs([outcome |-> "unchanged", request |-> task])
  /\ UNCHANGED vars

FetchText ==
  /\ step = "fetch"
  /\ code = 1
  /\ GetFormattedText
  /\ GoesOn("read text")

ReadText ==
  /\ step = "read text"
  /\ AnswerIs([outcome |-> "changed", request |-> task, text |-> Input])
  /\ UNCHANGED vars

FetchError ==
  /\ step = "fetch"
  /\ code = 2
  /\ GetErrorText
  /\ GoesOn("read error")

ReadError ==
  /\ step = "read error"
  /\ AnswerIs([outcome |-> "failed", request |-> task, error |-> shared.error])
  /\ UNCHANGED vars

-----------------------------------------------------------------------------
(* What goes wrong. *)

(* Every variable of the module instance is as at instantiation. *)
FreshInstance ==
  /\ shared' = Nothing
  /\ configs' = <<>>
  /\ filePath' = NoPath
  /\ overrideConfig' = Nothing
  /\ formatted' = EmptyText
  /\ error' = NoError
  /\ code' = NotCalled

(* Any call that allocates may trap: all but that of get_shared_bytes_ptr. *)
Trap ==
  /\ host.mayTrap
  /\ step \notin {"read text", "read error"}
  /\ FreshInstance
  /\ step' = "idle"
  /\ task' = Idle
  /\ answer' = IF task \in Requests THEN [outcome |-> "crashed", request |-> task]
               ELSE answer

Abandon ==
  /\ host.mayAbandon
  /\ step \notin {"idle", "register"}
  /\ step' = "idle"
  /\ task' = Idle
  /\ UNCHANGED <<vars, answer>>

-----------------------------------------------------------------------------

SessionInit ==
  /\ Init
  /\ host \in Hosts
  /\ step = "idle"
  /\ task = Idle
  /\ answer = NoAnswer

SessionNext ==
  /\ \/ \E id \in ConfigIds :
          \/ \E payload \in Payloads : SendPayload(id, payload)
          \/ Release(id)
     \/ Register
     \/ \E request \in host.requests : SendPath(request)
     \/ SetPath \/ SendOverride \/ SetOverride \/ SendText
     \/ CallFormat
     \/ FetchNothing \/ FetchText \/ ReadText \/ FetchError \/ ReadError
     \/ Trap \/ Abandon
  /\ UNCHANGED host

SessionSpec == SessionInit /\ [][SessionNext]_sessionVars

-----------------------------------------------------------------------------
(* Properties. *)

(* What an id stands for: the objects its entry keeps. *)
Registered ==
  [id \in {i \in ConfigIds : Known(i)} |->
     [plugin |-> configs[FindConfig(id)].plugin,
      global |-> configs[FindConfig(id)].global]]

Configs ==
  {[plugin |-> p.plugin, global |-> p.global] : p \in {q \in Payloads : q.parses}}
    \cup {[plugin |-> EmptyObject, global |-> EmptyObject]}

(* Through the shared buffer, the sticky path, the pending override and    *)
(* the two result strings, the host gets for each request the answer that  *)
(* request alone deserves: nothing of an earlier request, finished, failed *)
(* or given up, shows in a later one.                                      *)
Service == INSTANCE FormatService WITH registered <- Registered
ServesEachRequestAlone == Service!Spec

(* The code announces what the host fetches, so that a fetch never finds   *)
(* an error it was not told of, or bytes of another kind.                  *)
FetchFindsWhatWasAnnounced ==
  /\ step = "fetch" => code \in {0, 1, 2} /\ (code = 2 <=> error # NoError)
  /\ step = "read text" => Holds("text")
  /\ step = "read error" => shared.kind = "error"
=============================================================================
