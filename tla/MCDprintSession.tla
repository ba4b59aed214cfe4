-------------------------- MODULE MCDprintSession --------------------------
(* Instances of DprintSession for TLC: one host that finishes what it      *)
(* starts and sets an override only when it has one, and one that may give *)
(* a request up anywhere.                                                  *)
EXTENDS DprintSession, MCDprintPlugin

Whole(id, path, override, text) ==
  [id |-> id, path |-> path, override |-> override, text |-> text,
   ranged |-> FALSE, start |-> 0, end |-> Length(text)]

Ranged(id, path, override, text, start, end) ==
  [id |-> id, path |-> path, override |-> override, text |-> text,
   ranged |-> TRUE, start |-> start, end |-> end]

Tabs == OverrideBytes(Override([BasedOnStyle |-> Str("LLVM"),
                                UseTab |-> Str("Always")]))

(* With and without a path, with every kind of override, whole and ranged, *)
(* under both ids; 1 .. 3 lies outside its text and 2 .. 1 is upside down. *)
AllRequests ==
  { Whole(1, <<"d", "\\", "m">>, Nothing, "xx"),
    Whole(1, NoPath, Nothing, "xx"),
    Whole(2, <<"c">>, Tabs, "x"),
    Whole(2, NoPath, OverrideBytes(Override([BasedOnStyle |-> Str("FILE")])), "xx"),
    Ranged(1, <<"c">>, OverrideBytes(Garbage), "xx", 0, 0),
    Ranged(2, <<"c">>, Nothing, "xx", 1, 3),
    Ranged(1, <<"c">>, Tabs, "xx", 2, 1) }

(* Enough to leave a path, an override and a text behind. *)
FewRequests ==
  { Whole(1, <<"d", "\\", "m">>, Nothing, "xx"),
    Whole(1, NoPath, Tabs, "x"),
    Ranged(2, <<"c">>, OverrideBytes(Garbage), "xx", 0, 1),
    Ranged(1, <<"c">>, Nothing, "xx", 1, 3) }

MCHosts ==
  { [requests |-> AllRequests, alwaysSetsOverride |-> FALSE, mayAbandon |-> FALSE, mayTrap |-> TRUE],
    [requests |-> FewRequests, alwaysSetsOverride |-> TRUE, mayAbandon |-> TRUE, mayTrap |-> FALSE] }
=============================================================================
