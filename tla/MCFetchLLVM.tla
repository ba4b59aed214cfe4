---------------------------- MODULE MCFetchLLVM -----------------------------
(* Instance of FetchLLVM for TLC: two of the patches with several files,   *)
(* in different parts of the archive, and one with a single file; the      *)
(* first sentinel is patched, the second and the end of the archive not.   *)
(* The patch of two files may be edited: one file dropped, one added, or   *)
(* other hunks for one of them.                                            *)
EXTENDS FetchLLVM

MCMembers ==
  <<"Format.cpp", "PPMacroExpansion.cpp", "llvm/CMakeLists.txt", "Chrono.cpp",
    "raw_ostream.cpp", "Host.inc", "siphash">>

MCSentinels == {"llvm/CMakeLists.txt", "Format.cpp"}

MCHunks == {"fixed date", "no file system", "no file", "no clock"}

Piece(file, hunks) == [file |-> file, hunks |-> hunks]

MCPatches ==
  <<<<Piece("PPMacroExpansion.cpp", "fixed date")>>,
    <<Piece("Format.cpp", "no file system"), Piece("raw_ostream.cpp", "no file system")>>,
    <<Piece("Chrono.cpp", "no clock"), Piece("Host.inc", "no clock")>>>>

MCEditions ==
  <<{},
    {<<Piece("Format.cpp", "no file system")>>,
     <<Piece("Format.cpp", "no file system"), Piece("raw_ostream.cpp", "no file system"),
       Piece("siphash", "no file system")>>,
     <<Piece("Format.cpp", "no file"), Piece("raw_ostream.cpp", "no file system")>>},
    {}>>
=============================================================================
