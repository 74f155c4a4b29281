---------------------------- MODULE MCExtraction ----------------------------
(***************************************************************************)
(* Four archives: nested paths with a repeated one, a file where another   *)
(* entry needs a directory, a name that becomes empty, odd separators.     *)
(***************************************************************************)
EXTENDS Extraction, TLC

MCArchives ==
  {<< <<"a">>, <<"d", "x">>, <<"a">> >>,
   << <<"d", "s", "y">>, <<"d", "x">> >>,
   << <<"a">>, <<"a", "b">> >>,
   << <<"a">>, <<".">>, <<"d", "x">> >>,
   << <<"", "d", ".", "x">>, <<"d", "x">> >>}

MCPaths ==
  {<<"a">>, <<"a", "b">>, <<"d">>, <<"d", "x">>, <<"d", "s">>, <<"d", "s", "y">>}

MCOccupied ==
  [p \in MCPaths |->
     CASE p = <<"a">>             -> {"file", "link"}
       [] p = <<"a", "b">>        -> {}
       [] p = <<"d">>             -> {"dir", "link", "file"}
       [] p = <<"d", "x">>        -> {"file", "dir"}
       [] p = <<"d", "s">>        -> {"dir", "link"}
       [] p = <<"d", "s", "y">>   -> {"file"}]
=============================================================================
