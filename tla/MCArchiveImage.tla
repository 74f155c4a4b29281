--------------------------- MODULE MCArchiveImage ---------------------------
(***************************************************************************)
(* Three files; main files that name two auxiliary volumes, a name twice,  *)
(* the main file itself, an unusable name, or miscount.                    *)
(***************************************************************************)
EXTENDS ArchiveImage, TLC

CONSTANTS p1, p2, p3, two, twice, self, bad, short, aux, torn

MainFiles == {two, twice, self, bad, short}
MCPaths == {p1, p2, p3}
MCBytes == MainFiles \cup {aux, torn}

MCNamesIn ==
  two :> <<"b", "c">> @@ twice :> <<"b", "./b">> @@ self :> <<"a">>
    @@ bad :> <<"b", "..">> @@ short :> <<"b">> @@ aux :> <<>> @@ torn :> <<>>

MCDeclared ==
  two :> 3 @@ twice :> 3 @@ self :> 2 @@ bad :> 3 @@ short :> 1 @@ aux :> 0 @@ torn :> 0

MCPathOf == "a" :> p1 @@ "b" :> p2 @@ "./b" :> p2 @@ "c" :> p3 @@ ".." :> Nowhere

MCHolds == p1 :> MainFiles @@ p2 :> {two, aux} @@ p3 :> {aux}

MCImages ==
  {<<>>, <<short>>, <<two, aux>>, <<self, aux>>, <<self, two>>}
    \cup {<<m, x, aux>> : m \in MainFiles, x \in {aux, torn}}
=============================================================================
