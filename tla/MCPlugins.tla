----------------------------- MODULE MCPlugins -----------------------------
(* Two libraries with one API each and one with three (as that of the       *)
(* Python storages), which overlap; one whose second call fails; one that   *)
(* cannot be opened; and one without the symbol.                            *)
EXTENDS Plugins

CONSTANTS A, B, C, la, lb, labc, lfail, lbad, lnosym

MCBase == [l \in Libs |-> CASE l = la -> A [] l = lb -> B [] OTHER -> l]
MCApis == [l \in Libs |-> CASE l = la -> <<A>> [] l = lb -> <<B>>
                            [] l = labc -> <<A, B, C>>
                            [] l = lfail -> <<C, NULL, B>>
                            [] OTHER -> <<A>>]
MCPaths == {<<>>, <<labc, la>>, <<la, lb>>, <<lbad, lfail, labc>>,
            <<lb, labc, lnosym>>, <<lb, lfail>>}
=============================================================================
