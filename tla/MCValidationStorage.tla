------------------------ MODULE MCValidationStorage ------------------------
(***************************************************************************)
(* Small instances of ValidationStorage.                                   *)
(***************************************************************************)
EXTENDS ValidationStorage

\* Two keys of the main storage and one of a child storage, of different names.
MCKey == {<<"main", 1>>, <<"main", 2>>, <<"child", 3>>}
MCParents == {[k \in Key |-> IF k = <<"main", 1>> THEN Some(<<1>>)
                             ELSE IF k = <<"child", 3>> THEN Some(<<>>) ELSE None]}
\* A proof of everything, and proofs that lack a key.
MCProofs == {Key, Key \ {<<"main", 1>>}, Key \ {<<"child", 3>>}}
MCPrefixes == {{k \in Key : k[1] = "main"}, {<<"child", 3>>}}
=============================================================================
