----------------------------- MODULE MCScopeTree -----------------------------
(* Instances of ScopeTree.                                                  *)
EXTENDS ScopeTree

CONSTANTS c1, c2

MCNames == {<<"x">>}
MCTagNames == <<"a", "b">>
MCRootTags == ("a" :> <<"1">>)
\* A tag of its own, and one that the root has with another value.
MCTagMaps == {("b" :> <<"1">>), ("a" :> <<"2">>)}

\* IDs are unique among all that the calls of these instances can ask for.
ASSUME MCDistinctIDs ==
  LET Deeper(P) == P \cup Names \cup {p \o <<".">> \o name : p \in P, name \in Names}
      Merged(T) == T \cup {MergeTags(own, tags) : own \in T, tags \in TagMaps}
  IN DistinctIDs(Deeper(Deeper({<<>>})), Merged(Merged({RootTags})))
=============================================================================
