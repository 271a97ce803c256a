----------------------------- MODULE Rendering -----------------------------
(***************************************************************************)
(* The document an instance is created from (internal/lima/config.go): a   *)
(* template's name or the user's own document, with the typed attributes   *)
(* and then config_overrides merged over it; and what Lima makes of it,    *)
(* which merges the template in when the document is complete.             *)
(*                                                                         *)
(* A document is a tree, kept as a function from the paths in it to their  *)
(* nodes.  A path is a sequence of keys; a node is a scalar, a sequence,   *)
(* null, or a mapping, whose entries are nodes at longer paths.            *)
(***************************************************************************)
EXTENDS Naturals, Sequences

CONSTANTS Keys,    (* what a mapping may have for keys                     *)
          Entries  (* what a sequence may hold                             *)

Scalar(v) == [kind |-> "scalar", value |-> v]
Sequence(items) == [kind |-> "seq", items |-> items]
MapNode == [kind |-> "map"]
NullNode == [kind |-> "null"]

IsMap(node) == node.kind = "map"
IsNull(node) == node.kind = "null"
IsEmptySeq(node) == node.kind = "seq" /\ node.items = <<>>

\* The paths of the mappings around a path, and those with its own.
Above(path) == {SubSeq(path, 1, n) : n \in 1..Len(path) - 1}
On(path) == Above(path) \cup {path}

IsNode(node) ==
  /\ node.kind \in {"scalar", "seq", "map", "null"}
  /\ node.kind = "seq" => node \in [kind : {"seq"}, items : Seq(Entries)]

\* Every node is in mappings.
IsDocument(doc) ==
  \A p \in DOMAIN doc :
    /\ p \in Seq(Keys) /\ IsNode(doc[p])
    /\ \A q \in Above(p) : q \in DOMAIN doc /\ IsMap(doc[q])

\* The schema has no value but null, or an empty sequence, where it has mappings,
\* and none but a value at path.
Fits(doc, path) ==
  /\ \A q \in Above(path) \cap DOMAIN doc :
       IsMap(doc[q]) \/ IsNull(doc[q]) \/ IsEmptySeq(doc[q])
  /\ path \in DOMAIN doc => ~IsMap(doc[path])

EmptyDocument == [p \in {} |-> NullNode]

-----------------------------------------------------------------------------
(* The provider.                                                           *)

\* Mutant: a removal drops the key.
MergeMapsDropping(dst, src) ==
  LET kept == {p \in DOMAIN dst : \A q \in Above(p) \cap DOMAIN src : IsMap(src[q])}
      over == {p \in DOMAIN src : ~IsNull(src[p])}
  IN [p \in over \cup (kept \ DOMAIN src) |-> IF p \in DOMAIN src THEN src[p] ELSE dst[p]]

\* src over dst: what is in a mapping of both is merged, everything else replaced
\* with all that is in it; null is kept.
MergeMaps(dst, src) ==
  LET kept == {p \in DOMAIN dst : \A q \in Above(p) \cap DOMAIN src : IsMap(src[q])}
  IN [p \in kept \cup DOMAIN src |-> IF p \in DOMAIN src THEN src[p] ELSE dst[p]]

MarkEmptySequencesAsClears(tree) ==
  [p \in DOMAIN tree |-> IF IsEmptySeq(tree[p]) THEN NullNode ELSE tree[p]]

ConfiguresAnything(doc) == \E p \in DOMAIN doc : Len(p) = 1 /\ ~IsNull(doc[p])

\* base: what the document begins with, a reference to a template or the user's.
Render(base, typed, overrides) ==
  MergeMaps(MergeMaps(base, typed), MarkEmptySequencesAsClears(overrides))

-----------------------------------------------------------------------------
(* Lima (docs/development/lima-cli-contract.md, 12.11).                    *)

\* The document over the template it names: an empty sequence is unset, null
\* clears, and a sequence goes before the template's.
Resolve(doc, template) ==
  LET own == {p \in DOMAIN doc : ~IsNull(doc[p]) /\ ~IsEmptySeq(doc[p])}
      inherited ==
        {p \in DOMAIN template :
           /\ p \in DOMAIN doc => ~IsNull(doc[p])
           /\ \A q \in Above(p) \cap DOMAIN doc : IsMap(doc[q]) \/ IsEmptySeq(doc[q])}
      joined == {p \in own \cap DOMAIN template :
                   doc[p].kind = "seq" /\ template[p].kind = "seq"}
  IN [p \in own \cup inherited |->
        IF p \in joined THEN Sequence(doc[p].items \o template[p].items)
        ELSE IF p \in own THEN doc[p]
        ELSE template[p]]

-----------------------------------------------------------------------------
(* A reference definition, one path at a time.                             *)

Silent == [kind |-> "silent"]

\* What a document says of a path: the first node on it that is no mapping.
Says(doc, path) ==
  LET ends == {q \in On(path) \cap DOMAIN doc : ~IsMap(doc[q])}
  IN IF ends = {} THEN Silent ELSE doc[CHOOSE q \in ends : TRUE]

\* The value of a path in a resolved document.
Leaf(doc, path) ==
  LET node == Says(doc, path)
  IN IF node.kind \in {"null", "silent"} \/ IsEmptySeq(node) THEN Silent ELSE node

\* The last layer that says anything decides: null and, in the overrides, the
\* empty sequence mean no value.  To a sequence Lima appends the template's.
Expected(template, layers, path) ==
  LET n == Len(layers)
      speaks(i) == /\ Says(layers[i], path) # Silent
                   /\ i < n => ~IsEmptySeq(Says(layers[i], path))
      last == {i \in 1..n : speaks(i) /\ \A j \in i + 1..n : ~speaks(j)}
      inherited == Leaf(template, path)
  IN IF last = {} THEN inherited
     ELSE LET node == Says(layers[CHOOSE i \in last : TRUE], path) IN
          IF IsNull(node) \/ IsEmptySeq(node) THEN Silent
          ELSE IF node.kind = "seq" /\ inherited.kind = "seq"
               THEN Sequence(node.items \o inherited.items)
          ELSE node

=============================================================================
