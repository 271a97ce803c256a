--------------------------- MODULE SettingsProofs ---------------------------
(***************************************************************************)
(* Proofs about Settings, for all configurations, templates and texts, and *)
(* sizes of any width.                                                     *)
(*                                                                         *)
(* Sizes: a unit FormatSize chooses divides, so what it writes is parsed   *)
(* to the same bytes.                                                      *)
(*                                                                         *)
(* Documents: what one says of a path is one node of it (Says).  MergeSays *)
(* is what a merge does to that, MarkSays what the marking of removals     *)
(* does, and ResolveLeaf what Lima does; together they give LayersResolve, *)
(* the value of any path from what the layers say of that path.            *)
(*                                                                         *)
(* States: TypeOK is inductive as it stands, and every property follows    *)
(* from it and from the two above.                                         *)
(***************************************************************************)
EXTENDS Settings, SequenceTheorems, TLAPS

-----------------------------------------------------------------------------
(* Sizes.                                                                  *)

\* Every unit is a positive number of bytes, and each is more than the one below.
LEMMA Units ==
  /\ \A u \in UnitNames : UnitSize[u] \in Nat \ {0}
  /\ UnitSize["B"] = 1
  /\ UnitSize["B"] < UnitSize["KiB"] /\ UnitSize["KiB"] < UnitSize["MiB"]
  /\ UnitSize["MiB"] < UnitSize["GiB"] /\ UnitSize["GiB"] < UnitSize["TiB"]
<1> DEFINE K1 == Kilo
           K2 == Kilo * Kilo
           K3 == Kilo * Kilo * Kilo
           K4 == Kilo * Kilo * Kilo * Kilo
<1>1. K1 \in Nat /\ K1 > 1
  BY SizesAssumption
<1>2. K2 \in Nat /\ K2 > K1
  BY <1>1
<1>3. K3 \in Nat /\ K3 > K2
  BY <1>1, <1>2
<1>4. K4 \in Nat /\ K4 > K3
  BY <1>1, <1>3
<1>5. UnitSize = [B |-> 1, KiB |-> K1, MiB |-> K2, GiB |-> K3, TiB |-> K4]
  BY DEF UnitSize
<1> HIDE DEF K1, K2, K3, K4
<1> QED
  BY <1>1, <1>2, <1>3, <1>4, <1>5 DEF UnitNames

\* The chosen unit divides.
LEMMA BestUnitDivides ==
  ASSUME NEW bytes \in Nat
  PROVE  BestUnit(bytes) \in UnitNames /\ bytes % UnitSize[BestUnit(bytes)] = 0
<1> DEFINE Divides(u) == bytes % UnitSize[u] = 0
           Best(u) == /\ Divides(u)
                      /\ \A w \in UnitNames : Divides(w) => UnitSize[w] <= UnitSize[u]
<1>1. Divides("B")
  BY Units
<1>2. \E u \in UnitNames : Best(u)
  <2> HIDE DEF Divides
  <2>1. CASE Divides("TiB")
    BY <2>1, Units DEF UnitNames
  <2>2. CASE ~Divides("TiB") /\ Divides("GiB")
    BY <2>2, Units DEF UnitNames
  <2>3. CASE ~Divides("TiB") /\ ~Divides("GiB") /\ Divides("MiB")
    BY <2>3, Units DEF UnitNames
  <2>4. CASE ~Divides("TiB") /\ ~Divides("GiB") /\ ~Divides("MiB") /\ Divides("KiB")
    BY <2>4, Units DEF UnitNames
  <2>5. CASE ~Divides("TiB") /\ ~Divides("GiB") /\ ~Divides("MiB") /\ ~Divides("KiB")
    BY <1>1, <2>5, Units DEF UnitNames
  <2> QED
    BY <2>1, <2>2, <2>3, <2>4, <2>5
<1>3. BestUnit(bytes) = CHOOSE u \in UnitNames : Best(u)
  BY DEF BestUnit
<1> HIDE DEF Best
<1>4. BestUnit(bytes) \in UnitNames /\ Best(BestUnit(bytes))
  BY <1>2, <1>3
<1> QED
  BY <1>4 DEF Best

\* A size that is parsed fits an integer, whatever an overflow gives.
LEMMA ParsedSize ==
  ASSUME NEW s \in Sizes
  PROVE  ParseSize(s) \in Int /\ ParseSize(s) <= MaxInt
<1>1. UnitSize[s.unit] \in Nat /\ s.tenths \in Nat
  BY Units DEF Sizes
<1>2. (s.tenths * UnitSize[s.unit]) \in Nat
  BY <1>1
<1>3. ((s.tenths * UnitSize[s.unit]) \div 10) \in Int
  BY <1>2
<1> QED
  BY <1>3, SizesAssumption DEF ParseSize, Int64

\* FormatSize loses nothing: what it writes is parsed to the same bytes
\* (sizes.go:57-61).
THEOREM FormatRoundTrips ==
  ASSUME NEW bytes \in 1..MaxInt
  PROVE  FormatSize(bytes) \in Sizes /\ ParseSize(FormatSize(bytes)) = bytes
<1> DEFINE unit == UnitSize[BestUnit(bytes)]
           whole == bytes \div unit
<1>0. MaxInt \in Nat
  BY SizesAssumption
<1>1. BestUnit(bytes) \in UnitNames /\ unit \in Nat \ {0} /\ bytes % unit = 0 /\ bytes \in Nat
  BY <1>0, BestUnitDivides, Units
<1>2. FormatSize(bytes) = [tenths |-> 10 * whole, unit |-> BestUnit(bytes)]
  BY <1>0 DEF FormatSize
<1>3. ParseSize(FormatSize(bytes)) = Int64(((10 * whole) * unit) \div 10)
  BY <1>2 DEF ParseSize
<1> HIDE DEF unit
<1>4. whole \in Nat /\ whole * unit = bytes
  BY <1>1
<1> HIDE DEF whole
<1>5. (10 * whole) * unit = 10 * bytes
  BY <1>1, <1>4
<1>6. (10 * bytes) \div 10 = bytes
  BY <1>1
<1>7. ParseSize(FormatSize(bytes)) = Int64(bytes)
  BY <1>3, <1>5, <1>6
<1>8. Int64(bytes) = bytes
  BY <1>0, <1>7 DEF Int64
<1> QED
  BY <1>1, <1>2, <1>4, <1>7, <1>8 DEF Sizes

\* A flag carries the bytes that were asked for or is refused (sizes.go:91-93).
LEMMA FlagIsExact ==
  ASSUME NEW bytes \in 1..MaxInt
  PROVE  GiBFlagValue[bytes] \in {bytes, Refused}
BY DEF GiBFlagValue

-----------------------------------------------------------------------------
(* Paths.                                                                  *)

\* A prefix of a path is one of its prefixes that are longer.
LEMMA PrefixOfPrefix ==
  ASSUME NEW path \in Seq(Keys), NEW n \in 1..Len(path), NEW k \in 1..n
  PROVE  /\ SubSeq(path, 1, n) \in Seq(Keys) /\ Len(SubSeq(path, 1, n)) = n
         /\ SubSeq(SubSeq(path, 1, n), 1, k) = SubSeq(path, 1, k)
<1>1. Len(path) \in Nat /\ n \in Int /\ k \in Int
  BY LenProperties
<1>2. SubSeq(path, 1, n) \in Seq(Keys) /\ Len(SubSeq(path, 1, n)) = n
  BY <1>1, SubSeqProperties
<1>3. SubSeq(SubSeq(path, 1, n), 1, k) = SubSeq(path, 1 + 1 - 1, 1 + k - 1)
  BY <1>1, SubSeqOfSubSeq
<1> QED
  BY <1>1, <1>2, <1>3

\* The paths on a path are its prefixes.
LEMMA OnPrefixes ==
  ASSUME NEW path \in Seq(Keys), NEW q \in On(path), path # <<>>
  PROVE  \E n \in 1..Len(path) : q = SubSeq(path, 1, n)
<1>1. Len(path) \in Nat \ {0}
  BY EmptySeq, LenProperties
<1>2. CASE q = path
  BY <1>1, <1>2, SubSeqFull
<1>3. CASE q \in Above(path)
  BY <1>1, <1>3 DEF Above
<1> QED
  BY <1>2, <1>3 DEF On

\* What is around a path that is on another path is around that one too.
LEMMA AboveOn ==
  ASSUME NEW path \in Seq(Keys), NEW q \in On(path)
  PROVE  /\ q \in Seq(Keys)
         /\ Above(q) \subseteq Above(path)
<1>1. CASE path = <<>>
  BY <1>1 DEF On, Above
<1>2. CASE path # <<>>
  <2>1. PICK n \in 1..Len(path) : q = SubSeq(path, 1, n)
    BY <1>2, OnPrefixes
  <2>2. Len(path) \in Nat
    BY LenProperties
  <2>3. n \in 1..n
    BY <2>2
  <2>4. q \in Seq(Keys) /\ Len(q) = n
    BY <2>1, <2>3, PrefixOfPrefix
  <2>5. ASSUME NEW r \in Above(q) PROVE r \in Above(path)
    <3>1. PICK k \in 1..n - 1 : r = SubSeq(q, 1, k)
      BY <2>4 DEF Above
    <3>2. k \in 1..n /\ k \in 1..Len(path) - 1
      BY <2>2
    <3> QED
      BY <2>1, <3>1, <3>2, PrefixOfPrefix DEF Above
  <2> QED
    BY <2>4, <2>5
<1> QED
  BY <1>1, <1>2

\* Of two paths on a path one is around the other.
LEMMA OnOrdered ==
  ASSUME NEW path \in Seq(Keys), NEW q \in On(path), NEW r \in On(path), q # r
  PROVE  q \in Above(r) \/ r \in Above(q)
<1>1. path # <<>>
  BY DEF On, Above
<1>2. PICK n \in 1..Len(path) : q = SubSeq(path, 1, n)
  BY <1>1, OnPrefixes
<1>3. PICK m \in 1..Len(path) : r = SubSeq(path, 1, m)
  BY <1>1, OnPrefixes
<1>4. Len(path) \in Nat
  BY LenProperties
<1>5. ASSUME n < m PROVE q \in Above(r)
  <2>1. n \in 1..m /\ n \in 1..m - 1
    BY <1>4, <1>5
  <2>2. Len(r) = m /\ SubSeq(r, 1, n) = q
    BY <1>2, <1>3, <2>1, PrefixOfPrefix
  <2> QED
    BY <2>1, <2>2 DEF Above
<1>6. ASSUME m < n PROVE r \in Above(q)
  <2>1. m \in 1..n /\ m \in 1..n - 1
    BY <1>4, <1>6
  <2>2. Len(q) = n /\ SubSeq(q, 1, m) = r
    BY <1>2, <1>3, <2>1, PrefixOfPrefix
  <2> QED
    BY <2>1, <2>2 DEF Above
<1>7. n # m
  BY <1>2, <1>3
<1> QED
  BY <1>4, <1>5, <1>6, <1>7

-----------------------------------------------------------------------------
(* Documents.                                                              *)

\* The nodes of a document that are no mappings are what it says.
LEMMA SaysNode ==
  ASSUME NEW doc, IsDocument(doc), NEW path \in Seq(Keys),
         NEW q \in On(path), q \in DOMAIN doc, ~IsMap(doc[q])
  PROVE  Says(doc, path) = doc[q]
<1> DEFINE ends == {r \in On(path) \cap DOMAIN doc : ~IsMap(doc[r])}
<1>1. q \in ends
  OBVIOUS
<1>2. ASSUME NEW r \in ends PROVE r = q
  <2>1. \A a, b \in DOMAIN doc : a \in Above(b) => IsMap(doc[a])
    BY DEF IsDocument
  <2> QED
    BY <2>1, OnOrdered
<1>3. (CHOOSE r \in ends : TRUE) = q
  BY <1>1, <1>2
<1> QED
  BY <1>1, <1>3 DEF Says

\* It says nothing where all nodes on the path are mappings.
LEMMA SaysNothing ==
  ASSUME NEW doc, NEW path, \A q \in On(path) \cap DOMAIN doc : IsMap(doc[q])
  PROVE  Says(doc, path) = Silent
BY DEF Says

\* One or the other.
LEMMA SaysWhat ==
  ASSUME NEW doc, IsDocument(doc), NEW path \in Seq(Keys)
  PROVE  \/ /\ Says(doc, path) = Silent
            /\ \A q \in On(path) \cap DOMAIN doc : IsMap(doc[q])
         \/ \E q \in On(path) \cap DOMAIN doc :
              /\ ~IsMap(doc[q]) /\ Says(doc, path) = doc[q] /\ doc[q] # Silent
              /\ \A r \in On(path) \cap DOMAIN doc : r # q => IsMap(doc[r])
<1>1. CASE \A q \in On(path) \cap DOMAIN doc : IsMap(doc[q])
  BY <1>1, SaysNothing
<1>2. CASE \E q \in On(path) \cap DOMAIN doc : ~IsMap(doc[q])
  <2>1. PICK q \in On(path) \cap DOMAIN doc : ~IsMap(doc[q])
    BY <1>2
  <2>2. Says(doc, path) = doc[q]
    BY <2>1, SaysNode
  <2>3. doc[q] # Silent
    BY DEF IsDocument, IsNode, Silent
  <2>4. ASSUME NEW r \in On(path) \cap DOMAIN doc, r # q PROVE IsMap(doc[r])
    BY <2>1, <2>4, OnOrdered DEF IsDocument
  <2> QED
    BY <2>1, <2>2, <2>3, <2>4
<1> QED
  BY <1>1, <1>2

\* What MergeMaps computes, node by node.
LEMMA Merged ==
  ASSUME NEW dst, NEW src
  PROVE  LET doc == MergeMaps(dst, src) IN
         /\ \A p : p \in DOMAIN doc <=>
              \/ p \in DOMAIN src
              \/ /\ p \in DOMAIN dst
                 /\ \A q \in Above(p) \cap DOMAIN src : IsMap(src[q])
         /\ \A p \in DOMAIN doc : doc[p] = IF p \in DOMAIN src THEN src[p] ELSE dst[p]
BY DEF MergeMaps

\* A merge of trees is a tree.
LEMMA MergeDocument ==
  ASSUME NEW dst, NEW src, IsDocument(dst), IsDocument(src)
  PROVE  IsDocument(MergeMaps(dst, src))
<1> DEFINE doc == MergeMaps(dst, src)
<1>1. SUFFICES ASSUME NEW p \in DOMAIN doc
               PROVE  /\ p \in Seq(Keys) /\ IsNode(doc[p])
                      /\ \A q \in Above(p) : q \in DOMAIN doc /\ IsMap(doc[q])
  BY DEF IsDocument
<1>2. p \in Seq(Keys) /\ IsNode(doc[p])
  BY Merged DEF IsDocument
<1>3. ASSUME NEW q \in Above(p) PROVE q \in DOMAIN doc /\ IsMap(doc[q])
  <2>1. Above(q) \subseteq Above(p)
    BY <1>2, AboveOn DEF On
  <2>2. CASE p \in DOMAIN src
    BY <2>2, Merged DEF IsDocument
  <2>3. CASE p \notin DOMAIN src
    <3>1. p \in DOMAIN dst /\ \A r \in Above(p) \cap DOMAIN src : IsMap(src[r])
      BY <2>3, Merged
    <3>2. q \in DOMAIN dst /\ IsMap(dst[q])
      BY <3>1 DEF IsDocument
    <3>3. q \in DOMAIN doc
      BY <2>1, <3>1, <3>2, Merged
    <3> QED
      BY <3>1, <3>2, <3>3, Merged
  <2> QED
    BY <2>2, <2>3
<1> QED
  BY <1>2, <1>3

\* A merge has no values where the schema has mappings, and no mapping at path.
LEMMA MergeFits ==
  ASSUME NEW dst, NEW src, NEW path, Fits(dst, path), Fits(src, path)
  PROVE  Fits(MergeMaps(dst, src), path)
BY Merged DEF Fits

\* Nothing, which is also what null and an empty sequence come to in the end.
Blank(node) == node = Silent \/ IsNull(node) \/ IsEmptySeq(node)

\* What src says of a path goes; where it says nothing what dst says stays, but
\* for a null or an empty sequence where src has a mapping.
LEMMA MergeSays ==
  ASSUME NEW dst, NEW src, NEW path \in Seq(Keys),
         IsDocument(dst), IsDocument(src), Fits(dst, path), Fits(src, path)
  PROVE  /\ Says(src, path) # Silent =>
              Says(MergeMaps(dst, src), path) = Says(src, path)
         /\ Says(src, path) = Silent =>
              \/ Says(MergeMaps(dst, src), path) = Says(dst, path)
              \/ Says(MergeMaps(dst, src), path) = Silent /\ Blank(Says(dst, path))
<1> DEFINE doc == MergeMaps(dst, src)
<1>1. IsDocument(doc)
  BY MergeDocument
<1>2. ASSUME Says(src, path) # Silent
      PROVE  Says(doc, path) = Says(src, path)
  <2>1. PICK q \in On(path) \cap DOMAIN src : ~IsMap(src[q]) /\ Says(src, path) = src[q]
    BY <1>2, SaysWhat
  <2>2. q \in DOMAIN doc /\ doc[q] = src[q]
    BY Merged
  <2> HIDE DEF doc
  <2> QED
    BY <1>1, <2>1, <2>2, SaysNode
<1>3. ASSUME Says(src, path) = Silent
      PROVE  \/ Says(doc, path) = Says(dst, path)
             \/ Says(doc, path) = Silent /\ Blank(Says(dst, path))
  <2>1. \A q \in On(path) \cap DOMAIN src : IsMap(src[q])
    BY <1>3, SaysWhat
  <2>2. path \notin DOMAIN src
    BY <2>1 DEF On, Fits
  <2>3. ASSUME NEW q \in On(path) \cap DOMAIN doc, ~IsMap(doc[q])
        PROVE  q \in DOMAIN dst \ DOMAIN src /\ doc[q] = dst[q]
    BY <2>1, <2>3, Merged
  <2>4. CASE Says(dst, path) = Silent
    <3>1. \A q \in On(path) \cap DOMAIN dst : IsMap(dst[q])
      BY <2>4, SaysWhat
    <3>2. \A q \in On(path) \cap DOMAIN doc : IsMap(doc[q])
      BY <2>3, <3>1
    <3> HIDE DEF doc
    <3> QED
      BY <2>4, <3>2, SaysNothing
  <2>5. CASE Says(dst, path) # Silent
    <3>1. PICK q \in On(path) \cap DOMAIN dst :
            /\ ~IsMap(dst[q]) /\ Says(dst, path) = dst[q]
            /\ \A r \in On(path) \cap DOMAIN dst : r # q => IsMap(dst[r])
      BY <2>5, SaysWhat
    <3>2. CASE q \in DOMAIN src
      <4>1. Blank(dst[q])
        BY <2>2, <3>1, <3>2 DEF On, Fits, Blank
      <4>2. \A r \in On(path) \cap DOMAIN doc : IsMap(doc[r])
        BY <2>3, <3>1, <3>2
      <4> HIDE DEF doc
      <4> QED
        BY <3>1, <4>1, <4>2, SaysNothing
    <3>3. CASE q \notin DOMAIN src
      <4>1. Above(q) \subseteq On(path)
        BY AboveOn DEF On
      <4>2. q \in DOMAIN doc /\ doc[q] = dst[q]
        BY <2>1, <3>3, <4>1, Merged
      <4> HIDE DEF doc
      <4> QED
        BY <1>1, <3>1, <4>2, SaysNode
    <3> QED
      BY <3>2, <3>3
  <2> QED
    BY <2>4, <2>5
<1> QED
  BY <1>2, <1>3

\* Marking the clears changes empty sequences and nothing else.
LEMMA MarkSays ==
  ASSUME NEW tree, NEW path \in Seq(Keys), IsDocument(tree), Fits(tree, path)
  PROVE  LET doc == MarkEmptySequencesAsClears(tree) IN
         /\ IsDocument(doc) /\ Fits(doc, path)
         /\ Says(doc, path) =
              IF IsEmptySeq(Says(tree, path)) THEN NullNode ELSE Says(tree, path)
<1> DEFINE doc == MarkEmptySequencesAsClears(tree)
<1>1. /\ DOMAIN doc = DOMAIN tree
      /\ \A p \in DOMAIN tree : doc[p] = IF IsEmptySeq(tree[p]) THEN NullNode ELSE tree[p]
  BY DEF MarkEmptySequencesAsClears
<1>2. IsNull(NullNode) /\ ~IsMap(NullNode) /\ IsNode(NullNode)
  BY DEF IsNull, IsMap, IsNode, NullNode
<1>3. \A p \in DOMAIN tree : IsMap(doc[p]) <=> IsMap(tree[p])
  BY <1>1, <1>2 DEF IsMap, IsEmptySeq
<1> HIDE DEF doc
<1>4. IsDocument(doc)
  BY <1>1, <1>2, <1>3 DEF IsDocument
<1>5. Fits(doc, path)
  BY <1>1, <1>2, <1>3 DEF Fits
<1> DEFINE marked == IF IsEmptySeq(Says(tree, path)) THEN NullNode ELSE Says(tree, path)
<1>6. ASSUME Says(tree, path) = Silent PROVE Says(doc, path) = marked
  <2>1. \A q \in On(path) \cap DOMAIN doc : IsMap(doc[q])
    BY <1>1, <1>3, <1>6, SaysWhat
  <2>2. Says(doc, path) = Silent
    BY <2>1, SaysNothing
  <2> QED
    BY <1>6, <2>2 DEF Silent, IsEmptySeq
<1>7. ASSUME Says(tree, path) # Silent PROVE Says(doc, path) = marked
  <2>1. PICK q \in On(path) \cap DOMAIN tree : ~IsMap(tree[q]) /\ Says(tree, path) = tree[q]
    BY <1>7, SaysWhat
  <2>2. Says(doc, path) = doc[q]
    BY <1>1, <1>3, <1>4, <2>1, SaysNode
  <2> QED
    BY <1>1, <2>1, <2>2
<1> QED
  BY <1>4, <1>5, <1>6, <1>7 DEF doc

-----------------------------------------------------------------------------
(* Lima's merge.                                                           *)

\* A path a document sets itself, and one it leaves to the template.
Sets(doc, p) == p \in DOMAIN doc /\ ~IsNull(doc[p]) /\ ~IsEmptySeq(doc[p])
Inherits(doc, template, p) ==
  /\ p \in DOMAIN template
  /\ p \in DOMAIN doc => ~IsNull(doc[p])
  /\ \A q \in Above(p) \cap DOMAIN doc : IsMap(doc[q]) \/ IsEmptySeq(doc[q])
Joins(doc, template, p) ==
  /\ Sets(doc, p) /\ p \in DOMAIN template
  /\ doc[p].kind = "seq" /\ template[p].kind = "seq"

\* What Resolve computes, node by node.
LEMMA Resolved ==
  ASSUME NEW doc, NEW template
  PROVE  LET made == Resolve(doc, template) IN
         /\ \A p : p \in DOMAIN made <=> Sets(doc, p) \/ Inherits(doc, template, p)
         /\ \A p \in DOMAIN made : made[p] =
              IF Joins(doc, template, p) THEN Sequence(doc[p].items \o template[p].items)
              ELSE IF Sets(doc, p) THEN doc[p] ELSE template[p]
BY DEF Resolve, Sets, Inherits, Joins

\* Two sequences one after the other are a sequence.
LEMMA JoinedNode ==
  ASSUME NEW a, NEW b, IsNode(a), IsNode(b), a.kind = "seq", b.kind = "seq"
  PROVE  /\ IsNode(Sequence(a.items \o b.items))
         /\ ~IsMap(Sequence(a.items \o b.items))
         /\ ~IsEmptySeq(a) => ~IsEmptySeq(Sequence(a.items \o b.items))
         /\ IsEmptySeq(b) => Sequence(a.items \o b.items) = a
<1>1. /\ a.items \in Seq(Entries) /\ b.items \in Seq(Entries)
      /\ a = [kind |-> "seq", items |-> a.items]
  BY DEF IsNode
<1>2. a.items \o b.items \in Seq(Entries)
  BY <1>1
<1>3. b.items = <<>> => a.items \o b.items = a.items
  BY <1>1, ConcatEmptySeq
<1>4. a.items # <<>> => a.items \o b.items # <<>>
  <2>1. Len(a.items \o b.items) = Len(a.items) + Len(b.items)
    BY <1>1
  <2> QED
    BY <1>1, <1>2, <2>1, EmptySeq, LenProperties
<1> DEFINE items == a.items \o b.items
<1>5. IsNode(Sequence(items)) /\ ~IsMap(Sequence(items))
  BY <1>2 DEF IsNode, IsMap, Sequence
<1> HIDE DEF items
<1>6. IsEmptySeq(Sequence(items)) => items = <<>>
  BY DEF IsEmptySeq, Sequence
<1>7. IsEmptySeq(b) => Sequence(items) = a
  BY <1>1, <1>3 DEF IsEmptySeq, Sequence, items
<1>8. ~IsEmptySeq(a) => a.items # <<>>
  BY DEF IsEmptySeq
<1> QED
  BY <1>4, <1>5, <1>6, <1>7, <1>8 DEF items

\* What a document sets lies in mappings, which it sets too.
LEMMA SetsAbove ==
  ASSUME NEW doc, IsDocument(doc), NEW p \in DOMAIN doc, NEW q \in Above(p)
  PROVE  Sets(doc, q) /\ IsMap(doc[q])
BY DEF IsDocument, Sets, IsMap, IsNull, IsEmptySeq

\* A document resolved over a template is a document.
LEMMA ResolveDocument ==
  ASSUME NEW doc, NEW template, IsDocument(doc), IsDocument(template)
  PROVE  IsDocument(Resolve(doc, template))
<1> DEFINE made == Resolve(doc, template)
<1>1. SUFFICES ASSUME NEW p \in DOMAIN made
               PROVE  /\ p \in Seq(Keys) /\ IsNode(made[p])
                      /\ \A q \in Above(p) : q \in DOMAIN made /\ IsMap(made[q])
  BY DEF IsDocument
<1>2. \A q : IsMap(doc[q]) => ~Joins(doc, template, q)
  BY DEF IsMap, Joins
<1>3. p \in Seq(Keys)
  BY Resolved DEF Sets, Inherits, IsDocument
<1>4. IsNode(made[p])
  <2>1. CASE Joins(doc, template, p)
    <3>1. IsNode(doc[p]) /\ IsNode(template[p])
      BY <2>1 DEF Joins, Sets, IsDocument
    <3>2. IsNode(Sequence(doc[p].items \o template[p].items))
      BY <2>1, <3>1, JoinedNode DEF Joins
    <3> QED
      BY <2>1, <3>2, Resolved
  <2>2. CASE ~Joins(doc, template, p)
    BY <2>2, Resolved DEF Sets, Inherits, IsDocument
  <2> QED
    BY <2>1, <2>2
<1>5. ASSUME NEW q \in Above(p) PROVE q \in DOMAIN made /\ IsMap(made[q])
  <2>1. CASE Sets(doc, p)
    <3>1. Sets(doc, q) /\ IsMap(doc[q])
      BY <2>1, SetsAbove DEF Sets
    <3> QED
      BY <1>2, <3>1, Resolved
  <2>2. CASE ~Sets(doc, p)
    <3>1. Inherits(doc, template, p)
      BY <2>2, Resolved
    <3>2. q \in DOMAIN template /\ IsMap(template[q])
      BY <3>1 DEF Inherits, IsDocument
    <3>3. Above(q) \subseteq Above(p)
      BY <1>3, AboveOn DEF On
    <3>4. q \in DOMAIN doc => IsMap(doc[q]) \/ IsEmptySeq(doc[q])
      BY <3>1 DEF Inherits
    <3>5. Inherits(doc, template, q)
      BY <3>1, <3>2, <3>3, <3>4 DEF Inherits, IsMap, IsNull, IsEmptySeq
    <3>6. q \in DOMAIN made
      BY <3>5, Resolved
    <3>7. CASE Sets(doc, q)
      <4>1. IsMap(doc[q])
        BY <3>4, <3>7 DEF Sets
      <4> QED
        BY <1>2, <3>6, <3>7, <4>1, Resolved
    <3>8. CASE ~Sets(doc, q)
      BY <3>2, <3>6, <3>8, Resolved DEF Joins
    <3> QED
      BY <3>6, <3>7, <3>8
  <2> QED
    BY <2>1, <2>2
<1> QED
  BY <1>3, <1>4, <1>5

\* What a path has in the end: null and an empty sequence leave the template's
\* value or none, a sequence goes before the template's, a scalar stays.
Outcome(node, inherited) ==
  IF IsNull(node) THEN Silent
  ELSE IF node = Silent \/ IsEmptySeq(node) THEN inherited
  ELSE IF node.kind = "seq" /\ inherited.kind = "seq"
       THEN Sequence(node.items \o inherited.items)
  ELSE node

\* Null has no value in a resolved document, nor has an empty sequence.
LEMMA LeafSays ==
  ASSUME NEW doc, IsDocument(doc), NEW path \in Seq(Keys)
  PROVE  Leaf(doc, path) = IF Blank(Says(doc, path)) THEN Silent ELSE Says(doc, path)
<1>1. CASE Says(doc, path) = Silent
  BY <1>1 DEF Leaf, Blank, Silent
<1>2. CASE Says(doc, path) # Silent
  <2>1. PICK q \in DOMAIN doc : Says(doc, path) = doc[q]
    BY <1>2, SaysWhat
  <2>2. doc[q].kind # "silent"
    BY DEF IsDocument, IsNode
  <2> QED
    BY <1>2, <2>1, <2>2 DEF Leaf, Blank, IsNull
<1> QED
  BY <1>1, <1>2

\* Where a document sets nothing itself the template's value is inherited.
LEMMA ResolveInherited ==
  ASSUME NEW doc, NEW template, NEW path \in Seq(Keys),
         IsDocument(doc), IsDocument(template), Fits(doc, path), Fits(template, path),
         \A q \in On(path) \cap DOMAIN doc : IsMap(doc[q]) \/ IsEmptySeq(doc[q])
  PROVE  Leaf(Resolve(doc, template), path) = Leaf(template, path)
<1> DEFINE made == Resolve(doc, template)
<1>0. IsDocument(made)
  BY ResolveDocument
<1>1. /\ \A p : p \in DOMAIN made <=> Sets(doc, p) \/ Inherits(doc, template, p)
      /\ \A p \in DOMAIN made : made[p] =
           IF Joins(doc, template, p) THEN Sequence(doc[p].items \o template[p].items)
           ELSE IF Sets(doc, p) THEN doc[p] ELSE template[p]
  BY Resolved
<1> HIDE DEF made
<1>2. ASSUME NEW q \in On(path), Sets(doc, q)
      PROVE  IsMap(doc[q]) /\ q \in DOMAIN made /\ made[q] = doc[q] /\ q # path
  BY <1>1, <1>2 DEF Sets, Joins, IsMap, IsNull, Fits
<1>3. ASSUME NEW q \in On(path) \cap DOMAIN made, ~IsMap(made[q])
      PROVE  q \in DOMAIN template /\ made[q] = template[q]
  BY <1>1, <1>2, <1>3 DEF Inherits, Joins
<1>4. CASE Says(template, path) = Silent
  <2>1. \A q \in On(path) \cap DOMAIN made : IsMap(made[q])
    BY <1>3, <1>4, SaysWhat
  <2>2. Says(made, path) = Silent
    BY <2>1, SaysNothing
  <2> QED
    BY <1>0, <1>4, <2>2, LeafSays DEF made
<1>5. CASE Says(template, path) # Silent
  <2>1. PICK t \in On(path) \cap DOMAIN template :
          /\ ~IsMap(template[t]) /\ Says(template, path) = template[t]
          /\ \A r \in On(path) \cap DOMAIN template : r # t => IsMap(template[r])
    BY <1>5, SaysWhat
  <2>2. CASE Sets(doc, t)
    <3>1. t \in Above(path)
      BY <1>2, <2>2 DEF On
    <3>2. Blank(template[t])
      BY <2>1, <3>1 DEF Fits, Blank
    <3>3. \A q \in On(path) \cap DOMAIN made : IsMap(made[q])
      BY <1>2, <1>3, <2>1, <2>2
    <3>4. Says(made, path) = Silent
      BY <3>3, SaysNothing
    <3> QED
      BY <1>0, <2>1, <3>2, <3>4, LeafSays DEF made, Blank
  <2>3. CASE ~Sets(doc, t)
    <3>1. Above(t) \subseteq On(path)
      BY AboveOn DEF On
    <3>2. Inherits(doc, template, t)
      BY <3>1 DEF Inherits, IsMap, IsNull, IsEmptySeq
    <3>3. t \in DOMAIN made /\ made[t] = template[t]
      BY <1>1, <2>3, <3>2 DEF Joins
    <3>4. Says(made, path) = template[t]
      BY <1>0, <2>1, <3>3, SaysNode
    <3> QED
      BY <1>0, <2>1, <3>4, LeafSays DEF made
  <2> QED
    BY <2>2, <2>3
<1> QED
  BY <1>4, <1>5

\* What a resolved document has at a path depends only on what the document and
\* the template say of that path.
LEMMA ResolveLeaf ==
  ASSUME NEW doc, NEW template, NEW path \in Seq(Keys),
         IsDocument(doc), IsDocument(template), Fits(doc, path), Fits(template, path)
  PROVE  Leaf(Resolve(doc, template), path)
           = Outcome(Says(doc, path), Leaf(template, path))
<1> DEFINE made == Resolve(doc, template)
<1>0. IsDocument(made)
  BY ResolveDocument
<1>1. /\ \A p : p \in DOMAIN made <=> Sets(doc, p) \/ Inherits(doc, template, p)
      /\ \A p \in DOMAIN made : made[p] =
           IF Joins(doc, template, p) THEN Sequence(doc[p].items \o template[p].items)
           ELSE IF Sets(doc, p) THEN doc[p] ELSE template[p]
  BY Resolved
<1> HIDE DEF made
<1>2. \A q \in On(path) : q # path => q \in Above(path)
  BY DEF On
<1>3. CASE Says(doc, path) # Silent
  <2>1. PICK q \in On(path) \cap DOMAIN doc :
          /\ ~IsMap(doc[q]) /\ Says(doc, path) = doc[q] /\ doc[q] # Silent
          /\ \A r \in On(path) \cap DOMAIN doc : r # q => IsMap(doc[r])
    BY <1>3, SaysWhat
  <2>2. CASE IsNull(doc[q])
    <3>1. ASSUME NEW r \in On(path) \cap DOMAIN made PROVE IsMap(made[r])
      <4>1. CASE Sets(doc, r)
        <5>1. r # q
          BY <2>2, <4>1 DEF Sets
        <5>2. IsMap(doc[r])
          BY <2>1, <4>1, <5>1 DEF Sets
        <5> QED
          BY <1>1, <4>1, <5>2 DEF Joins, IsMap
      <4>2. CASE ~Sets(doc, r)
        <5>1. Inherits(doc, template, r)
          BY <1>1, <4>2
        <5>2. r # q
          BY <2>2, <5>1 DEF Inherits
        <5>3. q \notin Above(r)
          BY <2>1, <2>2, <5>1 DEF Inherits, IsNull, IsMap, IsEmptySeq
        <5>4. r \in Above(q)
          BY <5>2, <5>3, OnOrdered
        <5>5. Sets(doc, r)
          BY <5>4, SetsAbove
        <5> QED
          BY <4>2, <5>5
      <4> QED
        BY <4>1, <4>2
    <3>2. Says(made, path) = Silent
      BY <3>1, SaysNothing
    <3>3. Leaf(made, path) = Silent
      BY <1>0, <3>2, LeafSays DEF Blank
    <3> QED
      BY <2>1, <2>2, <3>3 DEF Outcome, made
  <2>3. CASE ~IsNull(doc[q]) /\ ~IsEmptySeq(doc[q])
    <3>1. q = path
      BY <1>2, <2>1, <2>3 DEF Fits
    <3>2. Sets(doc, path) /\ path \in DOMAIN made
      BY <1>1, <2>3, <3>1 DEF Sets
    <3>3. IsNode(doc[path]) /\ ~Blank(doc[path])
      BY <2>1, <2>3, <3>1 DEF IsDocument, Blank
    <3>4. CASE Joins(doc, template, path)
      <4> DEFINE joined == Sequence(doc[path].items \o template[path].items)
      <4>1. /\ doc[path].kind = "seq" /\ path \in DOMAIN template
            /\ template[path].kind = "seq" /\ IsNode(template[path])
        BY <3>4 DEF Joins, IsDocument
      <4>2. /\ IsNode(joined) /\ ~IsMap(joined) /\ ~IsEmptySeq(joined)
            /\ IsEmptySeq(template[path]) => joined = doc[path]
        BY <3>3, <4>1, JoinedNode DEF Blank
      <4>3. made[path] = joined
        BY <1>1, <3>2, <3>4
      <4>4. ~Blank(joined)
        BY <4>2 DEF Blank, Sequence, Silent, IsNull
      <4> HIDE DEF joined
      <4>5. Says(made, path) = joined
        BY <1>0, <3>2, <4>2, <4>3, SaysNode DEF On
      <4>6. Leaf(made, path) = joined
        BY <1>0, <4>4, <4>5, LeafSays
      <4>7. ~IsMap(template[path])
        BY <4>1 DEF IsMap
      <4>8. Says(template, path) = template[path]
        BY <4>1, <4>7, SaysNode DEF On
      <4>9. CASE IsEmptySeq(template[path])
        <5>1. Leaf(template, path) = Silent
          BY <4>8, <4>9, LeafSays DEF Blank
        <5>2. Outcome(doc[path], Silent) = doc[path]
          BY <3>3 DEF Outcome, Blank, Silent
        <5> QED
          BY <2>1, <3>1, <4>2, <4>6, <4>9, <5>1, <5>2 DEF made
      <4>10. CASE ~IsEmptySeq(template[path])
        <5>1. ~Blank(template[path])
          BY <4>1, <4>10 DEF Blank, IsNull, Silent
        <5>2. Leaf(template, path) = template[path]
          BY <4>8, <5>1, LeafSays
        <5>3. Outcome(doc[path], template[path]) = joined
          BY <3>3, <4>1 DEF Outcome, Blank, joined
        <5> QED
          BY <2>1, <3>1, <4>6, <5>2, <5>3 DEF made
      <4> QED
        BY <4>9, <4>10
    <3>5. CASE ~Joins(doc, template, path)
      <4>1. made[path] = doc[path]
        BY <1>1, <3>2, <3>5
      <4>2. Says(made, path) = doc[path]
        BY <1>0, <2>1, <3>1, <3>2, <4>1, SaysNode DEF On
      <4>3. Leaf(made, path) = doc[path]
        BY <1>0, <3>3, <4>2, LeafSays
      <4>4. ASSUME doc[path].kind = "seq", Leaf(template, path).kind = "seq" PROVE FALSE
        <5>1. Leaf(template, path) # Silent
          BY <4>4 DEF Silent
        <5>2. ~Blank(Says(template, path)) /\ Leaf(template, path) = Says(template, path)
          BY <5>1, LeafSays
        <5>3. PICK r \in On(path) \cap DOMAIN template :
                ~IsMap(template[r]) /\ Says(template, path) = template[r]
          BY <5>2, SaysWhat DEF Blank
        <5>4. r = path
          BY <1>2, <5>2, <5>3 DEF Fits, Blank
        <5> QED
          BY <3>2, <3>5, <4>4, <5>2, <5>3, <5>4 DEF Joins
      <4>5. Outcome(doc[path], Leaf(template, path)) = doc[path]
        BY <3>3, <4>4 DEF Outcome, Blank
      <4> QED
        BY <2>1, <3>1, <4>3, <4>5 DEF made
    <3> QED
      BY <3>4, <3>5
  <2>4. CASE IsEmptySeq(doc[q])
    <3>1. \A r \in On(path) \cap DOMAIN doc : IsMap(doc[r]) \/ IsEmptySeq(doc[r])
      BY <2>1, <2>4
    <3>2. Outcome(doc[q], Leaf(template, path)) = Leaf(template, path)
      BY <2>4 DEF Outcome, IsEmptySeq, IsNull
    <3>3. Leaf(made, path) = Leaf(template, path)
      BY <3>1, ResolveInherited DEF made
    <3> QED
      BY <2>1, <3>2, <3>3 DEF made
  <2> QED
    BY <2>2, <2>3, <2>4
<1>4. CASE Says(doc, path) = Silent
  <2>1. \A r \in On(path) \cap DOMAIN doc : IsMap(doc[r]) \/ IsEmptySeq(doc[r])
    BY <1>4, SaysWhat
  <2>2. Outcome(Silent, Leaf(template, path)) = Leaf(template, path)
    BY DEF Outcome, Silent, IsNull
  <2> QED
    BY <1>4, <2>1, <2>2, ResolveInherited
<1> QED
  BY <1>3, <1>4

-----------------------------------------------------------------------------
(* The layers of a configuration.                                          *)

\* Expected for the three layers the provider merges, the last one first.
LEMMA ExpectedOfLayers ==
  ASSUME NEW template, NEW base, NEW typed, NEW overrides, NEW path
  PROVE  LET expected  == Expected(template, <<base, typed, overrides>>, path)
             inherited == Leaf(template, path)
             b == Says(base, path)
             t == Says(typed, path)
             o == Says(overrides, path)
         IN /\ o # Silent =>
                 expected = Outcome(IF IsEmptySeq(o) THEN NullNode ELSE o, inherited)
            /\ o = Silent /\ t # Silent /\ ~IsEmptySeq(t) => expected = Outcome(t, inherited)
            /\ o = Silent /\ t = Silent /\ b # Silent /\ ~IsEmptySeq(b) =>
                 expected = Outcome(b, inherited)
            /\ o = Silent /\ t = Silent /\ (b = Silent \/ IsEmptySeq(b)) =>
                 expected = inherited
<1> DEFINE layers == <<base, typed, overrides>>
           says(i) == Says(layers[i], path)
           speaks(i) == says(i) # Silent /\ (i < 3 => ~IsEmptySeq(says(i)))
           last == {i \in 1..3 : speaks(i) /\ \A j \in i + 1..3 : ~speaks(j)}
           inherited == Leaf(template, path)
           expected == Expected(template, layers, path)
           value(node) == IF IsNull(node) \/ IsEmptySeq(node) THEN Silent
                          ELSE IF node.kind = "seq" /\ inherited.kind = "seq"
                               THEN Sequence(node.items \o inherited.items)
                          ELSE node
<1>1. Len(layers) = 3
  OBVIOUS
<1>2. expected = IF last = {} THEN inherited ELSE value(says(CHOOSE i \in last : TRUE))
  BY <1>1 DEF Expected
<1>3. /\ says(1) = Says(base, path) /\ says(2) = Says(typed, path)
      /\ says(3) = Says(overrides, path)
  OBVIOUS
<1>4. \A node : node # Silent /\ ~IsEmptySeq(node) => value(node) = Outcome(node, inherited)
  BY DEF Outcome
<1>5. \A node : IsEmptySeq(node) => value(node) = Outcome(NullNode, inherited)
  BY DEF Outcome, IsNull, NullNode
<1> HIDE DEF layers, says, inherited, expected, value
<1>6. CASE says(3) # Silent
  <2>1. last = {3}
    BY <1>6
  <2>2. (CHOOSE i \in last : TRUE) = 3
    BY <2>1
  <2>3. expected = value(says(3))
    BY <1>2, <2>1, <2>2
  <2> QED
    BY <1>3, <1>4, <1>5, <1>6, <2>3 DEF expected, inherited, layers
<1>7. CASE says(3) = Silent /\ says(2) # Silent /\ ~IsEmptySeq(says(2))
  <2>1. last = {2}
    BY <1>7
  <2>2. (CHOOSE i \in last : TRUE) = 2
    BY <2>1
  <2>3. expected = value(says(2))
    BY <1>2, <2>1, <2>2
  <2> QED
    BY <1>3, <1>4, <1>7, <2>3 DEF expected, inherited, layers
<1>8. CASE says(3) = Silent /\ says(2) = Silent /\ says(1) # Silent /\ ~IsEmptySeq(says(1))
  <2>1. last = {1}
    BY <1>8
  <2>2. (CHOOSE i \in last : TRUE) = 1
    BY <2>1
  <2>3. expected = value(says(1))
    BY <1>2, <2>1, <2>2
  <2> QED
    BY <1>3, <1>4, <1>8, <2>3 DEF expected, inherited, layers
<1>9. CASE says(3) = Silent /\ says(2) = Silent /\ (says(1) = Silent \/ IsEmptySeq(says(1)))
  <2>1. last = {}
    BY <1>9
  <2> QED
    BY <1>2, <1>3, <1>9, <2>1 DEF expected, inherited, layers
<1> QED
  BY <1>3, <1>6, <1>7, <1>8, <1>9 DEF expected, inherited, layers

\* The empty document says nothing, and so has nothing.
LEMMA EmptyTemplate ==
  /\ IsDocument(EmptyDocument)
  /\ \A path : Fits(EmptyDocument, path) /\ Says(EmptyDocument, path) = Silent
               /\ Leaf(EmptyDocument, path) = Silent
<1>1. \A path : Says(EmptyDocument, path) = Silent
  BY SaysNothing DEF EmptyDocument
<1> QED
  BY <1>1 DEF EmptyDocument, IsDocument, Fits, Leaf, Silent

\* Of any three documents, rendered and then resolved over a template, the last
\* that says anything of a path decides what it is, however deep the path
\* (config.go:162-294).  Either there is no template or the first document, which
\* is then its name, says nothing; the typed attributes are scalars.
THEOREM LayersResolve ==
  ASSUME NEW template, NEW base, NEW typed, NEW overrides, NEW path \in Seq(Keys),
         IsDocument(template), IsDocument(base), IsDocument(typed), IsDocument(overrides),
         Fits(template, path), Fits(base, path), Fits(typed, path), Fits(overrides, path),
         template = EmptyDocument \/ Says(base, path) = Silent,
         Says(typed, path) = Silent \/ ~Blank(Says(typed, path))
  PROVE  Leaf(Resolve(Render(base, typed, overrides), template), path)
           = Expected(template, <<base, typed, overrides>>, path)
<1> DEFINE first == MergeMaps(base, typed)
           over == MarkEmptySequencesAsClears(overrides)
           doc == MergeMaps(first, over)
           b == Says(base, path)
           t == Says(typed, path)
           o == Says(overrides, path)
           inherited == Leaf(template, path)
           result == Leaf(Resolve(doc, template), path)
           expected == Expected(template, <<base, typed, overrides>>, path)
<1>1. IsDocument(first) /\ Fits(first, path)
  BY MergeDocument, MergeFits
<1>2. /\ IsDocument(over) /\ Fits(over, path)
      /\ Says(over, path) = IF IsEmptySeq(o) THEN NullNode ELSE o
  BY MarkSays
<1>3. /\ t # Silent => Says(first, path) = t
      /\ t = Silent => Says(first, path) = b \/ (Says(first, path) = Silent /\ Blank(b))
  BY MergeSays
<1>4. Render(base, typed, overrides) = doc
  BY DEF Render
<1> HIDE DEF first, over
<1>5. IsDocument(doc) /\ Fits(doc, path)
  BY <1>1, <1>2, MergeDocument, MergeFits
<1>6. /\ Says(over, path) # Silent => Says(doc, path) = Says(over, path)
      /\ Says(over, path) = Silent =>
           \/ Says(doc, path) = Says(first, path)
           \/ Says(doc, path) = Silent /\ Blank(Says(first, path))
  BY <1>1, <1>2, MergeSays
<1> HIDE DEF doc
<1>7. result = Outcome(Says(doc, path), inherited)
  BY <1>5, ResolveLeaf
<1>8. /\ o # Silent => expected = Outcome(IF IsEmptySeq(o) THEN NullNode ELSE o, inherited)
      /\ o = Silent /\ t # Silent /\ ~IsEmptySeq(t) => expected = Outcome(t, inherited)
      /\ o = Silent /\ t = Silent /\ b # Silent /\ ~IsEmptySeq(b) =>
           expected = Outcome(b, inherited)
      /\ o = Silent /\ t = Silent /\ (b = Silent \/ IsEmptySeq(b)) => expected = inherited
  BY ExpectedOfLayers
<1>9. NullNode # Silent /\ ~IsEmptySeq(Silent)
  BY DEF NullNode, Silent, IsEmptySeq
<1>10. Outcome(Silent, inherited) = inherited
  BY DEF Outcome, Silent, IsNull
<1>11. template = EmptyDocument =>
         inherited = Silent /\ \A node : Blank(node) => Outcome(node, inherited) = Silent
  BY EmptyTemplate DEF Outcome, Blank
<1> HIDE DEF b, t, o, inherited, result, expected
<1>12. result = expected
  <2>1. CASE o # Silent
    BY <1>2, <1>6, <1>7, <1>8, <1>9, <2>1
  <2>2. CASE o = Silent /\ t # Silent
    <3>1. ~Blank(t)
      BY <2>2 DEF t
    <3>2. Says(first, path) = t /\ Says(over, path) = Silent
      BY <1>2, <1>3, <1>9, <2>2
    <3>3. Says(doc, path) = t
      BY <1>6, <3>1, <3>2
    <3> QED
      BY <1>7, <1>8, <2>2, <3>1, <3>3 DEF Blank
  <2>3. CASE o = Silent /\ t = Silent
    <3>1. Says(over, path) = Silent
      BY <1>2, <1>9, <2>3
    <3>2. CASE ~Blank(b)
      <4>1. Says(doc, path) = b
        BY <1>3, <1>6, <2>3, <3>1, <3>2
      <4> QED
        BY <1>7, <1>8, <2>3, <3>2, <4>1 DEF Blank
    <3>3. CASE b = Silent
      <4>1. Says(doc, path) = Silent
        BY <1>3, <1>6, <2>3, <3>1, <3>3
      <4> QED
        BY <1>7, <1>8, <1>10, <2>3, <3>3, <4>1
    <3>4. CASE Blank(b) /\ b # Silent
      <4>1. template = EmptyDocument
        BY <3>4 DEF b
      <4>2. Blank(Says(doc, path))
        BY <1>3, <1>6, <2>3, <3>1, <3>4 DEF Blank
      <4>3. result = Silent
        BY <1>7, <1>11, <4>1, <4>2
      <4>4. expected = Silent
        BY <1>8, <1>11, <2>3, <3>4, <4>1
      <4> QED
        BY <4>3, <4>4
    <3> QED
      BY <3>2, <3>3, <3>4 DEF Blank
  <2> QED
    BY <2>1, <2>2, <2>3
<1> QED
  BY <1>4, <1>12 DEF result, expected

-----------------------------------------------------------------------------
(* The configurations.                                                     *)

\* Paths of one key and of two.
LEMMA ShortPaths ==
  /\ \A a \in Keys :
       <<a>> \in Seq(Keys) /\ <<a>> # <<>> /\ <<a>>[1] = a /\ Above(<<a>>) = {}
  /\ \A a, b \in Keys :
       <<a, b>> \in Seq(Keys) /\ <<a, b>> # <<>> /\ <<a, b>>[1] = a
<1>1. ASSUME NEW a \in Keys
      PROVE  <<a>> \in Seq(Keys) /\ <<a>> # <<>> /\ <<a>>[1] = a /\ Above(<<a>>) = {}
  <2>1. <<a>> \in Seq(Keys) /\ Len(<<a>>) = 1 /\ <<a>>[1] = a
    OBVIOUS
  <2>2. 1..Len(<<a>>) - 1 = {}
    BY <2>1
  <2>3. Above(<<a>>) = {}
    BY <2>2 DEF Above
  <2>4. Len(<<>>) = 0
    OBVIOUS
  <2> QED
    BY <2>1, <2>3, <2>4
<1>2. ASSUME NEW a \in Keys, NEW b \in Keys
      PROVE  <<a, b>> \in Seq(Keys) /\ <<a, b>> # <<>> /\ <<a, b>>[1] = a
  <2>1. <<a, b>> \in Seq(Keys) /\ Len(<<a, b>>) = 2 /\ <<a, b>>[1] = a
    OBVIOUS
  <2>2. Len(<<>>) = 0
    OBVIOUS
  <2> QED
    BY <2>1, <2>2
<1> QED
  BY <1>1, <1>2

\* The paths looked at are no part of the reference to a template, and those of
\* sizes are one key long.
LEMMA PathsAre ==
  \A path \in Paths :
    /\ path \in Seq(Keys) /\ path # <<>> /\ path[1] # "base"
    /\ path[1] \in SizeAttrs => path = <<path[1]>>
<1> SUFFICES ASSUME NEW path \in Paths
             PROVE  /\ path \in Seq(Keys) /\ path # <<>> /\ path[1] # "base"
                    /\ path[1] \in SizeAttrs => path = <<path[1]>>
  OBVIOUS
<1>1. CASE path \in {<<a>> : a \in {"memory", "disk", "mounts"}}
  <2>1. PICK a \in {"memory", "disk", "mounts"} : path = <<a>>
    BY <1>1
  <2>2. path \in Seq(Keys) /\ path # <<>> /\ path[1] = a
    BY <2>1, ShortPaths, KeysAssumption
  <2> QED
    BY <2>1, <2>2
<1>2. CASE path \in {<<"ssh", b>> : b \in {"port", "agent"}}
  <2>1. PICK b \in {"port", "agent"} : path = <<"ssh", b>>
    BY <1>2
  <2>2. path \in Seq(Keys) /\ path # <<>> /\ path[1] = "ssh"
    BY <2>1, ShortPaths, KeysAssumption
  <2> QED
    BY <2>2 DEF SizeAttrs
<1> QED
  BY <1>1, <1>2 DEF Paths

\* Every path on a path begins with the same key.
LEMMA SameRoot ==
  ASSUME NEW path \in Seq(Keys), path # <<>>, NEW q \in On(path)
  PROVE  q[1] = path[1]
<1>1. PICK n \in 1..Len(path) : q = SubSeq(path, 1, n)
  BY OnPrefixes
<1>2. Len(path) \in Nat
  BY LenProperties
<1>3. \A i \in 1..n - 1 + 1 : SubSeq(path, 1, n)[i] = path[1 + i - 1]
  BY <1>2, SubSeqProperties
<1> QED
  BY <1>1, <1>2, <1>3

\* The three layers and the template of a valid configuration are documents of
\* Lima's schema; the template's name stands for nothing that is looked at.
LEMMA LayersInSchema ==
  ASSUME NEW w \in Wishes, Valid(w)
  PROVE  /\ InSchema(Base(w)) /\ InSchema(Typed(w)) /\ InSchema(Overrides(w))
         /\ InSchema(Template(w))
         /\ \A path \in Paths :
              /\ Template(w) = EmptyDocument \/ Says(Base(w), path) = Silent
              /\ Says(Typed(w), path) = Silent \/ ~Blank(Says(Typed(w), path))
<1>1. /\ Set(w, "config") => w.config \in DOMAIN Parsed
      /\ Set(w, "config_overrides") => w.config_overrides \in DOMAIN Parsed
      /\ Set(w, "template") => w.template \in DOMAIN Templates
      /\ \A a \in SizeAttrs : Set(w, a) => w[a] \in Sizes /\ ValidSize(w[a])
      /\ Set(w, "config") => ~Set(w, "template")
  BY SettingsAssumption DEF Configurations, Set, Valid, SizeAttrs
<1>2. \A key \in Keys : <<key>> \in Seq(Keys) /\ <<key>>[1] = key /\ Above(<<key>>) = {}
  BY ShortPaths
<1>3. InSchema(EmptyDocument)
  BY EmptyTemplate DEF InSchema, EmptyDocument
<1>4. InSchema(Overrides(w)) /\ InSchema(Template(w))
  BY <1>1, <1>3, DocumentsAssumption DEF Overrides, Template
<1> DEFINE ref == [p \in {<<"base">>} |-> Scalar(w.template)]
<1>5. \A path \in Paths : On(path) \cap DOMAIN ref = {}
  BY PathsAre, SameRoot
<1>6. InSchema(ref) /\ \A path \in Paths : Says(ref, path) = Silent
  <2>1. IsNode(Scalar(w.template))
    BY DEF IsNode, Scalar
  <2>2. IsDocument(ref)
    <3>1. ASSUME NEW p \in DOMAIN ref
          PROVE  p \in Seq(Keys) /\ IsNode(ref[p]) /\ Above(p) = {}
      BY <1>2, <2>1, KeysAssumption
    <3> QED
      BY <3>1 DEF IsDocument
  <2>3. \A path \in Paths : Says(ref, path) = Silent /\ Fits(ref, path)
    BY <1>5, SaysNothing DEF Fits, On
  <2>4. \A a \in SizeAttrs : <<a>> # <<"base">>
    BY DEF SizeAttrs
  <2> QED
    BY <2>2, <2>3, <2>4 DEF InSchema
<1>7. Base(w) \in {EmptyDocument, ref} \/ (Set(w, "config") /\ Base(w) = Parsed[w.config])
  BY DEF Base
<1> HIDE DEF ref
<1>8. InSchema(Base(w))
  BY <1>1, <1>3, <1>6, <1>7, DocumentsAssumption
<1>9. \A path \in Paths : Template(w) = EmptyDocument \/ Says(Base(w), path) = Silent
  BY <1>1, <1>6, <1>7, EmptyTemplate DEF Template
<1> DEFINE typed == Typed(w)
<1>10. /\ DOMAIN typed = {<<a>> : a \in {b \in SizeAttrs : Set(w, b)}}
       /\ \A a \in SizeAttrs : Set(w, a) => typed[<<a>>] = Scalar(w[a])
  BY DEF Typed
<1> HIDE DEF typed
<1>11. ASSUME NEW p \in DOMAIN typed
       PROVE  /\ p \in Seq(Keys) /\ Above(p) = {} /\ p[1] \in SizeAttrs
              /\ IsNode(typed[p]) /\ ~IsMap(typed[p]) /\ SizeNode(typed[p]) /\ ~Blank(typed[p])
  <2>1. PICK a \in SizeAttrs : p = <<a>> /\ Set(w, a)
    BY <1>10
  <2>2. typed[p] = Scalar(w[a]) /\ w[a] \in Sizes /\ ValidSize(w[a])
    BY <1>1, <1>10, <2>1
  <2>3. a \in Keys
    BY KeysAssumption DEF SizeAttrs
  <2>4. p \in Seq(Keys) /\ Above(p) = {} /\ p[1] \in SizeAttrs
    BY <1>2, <2>1, <2>3
  <2>5. \A size : IsNode(Scalar(size)) /\ ~IsMap(Scalar(size)) /\ ~Blank(Scalar(size))
    BY DEF Scalar, IsNode, IsMap, Blank, Silent, IsNull, IsEmptySeq
  <2>6. SizeNode(Scalar(w[a]))
    BY <2>2 DEF SizeNode, Scalar
  <2> QED
    BY <2>2, <2>4, <2>5, <2>6
<1>12. IsDocument(typed)
  BY <1>11 DEF IsDocument
<1>13. ASSUME NEW path \in Paths
       PROVE  Fits(typed, path) /\ (Says(typed, path) = Silent \/ ~Blank(Says(typed, path)))
  <2>1. \A q \in On(path) \cap DOMAIN typed : q = path
    <3>1. ASSUME NEW q \in On(path) \cap DOMAIN typed PROVE q = path
      <4>1. path[1] \in SizeAttrs
        BY <1>11, PathsAre, SameRoot
      <4>2. path = <<path[1]>> /\ path[1] \in Keys
        BY <4>1, PathsAre, KeysAssumption DEF SizeAttrs
      <4>3. Above(path) = {}
        BY <1>2, <4>2
      <4> QED
        BY <4>3 DEF On
    <3> QED
      BY <3>1
  <2>2. \A q \in Above(path) : q \notin DOMAIN typed
    BY <1>11, <2>1 DEF On
  <2>3. Fits(typed, path)
    BY <1>11, <2>2 DEF Fits
  <2>4. Says(typed, path) = Silent \/ ~Blank(Says(typed, path))
    BY <1>11, <1>12, PathsAre, SaysWhat
  <2> QED
    BY <2>3, <2>4
<1>14. InSchema(typed)
  BY <1>11, <1>12, <1>13 DEF InSchema
<1> QED
  BY <1>4, <1>8, <1>9, <1>13, <1>14 DEF typed

\* The instance of a valid configuration has, at every path looked at, what the last
\* layer says.
LEMMA CreatedAsExpected ==
  ASSUME NEW w \in Wishes, Valid(w), NEW path \in Paths
  PROVE  Leaf(Resolve(Document(w), Template(w)), path)
           = Expected(Template(w), <<Base(w), Typed(w), Overrides(w)>>, path)
<1>1. /\ IsDocument(Template(w)) /\ Fits(Template(w), path)
      /\ IsDocument(Base(w)) /\ Fits(Base(w), path)
      /\ IsDocument(Typed(w)) /\ Fits(Typed(w), path)
      /\ IsDocument(Overrides(w)) /\ Fits(Overrides(w), path)
  BY LayersInSchema DEF InSchema
<1>2. /\ Template(w) = EmptyDocument \/ Says(Base(w), path) = Silent
      /\ Says(Typed(w), path) = Silent \/ ~Blank(Says(Typed(w), path))
  BY LayersInSchema
<1>3. path \in Seq(Keys)
  BY PathsAre
<1>4. Document(w) = Render(Base(w), Typed(w), Overrides(w))
  BY DEF Document
<1> QED
  BY <1>1, <1>2, <1>3, <1>4, LayersResolve

\* What a size can be in the end: none, or one that is one.
ProperSize(node) ==
  node = Silent \/ (node.kind = "scalar" /\ node.value \in Sizes /\ ValidSize(node.value))

\* In a document of the schema a size's path has no node or a size's.
LEMMA SchemaSize ==
  ASSUME NEW doc, InSchema(doc), NEW a \in SizeAttrs
  PROVE  /\ Says(doc, <<a>>) = Silent \/ SizeNode(Says(doc, <<a>>))
         /\ ProperSize(Leaf(doc, <<a>>))
<1>1. <<a>> \in Seq(Keys) /\ On(<<a>>) = {<<a>>}
  BY ShortPaths, KeysAssumption DEF On, SizeAttrs
<1>2. IsDocument(doc)
  BY DEF InSchema
<1>3. <<a>> \in DOMAIN doc => SizeNode(doc[<<a>>])
  BY DEF InSchema
<1>4. Says(doc, <<a>>) = Silent \/ SizeNode(Says(doc, <<a>>))
  <2>1. ASSUME Says(doc, <<a>>) # Silent PROVE SizeNode(Says(doc, <<a>>))
    <3>1. PICK q \in On(<<a>>) \cap DOMAIN doc : Says(doc, <<a>>) = doc[q]
      BY <1>1, <1>2, <2>1, SaysWhat
    <3> QED
      BY <1>1, <1>3, <3>1
  <2> QED
    BY <2>1
<1>5. Leaf(doc, <<a>>) = IF Blank(Says(doc, <<a>>)) THEN Silent ELSE Says(doc, <<a>>)
  BY <1>1, <1>2, LeafSays
<1> QED
  BY <1>4, <1>5 DEF Blank, SizeNode, ProperSize

\* The size of an instance that is created is one.
LEMMA CreatedSize ==
  ASSUME NEW w \in Wishes, Valid(w), NEW a \in SizeAttrs
  PROVE  SizeIn(Resolve(Document(w), Template(w)), a) \in 1..MaxInt
<1> DEFINE inherited == Leaf(Template(w), <<a>>)
           expected == Expected(Template(w), <<Base(w), Typed(w), Overrides(w)>>, <<a>>)
           OrNone(node) == node = Silent \/ SizeNode(node)
<1>1. /\ OrNone(Says(Base(w), <<a>>)) /\ OrNone(Says(Typed(w), <<a>>))
      /\ OrNone(Says(Overrides(w), <<a>>)) /\ ProperSize(inherited)
  BY LayersInSchema, SchemaSize
<1>2. ASSUME NEW node, OrNone(node)
      PROVE  /\ ProperSize(Outcome(node, inherited))
             /\ ProperSize(Outcome(IF IsEmptySeq(node) THEN NullNode ELSE node, inherited))
  <2>1. IsNull(NullNode) /\ ProperSize(Silent)
    BY DEF IsNull, NullNode, ProperSize
  <2>2. CASE node = Silent \/ IsNull(node) \/ IsEmptySeq(node)
    <3>1. Outcome(node, inherited) \in {Silent, inherited}
      BY <2>2 DEF Outcome
    <3>2. Outcome(IF IsEmptySeq(node) THEN NullNode ELSE node, inherited) \in {Silent, inherited}
      BY <2>1, <2>2 DEF Outcome
    <3> QED
      BY <1>1, <2>1, <3>1, <3>2
  <2>3. CASE node # Silent /\ ~IsNull(node) /\ ~IsEmptySeq(node)
    <3>1. node.kind = "scalar" /\ ProperSize(node)
      BY <1>2, <2>3 DEF SizeNode, ProperSize
    <3>2. Outcome(node, inherited) = node
      BY <2>3, <3>1 DEF Outcome
    <3> QED
      BY <2>3, <3>1, <3>2
  <2> QED
    BY <2>2, <2>3
<1> HIDE DEF OrNone
<1>3. ProperSize(expected)
  <2>1. \/ expected = inherited
        \/ expected = Outcome(Says(Base(w), <<a>>), inherited)
        \/ expected = Outcome(Says(Typed(w), <<a>>), inherited)
        \/ expected = Outcome(IF IsEmptySeq(Says(Overrides(w), <<a>>)) THEN NullNode
                              ELSE Says(Overrides(w), <<a>>), inherited)
    <3> DEFINE b == Says(Base(w), <<a>>)
               t == Says(Typed(w), <<a>>)
               o == Says(Overrides(w), <<a>>)
    <3>1. /\ o # Silent =>
               expected = Outcome(IF IsEmptySeq(o) THEN NullNode ELSE o, inherited)
          /\ o = Silent /\ t # Silent /\ ~IsEmptySeq(t) => expected = Outcome(t, inherited)
          /\ o = Silent /\ t = Silent /\ b # Silent /\ ~IsEmptySeq(b) =>
               expected = Outcome(b, inherited)
          /\ o = Silent /\ t = Silent /\ (b = Silent \/ IsEmptySeq(b)) => expected = inherited
      BY ExpectedOfLayers
    <3>2. t = Silent \/ ~IsEmptySeq(t)
      BY LayersInSchema DEF Blank, SizeAttrs, Paths
    <3> HIDE DEF b, t, o, expected, inherited
    <3>3. \/ expected = inherited \/ expected = Outcome(b, inherited)
          \/ expected = Outcome(t, inherited)
          \/ expected = Outcome(IF IsEmptySeq(o) THEN NullNode ELSE o, inherited)
      BY <3>1, <3>2
    <3> QED
      BY <3>3 DEF b, t, o, expected, inherited
  <2> HIDE DEF expected, inherited
  <2> QED
    BY <1>1, <1>2, <2>1
<1>4. Leaf(Resolve(Document(w), Template(w)), <<a>>) = expected
  BY CreatedAsExpected DEF SizeAttrs, Paths
<1> HIDE DEF expected
<1>5. CASE expected = Silent
  BY <1>4, <1>5, SettingsAssumption DEF SizeIn
<1>6. CASE expected # Silent
  <2>1. expected.value \in Sizes /\ ParseSize(expected.value) > 0
    BY <1>3, <1>6 DEF ProperSize, ValidSize
  <2>2. ParseSize(expected.value) \in 1..MaxInt
    BY <2>1, ParsedSize, SizesAssumption
  <2> QED
    BY <1>4, <1>6, <2>2 DEF SizeIn
<1> QED
  BY <1>5, <1>6

-----------------------------------------------------------------------------
(* Types.                                                                  *)

\* What stands for nothing is neither a state nor an instance.
LEMMA Gones ==
  Gone \notin States /\ Gone \notin Instances
BY SettingsAssumption, GoneAssumption

\* A set size of a valid configuration is a number of bytes.
LEMMA WantedSize ==
  ASSUME NEW w \in Wishes, Valid(w), NEW a \in SizeAttrs, Set(w, a)
  PROVE  w[a] \in Sizes /\ ParseSize(w[a]) \in 1..MaxInt
<1>1. w[a] \in Sizes
  BY SettingsAssumption DEF Configurations, SizeAttrs, Set
<1>2. ParseSize(w[a]) > 0
  BY DEF Valid, ValidSize
<1> QED
  BY <1>1, <1>2, ParsedSize, SizesAssumption

\* Before the first apply.
LEMMA InitType == Init => TypeOK
<1> SUFFICES ASSUME Init PROVE TypeOK
  OBVIOUS
<1>1. ASSUME vm # Gone PROVE vm \in Instances
  <2>1. PICK n \in Observable :
          vm = [doc |-> EmptyDocument, memory |-> n, disk |-> Default.disk, running |-> TRUE]
    BY <1>1 DEF Init
  <2>2. n \in 1..MaxInt /\ Default.disk \in 1..MaxInt
    BY SettingsAssumption DEF SizeAttrs
  <2> DEFINE docs == {EmptyDocument} \cup {Created[w].doc : w \in DOMAIN Created}
  <2>3. Instances = [doc : docs, memory : 1..MaxInt, disk : 1..MaxInt, running : BOOLEAN]
    BY DEF Instances
  <2>4. EmptyDocument \in docs
    OBVIOUS
  <2> HIDE DEF docs
  <2> QED
    BY <2>1, <2>2, <2>3, <2>4
<1>2. vm \in Instances \cup {Gone}
  BY <1>1
<1> QED
  BY <1>2, SettingsAssumption DEF Init, TypeOK

\* Terraform state after a refresh or an import is a state.
LEMMA ReadState ==
  ASSUME NEW settings \in Configurations, NEW v \in Instances
  PROVE  /\ [settings |-> [settings EXCEPT !.memory = ObservedSize(@, v.memory),
                                           !.disk = ObservedSize(@, v.disk)],
             start |-> v.running] \in States
         /\ [settings |-> [a \in SizeAttrs \cup TextAttrs |->
                             IF a \in SizeAttrs THEN FormatSize(v[a]) ELSE Null],
             start |-> v.running] \in States
<1>1. v.memory \in 1..MaxInt /\ v.disk \in 1..MaxInt /\ v.running \in BOOLEAN
  BY DEF Instances
<1>2. \A size \in Sizes \cup {Null}, bytes \in 1..MaxInt :
        ObservedSize(size, bytes) \in Sizes \cup {Null}
  BY FormatRoundTrips DEF ObservedSize
<1>3. FormatSize(v.memory) \in Sizes /\ FormatSize(v.disk) \in Sizes
  BY <1>1, FormatRoundTrips
<1>4. [settings EXCEPT !.memory = ObservedSize(@, v.memory),
                       !.disk = ObservedSize(@, v.disk)] \in Configurations
  BY <1>1, <1>2 DEF Configurations
<1>5. [a \in SizeAttrs \cup TextAttrs |->
         IF a \in SizeAttrs THEN FormatSize(v[a]) ELSE Null] \in Configurations
  BY <1>3 DEF Configurations, SizeAttrs, TextAttrs
<1> QED
  BY <1>1, <1>4, <1>5 DEF States

\* What a create makes is an instance, and its document the one rendered and
\* resolved.
LEMMA CreatedInstance ==
  ASSUME NEW w \in DOMAIN Created, Valid(w)
  PROVE  /\ Created[w] \in Instances
         /\ Created[w].doc = Resolve(Document(w), Template(w))
<1> DEFINE doc == Resolve(Document(w), Template(w))
<1>1. w \in Wishes /\ Created[w] = Instance(doc)
  BY DEF Created
<1>2. /\ Created[w].doc = doc /\ Created[w].memory = SizeIn(doc, "memory")
      /\ Created[w].disk = SizeIn(doc, "disk") /\ Created[w].running = TRUE
      /\ Created[w] = [doc |-> Created[w].doc, memory |-> Created[w].memory,
                       disk |-> Created[w].disk, running |-> Created[w].running]
  BY <1>1 DEF Instance
<1>3. SizeIn(doc, "memory") \in 1..MaxInt /\ SizeIn(doc, "disk") \in 1..MaxInt
  BY <1>1, CreatedSize DEF SizeAttrs
<1>4. Created[w].doc \in {Created[x].doc : x \in DOMAIN Created}
  OBVIOUS
<1> QED
  BY <1>2, <1>3, <1>4 DEF Instances

\* What a flag sets is the size that was asked for.
LEMMA EditedSize ==
  ASSUME TypeOK, Editable, NEW a \in Needed
  PROVE  /\ a \in SizeAttrs /\ Set(want, a)
         /\ ParseSize(want[a]) \in 1..MaxInt /\ ParseSize(want[a]) # vm[a]
         /\ GiBFlagValue[ParseSize(want[a])] = ParseSize(want[a])
<1>1. a \in SizeAttrs /\ Set(want, a) /\ ParseSize(want[a]) # vm[a]
  BY DEF Needed, FilterToActualChanges, Asked
<1>2. ParseSize(want[a]) \in 1..MaxInt
  BY <1>1, WantedSize DEF TypeOK
<1>3. GiBFlagValue[ParseSize(want[a])] # Refused
  BY DEF Editable
<1> QED
  BY <1>1, <1>2, <1>3, FlagIsExact

\* Every step keeps the types.
LEMMA NextType == TypeOK /\ [Next]_vars => TypeOK'
<1> SUFFICES ASSUME TypeOK, [Next]_vars PROVE TypeOK'
  OBVIOUS
<1>0. /\ want \in Wishes /\ Valid(want) /\ tf \in States \cup {Gone}
      /\ vm \in Instances \cup {Gone} /\ (tf # Gone => vm # Gone) /\ pc \in {"idle", "edit"}
      /\ (pc = "edit" => tf # Gone /\ ~vm.running) /\ acts \in 0..MaxActs
      /\ MaxActs \in Nat
  BY SettingsAssumption DEF TypeOK
<1>a. \A w \in Wishes : Recorded(w) \in States
  BY SettingsAssumption DEF Recorded, States
<1>b. \A v \in Instances : \A up \in BOOLEAN : [v EXCEPT !.running = up] \in Instances
  BY DEF Instances
<1>c. \A v \in Instances : v.running \in BOOLEAN
  BY DEF Instances
<1>1. CASE Create
  <2>1. vm' \in Instances
    BY <1>0, <1>1, CreatedInstance DEF Create
  <2> QED
    BY <1>0, <1>a, <1>1, <2>1, Gones DEF Create, TypeOK, Idle, Valid, Set
<1>2. CASE Replace
  BY <1>0, <1>2 DEF Replace, TypeOK, Idle, Valid, Set
<1>3. CASE Update
  <2>1. tf # Gone
    BY <1>3 DEF Update, Plan
  <2>2. vm' \in Instances
    BY <1>0, <1>b, <1>3, <2>1 DEF Update
  <2>3. tf' \in States
    BY <1>0, <1>a, <1>3, <2>1 DEF Update, Rendered
  <2> QED
    BY <1>0, <1>3, <2>2, <2>3, Gones DEF Update, TypeOK, Idle, Valid, Set
<1>4. CASE Stop
  <2>1. tf # Gone
    BY <1>4 DEF Stop, Plan
  <2>2. vm' \in Instances
    BY <1>0, <1>b, <1>4, <2>1 DEF Stop
  <2>3. vm'.running = FALSE
    BY <1>0, <1>4, <2>1 DEF Stop, Instances
  <2> QED
    BY <1>0, <1>4, <2>1, <2>2, <2>3, Gones DEF Stop, TypeOK, Valid, Set
<1>5. CASE Edit
  <2>1. vm \in Instances
    BY <1>0, <1>5 DEF Edit
  <2>2. \A a \in Needed : GiBFlagValue[ParseSize(want[a])] \in 1..MaxInt
    BY <1>5, EditedSize DEF Edit
  <2>3. vm' \in Instances
    BY <1>5, <2>1, <2>2 DEF Edit, Instances
  <2>4. tf' \in States
    BY <1>0, <1>a, <1>5 DEF Edit, Rendered
  <2> QED
    BY <1>0, <1>5, <2>3, <2>4, Gones DEF Edit, TypeOK, Valid, Set
<1>6. CASE EditRefused
  BY <1>0, <1>6 DEF EditRefused, TypeOK, Valid, Set
<1>7. CASE Refresh
  <2>1. tf.settings \in Configurations /\ vm \in Instances
    BY <1>0, <1>7 DEF Refresh, States
  <2>2. tf' \in States
    BY <1>7, <2>1, ReadState DEF Refresh, Refreshed
  <2> QED
    BY <1>0, <1>7, <2>2 DEF Refresh, TypeOK, Idle, Valid, Set
<1>8. CASE ImportState
  <2>1. vm \in Instances
    BY <1>0, <1>8 DEF ImportState
  <2>2. PICK settings \in Configurations : TRUE
    BY <1>0, SettingsAssumption
  <2>3. tf' \in States
    BY <1>8, <2>1, <2>2, ReadState DEF ImportState
  <2>4. acts' \in 0..MaxActs
    BY <1>0, <1>8 DEF ImportState
  <2> QED
    BY <1>0, <1>8, <2>3, <2>4 DEF ImportState, TypeOK, Idle, Valid, Set
<1>9. CASE ChangeWant
  <2>1. want' \in Wishes /\ Valid(want')
    BY <1>9 DEF ChangeWant
  <2>2. acts' \in 0..MaxActs
    BY <1>0, <1>9 DEF ChangeWant
  <2> QED
    BY <1>0, <1>9, <2>1, <2>2 DEF ChangeWant, TypeOK, Idle, Valid, Set
<1>10. CASE User
  <2>1. vm \in Instances
    BY <1>0, <1>10 DEF User
  <2>2. acts' \in 0..MaxActs
    BY <1>0, <1>10 DEF User
  <2>3. \A n \in Observable : /\ [vm EXCEPT !.memory = n] \in Instances
                              /\ [vm EXCEPT !.disk = n] \in Instances
    BY <2>1, SettingsAssumption DEF Instances
  <2>4. [vm EXCEPT !.running = ~@] \in Instances
    BY <2>1 DEF Instances
  <2>5. vm' \in Instances
    BY <1>10, <2>3, <2>4 DEF User
  <2> QED
    BY <1>0, <1>10, <2>2, <2>5, Gones DEF User, TypeOK, Idle, Valid, Set
<1>11. CASE UNCHANGED vars
  BY <1>11, <1>0 DEF vars, TypeOK, Valid, Set
<1> QED
  BY <1>1, <1>2, <1>3, <1>4, <1>5, <1>6, <1>7, <1>8, <1>9, <1>10, <1>11
     DEF Next, Apply, Change

\* Every reachable state is well typed: sizes stay positive and fit an integer, and
\* an update that stopped its instance has one to start.
THEOREM TypeCorrect == Spec => []TypeOK
BY InitType, NextType, PTL DEF Spec

\* In an instance that was just created every setting has the value of the last
\* layer that says anything about it, removals included.
THEOREM TheLastLayerWins == Spec => LastLayerWins
<1>1. ASSUME TypeOK, [Next]_vars, tf = Gone, vm = Gone, vm' # Gone
      PROVE  \A p \in Paths :
               Leaf(vm'.doc, p)
                 = Expected(Template(want), <<Base(want), Typed(want), Overrides(want)>>, p)
  <2>1. Create
    BY <1>1 DEF Next, Apply, Change, Replace, Update, Stop, Edit, EditRefused, Refresh,
                ImportState, ChangeWant, User, Plan, TypeOK, vars
  <2>2. want \in DOMAIN Created /\ vm' = Created[want] /\ want \in Wishes /\ Valid(want)
    BY <1>1, <2>1 DEF Create, TypeOK
  <2>3. vm'.doc = Resolve(Document(want), Template(want))
    BY <2>2, CreatedInstance
  <2> QED
    BY <2>2, <2>3, CreatedAsExpected
<1> QED
  BY <1>1, TypeCorrect, PTL DEF Spec, LastLayerWins

\* An instance is stopped only for a size that is not the one it has, and then gets
\* that size to the byte or no change.
THEOREM EditsAreExact == Spec => OnlyExactEdits
<1>1. ASSUME TypeOK, [Next]_vars, ~UNCHANGED vars, Idle, pc' = "edit"
      PROVE  \E a \in SizeAttrs : Set(want, a) /\ ParseSize(want[a]) # vm[a]
  <2>1. Stop
    BY <1>1 DEF Idle, Next, Apply, Change, Create, Replace, Update, Edit, EditRefused,
                Refresh, ImportState, ChangeWant, User
  <2> QED
    BY <2>1 DEF Stop, Needed, FilterToActualChanges, Asked
<1>2. ASSUME TypeOK, [Next]_vars, ~UNCHANGED vars, pc = "edit",
             NEW a \in SizeAttrs, vm'[a] # vm[a]
      PROVE  Set(want, a) /\ vm'[a] = ParseSize(want[a])
  <2>1. Edit
    BY <1>2 DEF Idle, Next, Apply, Change, Create, Replace, Update, Stop, EditRefused,
                Refresh, ImportState, ChangeWant, User
  <2>2. vm \in Instances
    BY <1>2 DEF TypeOK
  <2>3. a \in Needed /\ vm'[a] = GiBFlagValue[ParseSize(want[a])]
    BY <1>2, <2>1, <2>2 DEF Edit, Instances, SizeAttrs
  <2> QED
    BY <1>2, <2>1, <2>3, EditedSize DEF Edit
<1>3. ASSUME TypeOK, [Next]_vars, ~UNCHANGED vars
      PROVE  /\ Idle /\ pc' = "edit" =>
                  \E a \in SizeAttrs : Set(want, a) /\ ParseSize(want[a]) # vm[a]
             /\ pc = "edit" =>
                  \A a \in SizeAttrs :
                    vm'[a] # vm[a] => Set(want, a) /\ vm'[a] = ParseSize(want[a])
  BY <1>1, <1>2, <1>3
<1> QED
  BY <1>3, TypeCorrect, PTL DEF Spec, OnlyExactEdits

\* A refresh shows exactly the drift there is: none is hidden by how a size is
\* written, and none is made up.
THEOREM RefreshesShowDrift == Spec => []RefreshShowsDrift
<1>1. TypeOK => RefreshShowsDrift
  <2> SUFFICES ASSUME TypeOK, Idle, tf = Recorded(want)
               PROVE  Refreshed = tf
                        <=> /\ vm.running
                            /\ \A a \in SizeAttrs : Set(want, a) => vm[a] = ParseSize(want[a])
    BY DEF RefreshShowsDrift
  <2>1. want \in Configurations /\ tf \in States /\ vm \in Instances
    <3>1. want \in Configurations
      BY SettingsAssumption DEF TypeOK
    <3>2. tf \in States
      BY <3>1 DEF Recorded, States
    <3> QED
      BY <3>1, <3>2, Gones DEF TypeOK
  <2>2. /\ vm.memory \in 1..MaxInt /\ vm.disk \in 1..MaxInt /\ vm.running \in BOOLEAN
        /\ tf.settings = want /\ tf.start = TRUE
    BY <2>1 DEF Instances, Recorded
  <2>3. ASSUME NEW a \in SizeAttrs
        PROVE  ObservedSize(want[a], vm[a]) = want[a]
                 <=> (Set(want, a) => vm[a] = ParseSize(want[a]))
    <3>1. vm[a] \in 1..MaxInt
      BY <2>2 DEF SizeAttrs
    <3> QED
      BY <3>1, FormatRoundTrips DEF ObservedSize, Set
  <2>4. Refreshed = tf <=> /\ vm.running = TRUE
                           /\ ObservedSize(want.memory, vm.memory) = want.memory
                           /\ ObservedSize(want.disk, vm.disk) = want.disk
    <3> DEFINE settings == [want EXCEPT !.memory = ObservedSize(@, vm.memory),
                                        !.disk = ObservedSize(@, vm.disk)]
    <3>1. Refreshed = [settings |-> settings, start |-> vm.running]
      BY <2>2 DEF Refreshed
    <3>2. tf = [settings |-> want, start |-> TRUE]
      BY DEF Recorded
    <3>3. settings = want <=> /\ ObservedSize(want.memory, vm.memory) = want.memory
                              /\ ObservedSize(want.disk, vm.disk) = want.disk
      BY <2>1 DEF Configurations
    <3> HIDE DEF settings
    <3>4. ASSUME Refreshed = tf PROVE settings = want /\ vm.running = TRUE
      <4>1. Refreshed.settings = settings /\ Refreshed.start = vm.running
        BY <3>1
      <4>2. tf.settings = want /\ tf.start = TRUE
        BY <3>2
      <4> QED
        BY <3>4, <4>1, <4>2
    <3>5. ASSUME settings = want, vm.running = TRUE PROVE Refreshed = tf
      BY <3>1, <3>2, <3>5
    <3> QED
      BY <3>3, <3>4, <3>5
  <2>5. /\ ObservedSize(want.memory, vm.memory) = want.memory
             <=> (Set(want, "memory") => vm.memory = ParseSize(want.memory))
        /\ ObservedSize(want.disk, vm.disk) = want.disk
             <=> (Set(want, "disk") => vm.disk = ParseSize(want.disk))
    BY <2>3 DEF SizeAttrs
  <2> QED
    BY <2>2, <2>4, <2>5 DEF SizeAttrs
<1> QED
  BY <1>1, TypeCorrect, PTL

=============================================================================
