------------------------- MODULE IndexPrepareProofs -------------------------
(***************************************************************************)
(* Proofs about the preparation of index specifications, for               *)
(* specifications of any size (mongotools/index).                          *)
(*                                                                         *)
(* Every step is an edit of the words of one specification.  An edit of an *)
(* option with another name leaves the key what it was, wherever it moves  *)
(* to (OtherKeyStays); one of the key, or within it, leaves the key in its *)
(* place (OwnKeyStays).  The elements of a key have different names, so    *)
(* the edit that is given the name of an element finds that element and no *)
(* other, and what it adds moves those behind it, never those before it    *)
(* (KeyPlacesAfter).  A modernized key has the names of the one that it is *)
(* made from (ModernizedKey).                                              *)
(*                                                                         *)
(* So the places that are still to come stay those of elements of the key  *)
(* when the last one is taken first (PrepareInv).                          *)
(***************************************************************************)
EXTENDS BsonProofs, IndexPrepare

-----------------------------------------------------------------------------
\* The first element with the key, or the zero behind all elements if there is none.
FirstWith(buf, key, p) ==
    /\ p \in Places(Front(buf)) /\ (p # buf[1] => buf[p + 1] = key)
    /\ \A q \in Places(Front(buf)) : q < p => buf[q + 1] # key

\* There is only one such place.
LEMMA FirstIs ==
    ASSUME NEW docs, Sound(docs), NEW buf, Level(buf, docs), NEW key, NEW p, FirstWith(buf, key, p)
    PROVE  Match(buf, key) = p
  <1> DEFINE m == Match(buf, key)
  <1>1. FirstWith(buf, key, m)
    BY MatchIs, MatchIsFirst DEF FirstWith
  <1>2. ASSUME NEW q \in Places(Front(buf))  PROVE q \in Nat /\ q <= buf[1] /\ buf[1] \in Nat
    <2>1. Front(buf) \in Seq(Int) /\ Reads(Front(buf), docs) /\ Len(Front(buf)) = buf[1] /\ buf[1] \in Nat
      BY FrontIs DEF Level, Sound
    <2> QED  BY <2>1, PlacesOf
  <1> HIDE DEF m
  <1>3. m \in Nat /\ p \in Nat /\ m <= buf[1] /\ p <= buf[1] /\ buf[1] \in Nat
    BY <1>1, <1>2 DEF FirstWith
  <1>4. ~(m < p)
    <2> SUFFICES ASSUME m < p  PROVE FALSE
      OBVIOUS
    <2>1. buf[m + 1] = key
      BY <1>1, <1>3 DEF FirstWith
    <2> QED  BY <1>1, <2>1 DEF FirstWith
  <1>5. ~(p < m)
    <2> SUFFICES ASSUME p < m  PROVE FALSE
      OBVIOUS
    <2>1. buf[p + 1] = key
      BY <1>3 DEF FirstWith
    <2> QED  BY <1>1, <2>1 DEF FirstWith
  <1> QED  BY <1>3, <1>4, <1>5 DEF m

\* An edit of one document, at the first element with the key: it is gone, or has
\* its key still.
EditsHere(docs, more, buf, pos, key, out, added) ==
    /\ Sound(docs) /\ Sound(more)
    /\ SplicedLevel(buf, pos, out, added, docs) /\ Level(out, more)
    /\ EditsOnly(buf, pos, key, out, added)
    /\ ElementSize(buf, pos) + added = 0 \/ out[pos + 1] = key

\* Its numbers.
LEMMA EditNumbers ==
    ASSUME NEW docs, NEW more, NEW buf, NEW pos, NEW key, NEW out, NEW added,
           EditsHere(docs, more, buf, pos, key, out, added)
    PROVE  /\ buf[1] \in Nat /\ out[1] \in Nat /\ out[1] = buf[1] + added /\ added \in Int
           /\ pos \in Nat /\ pos < buf[1] /\ pos + (ElementSize(buf, pos) + added) <= out[1]
           /\ ElementSize(buf, pos) \in Nat /\ ElementSize(buf, pos) + added \in Nat
           /\ \A p \in Places(Front(buf)) : p \in Nat /\ p <= buf[1]
           /\ pos \in Places(Front(buf)) /\ buf[1] \in Places(Front(buf))
           /\ buf[pos + 1] = key /\ \A p \in Places(Front(buf)) : p < pos => buf[p + 1] # key
           /\ \A p \in Places(Front(buf)) \ {pos, buf[1]} :
                 LET q == Moved(p, pos, added)
                 IN out[q + 1] = buf[p + 1] /\ ValueAt(out, q) = ValueAt(buf, p)
           /\ Places(Front(out)) = PlacesAfter(buf, pos, added)
  <1> DEFINE size == ElementSize(buf, pos)
             doc  == Front(buf)
  <1>1. Sound(docs) /\ SplicedLevel(buf, pos, out, added, docs) /\ EditsOnly(buf, pos, key, out, added)
    BY DEF EditsHere
  <1>2. /\ added \in Int /\ pos \in Nat /\ 2 <= pos /\ size \in Nat /\ 2 <= size /\ size + added >= 0
        /\ buf[1] \in Nat /\ pos + size <= buf[1] /\ out[1] \in Nat /\ out[1] = buf[1] + added
        /\ pos + (size + added) <= out[1] /\ buf \in Seq(Int) /\ buf[1] <= Len(buf)
    BY <1>1, SpliceNumbers
  <1> HIDE DEF size
  <1>3. size + added \in Nat /\ pos < buf[1] /\ 1 <= buf[1] /\ 2 <= buf[1]
    BY <1>2
  <1>4. doc \in Seq(Int) /\ Reads(doc, docs) /\ Len(doc) = buf[1]
    BY <1>1, <1>2, <1>3, FrontIs DEF SplicedLevel, Level, Sound
  <1>5. \A p \in Places(doc) : p \in Nat /\ p <= buf[1]
    BY <1>4, PlacesOf
  <1>6. buf[1] \in Places(doc)
    <2>1. /\ Len(doc) \in Nat /\ doc[1] = Len(doc) /\ doc[1] \in Int /\ doc[1] <= Len(doc)
      BY <1>2, <1>4 DEF Reads
    <2> DEFINE m == Len(doc) \div 2
               p == Loop(doc, {})[m]
    <2>2. m \in 0..m
      BY <2>1
    <2>3. p \in Places(doc)
      BY <2>2 DEF Places
    <2>4. Stops(doc, {}, p)
      BY <2>1, LoopStops
    <2>5. p = Len(doc) \/ Element(doc, p)
      BY <1>4, <2>3, PlacesOf
    <2>6. p \in Nat /\ p <= Len(doc)
      BY <1>4, <2>3, PlacesOf
    <2> HIDE DEF p, m
    <2>7. p >= doc[1] \/ ~Element(doc, p)
      BY <2>4 DEF Stops
    <2>8. p = Len(doc)
      BY <2>1, <2>5, <2>6, <2>7
    <2> QED  BY <1>4, <2>3, <2>8
  <1> HIDE DEF doc
  <1>7. /\ pos \in Places(doc) /\ buf[pos + 1] = key
        /\ \A p \in Places(doc) : p < pos => buf[p + 1] # key
        /\ \A p \in Places(doc) \ {pos, buf[1]} :
              LET q == Moved(p, pos, added)
              IN out[q + 1] = buf[p + 1] /\ ValueAt(out, q) = ValueAt(buf, p)
        /\ Places(Front(out)) = PlacesAfter(buf, pos, added)
    BY <1>1 DEF EditsOnly, doc
  <1> QED  BY <1>2, <1>3, <1>5, <1>6, <1>7 DEF size, doc

\* Where the elements are that are before the one that is edited, and behind it.
LEMMA MovedBy ==
    ASSUME NEW docs, NEW more, NEW buf, NEW pos, NEW key, NEW out, NEW added,
           EditsHere(docs, more, buf, pos, key, out, added),
           NEW p \in Places(Front(buf)), p # pos
    PROVE  /\ Moved(p, pos, added) \in Nat
           /\ p < pos => Moved(p, pos, added) = p
           /\ pos < p => pos + (ElementSize(buf, pos) + added) <= Moved(p, pos, added)
           /\ p < pos \/ pos < p
           /\ p = buf[1] <=> Moved(p, pos, added) = out[1]
           /\ Moved(p, pos, added) \in Places(Front(out))
           /\ \A q \in Places(Front(buf)) \ {pos} :
                 Moved(p, pos, added) < Moved(q, pos, added) => p < q
  <1> DEFINE at == Moved(p, pos, added)
  <1>1. /\ buf[1] \in Nat /\ out[1] \in Nat /\ out[1] = buf[1] + added /\ added \in Int
        /\ pos \in Nat /\ pos < buf[1]
        /\ ElementSize(buf, pos) \in Nat /\ ElementSize(buf, pos) + added \in Nat
        /\ \A q \in Places(Front(buf)) : q \in Nat /\ q <= buf[1]
        /\ pos \in Places(Front(buf))
        /\ Places(Front(out)) = PlacesAfter(buf, pos, added)
    BY EditNumbers
  <1>2. Sound(docs) /\ SplicedLevel(buf, pos, out, added, docs)
    BY DEF EditsHere
  <1>3. p \in Nat /\ p <= buf[1] /\ (p < pos \/ pos < p)
    BY <1>1
  <1>4. at = IF p < pos THEN p ELSE p + added
    BY DEF Moved
  <1>5. pos < p => pos + (ElementSize(buf, pos) + added) <= at
    BY <1>1, <1>2, MovedInOrder
  <1>6. at \in Places(Front(out))
    BY <1>1 DEF PlacesAfter
  <1> HIDE DEF at
  <1>7. at \in Nat
    <2>1. CASE p < pos
      BY <1>3, <1>4, <2>1
    <2>2. CASE pos < p
      <3>1. at \in Int
        BY <1>1, <1>3, <1>4
      <3> QED  BY <1>1, <1>5, <2>2, <3>1
    <2> QED  BY <1>3, <2>1, <2>2
  <1>8. p = buf[1] <=> at = out[1]
    <2>1. CASE p = buf[1]
      <3>1. ~(p < pos)
        BY <1>1, <1>3, <2>1
      <3> QED  BY <1>1, <1>4, <2>1, <3>1
    <2>2. CASE p # buf[1]
      <3>1. at < out[1]
        BY <1>2, <2>2, OthersFound DEF at
      <3> QED  BY <1>1, <1>7, <2>2, <3>1
    <2> QED  BY <2>1, <2>2
  <1>9. ASSUME NEW q \in Places(Front(buf)) \ {pos}, at < Moved(q, pos, added)
        PROVE  p < q
    <2>1. q \in Nat /\ p \in Nat
      BY <1>1
    <2>2. p # q
      BY <1>7, <1>9 DEF at
    <2>3. ~(q < p)
      <3> SUFFICES ASSUME q < p  PROVE FALSE
        OBVIOUS
      <3>1. /\ Moved(q, pos, added) + ElementSize(buf, q) <= at
            /\ ElementSize(buf, q) \in Nat /\ 2 <= ElementSize(buf, q)
            /\ Moved(q, pos, added) \in Int
        BY <1>2, MovedInOrder DEF at
      <3> QED  BY <1>7, <1>9, <3>1
    <2> QED  BY <2>1, <2>2, <2>3
  <1>10. p < pos => at = p
    BY <1>4
  <1> QED  BY <1>3, <1>5, <1>6, <1>7, <1>8, <1>9, <1>10 DEF at

\* Elements with another key are found where they moved to, with the same value.
LEMMA OtherKeyStays ==
    ASSUME NEW docs, NEW more, NEW buf, NEW pos, NEW key, NEW out, NEW added,
           EditsHere(docs, more, buf, pos, key, out, added), NEW k, k # key
    PROVE  LET m == Match(buf, k)
               q == Moved(m, pos, added)
           IN /\ m # pos /\ Match(out, k) = q
              /\ m = buf[1] <=> q = out[1]
              /\ m # buf[1] => ValueAt(out, q) = ValueAt(buf, m)
  <1> DEFINE m == Match(buf, k)
             q == Moved(m, pos, added)
             room == ElementSize(buf, pos) + added
  <1>1. /\ Sound(docs) /\ Level(buf, docs) /\ Sound(more) /\ Level(out, more)
        /\ room = 0 \/ out[pos + 1] = key
    BY DEF EditsHere, SplicedLevel
  <1>2. FirstWith(buf, k, m)
    BY <1>1, MatchIs, MatchIsFirst DEF FirstWith
  <1>3. /\ pos < buf[1] /\ buf[1] \in Nat /\ buf[pos + 1] = key
        /\ \A p \in Places(Front(buf)) : p \in Nat
        /\ \A p \in Places(Front(buf)) \ {pos, buf[1]} :
              /\ out[Moved(p, pos, added) + 1] = buf[p + 1]
              /\ ValueAt(out, Moved(p, pos, added)) = ValueAt(buf, p)
        /\ Places(Front(out)) = PlacesAfter(buf, pos, added)
    BY EditNumbers
  <1> HIDE DEF m
  <1>4. m \in Places(Front(buf)) /\ m # pos
    BY <1>2, <1>3 DEF FirstWith
  <1>5. m = buf[1] <=> q = out[1]
    BY <1>4, MovedBy
  <1>6. q \in Places(Front(out))
    BY <1>4, MovedBy
  <1>7. m # buf[1] => out[q + 1] = k /\ ValueAt(out, q) = ValueAt(buf, m)
    BY <1>2, <1>3, <1>4 DEF FirstWith
  <1>8. ASSUME NEW r \in Places(Front(out)), r < q  PROVE out[r + 1] # k
    <2>1. CASE room # 0 /\ r = pos
      BY <1>1, <2>1
    <2>2. CASE \E p \in Places(Front(buf)) \ {pos} : r = Moved(p, pos, added)
      <3>1. PICK p \in Places(Front(buf)) \ {pos} : r = Moved(p, pos, added)
        BY <2>2
      <3>2. p < m
        BY <1>4, <1>8, <3>1, MovedBy
      <3>3. buf[p + 1] # k
        BY <1>2, <3>2 DEF FirstWith
      <3>4. p # buf[1]
        <4>1. m <= buf[1] /\ m \in Nat
          BY <1>4, EditNumbers
        <4> QED  BY <1>3, <3>2, <4>1
      <3> QED  BY <1>3, <3>1, <3>3, <3>4
    <2>3. r \in PlacesAfter(buf, pos, added)
      BY <1>3
    <2> QED  BY <2>1, <2>2, <2>3 DEF PlacesAfter
  <1> HIDE DEF q
  <1>9. FirstWith(out, k, q)
    BY <1>5, <1>6, <1>7, <1>8 DEF FirstWith
  <1>10. Match(out, k) = q
    BY <1>1, <1>9, FirstIs
  <1> QED  BY <1>4, <1>5, <1>7, <1>10 DEF m, q

\* The element that was edited is found where it was.
LEMMA OwnKeyStays ==
    ASSUME NEW docs, NEW more, NEW buf, NEW pos, NEW key, NEW out, NEW added,
           EditsHere(docs, more, buf, pos, key, out, added), ElementSize(buf, pos) + added # 0
    PROVE  Match(out, key) = pos /\ pos # out[1] /\ pos \in Places(Front(out))
  <1>1. Sound(more) /\ Level(out, more) /\ out[pos + 1] = key
    BY DEF EditsHere
  <1>2. /\ pos \in Nat /\ pos < buf[1] /\ buf[1] \in Nat /\ out[1] \in Nat
        /\ ElementSize(buf, pos) + added \in Nat
        /\ pos + (ElementSize(buf, pos) + added) <= out[1]
        /\ \A p \in Places(Front(buf)) : p < pos => buf[p + 1] # key
        /\ \A p \in Places(Front(buf)) : p \in Nat
        /\ \A p \in Places(Front(buf)) \ {pos, buf[1]} : out[Moved(p, pos, added) + 1] = buf[p + 1]
        /\ Places(Front(out)) = PlacesAfter(buf, pos, added)
    BY EditNumbers
  <1> DEFINE room == ElementSize(buf, pos) + added
  <1>3. room \in Nat /\ room # 0
    BY <1>2
  <1>4. pos \in Places(Front(out))
    BY <1>2 DEF PlacesAfter
  <1> HIDE DEF room
  <1>5. pos # out[1]
    BY <1>2, <1>3 DEF room
  <1>6. ASSUME NEW r \in Places(Front(out)), r < pos  PROVE out[r + 1] # key
    <2>1. PICK p \in Places(Front(buf)) \ {pos} : r = Moved(p, pos, added)
      BY <1>2, <1>6 DEF PlacesAfter
    <2>2. /\ r \in Nat /\ (p < pos => r = p) /\ (p < pos \/ pos < p)
          /\ pos < p => pos + room <= r
      BY <2>1, MovedBy DEF room
    <2>3. p < pos
      BY <1>2, <1>3, <1>6, <2>2
    <2>4. p # buf[1] /\ buf[p + 1] # key
      BY <1>2, <2>1, <2>3
    <2> QED  BY <1>2, <2>1, <2>4
  <1>7. FirstWith(out, key, pos)
    BY <1>1, <1>4, <1>6 DEF FirstWith
  <1> QED  BY <1>1, <1>4, <1>5, <1>7, FirstIs

-----------------------------------------------------------------------------
\* An embedded document, and its element.
LEMMA LevelWords ==
    ASSUME NEW docs, Sound(docs), NEW buf, Level(buf, docs), NEW pos \in Places(Front(buf)),
           pos # buf[1], Container(buf[pos])
    PROVE  /\ Level(From(buf, pos), docs)
           /\ ElementSize(buf, pos) = 2 + From(buf, pos)[1]
           /\ ValueAt(buf, pos).words = Front(From(buf, pos))
  <1> DEFINE inner == From(buf, pos)
  <1>1. Level(inner, docs)
    BY LevelBelow
  <1>2. buf \in Seq(Int) /\ buf[1] \in Nat /\ buf[1] <= Len(buf) /\ Len(buf) \in Nat
    BY DEF Level
  <1>3. pos \in Nat /\ 2 <= pos /\ pos < buf[1]
    BY FoundInBuffer
  <1>4. pos + 1 <= Len(buf)
    BY <1>2, <1>3
  <1>5. inner[1] \in Nat /\ 1 <= inner[1] /\ inner[1] <= Len(inner) /\ inner = From(buf, pos)
    BY <1>1 DEF Level
  <1> HIDE DEF inner
  <1>6. ElementSize(buf, pos) = 2 + inner[1] /\ ValueAt(buf, pos).words = Front(inner)
    BY <1>2, <1>3, <1>4, <1>5, ContainerReads
  <1> QED  BY <1>1, <1>6 DEF inner

\* It does not vanish with an edit in it.
LEMMA SplicedRoom ==
    ASSUME NEW docs, Sound(docs), NEW buf, NEW pos, NEW out, NEW added,
           SplicedLevel(buf, pos, out, added, docs)
    PROVE  2 + buf[1] + added # 0
  <1>1. buf[1] \in Nat /\ added \in Int /\ out[1] = buf[1] + added /\ out[1] \in Nat
    BY SpliceNumbers
  <1> QED  BY <1>1

\* An edit that has found its element is an edit of one document at each level.
LEMMA EditLevels ==
    ASSUME NEW buf \in Seq(Int), Readable(buf), NEW new, Replacement(new), NEW pointer, NEW n \in Nat,
           NEW down, down = Down(buf, pointer, n), NEW up, up = Up(down, new, pointer, n),
           Found(up[0]), NEW at, at = Matches(down, pointer, n)
    PROVE  /\ up[0].added = up[n].added
           /\ EditedOnly(n, down, at, pointer, new, up)
           /\ \E docs, more : \A k \in 0..n :
                 /\ EditsHere(docs, more, down[k], at[k], pointer[k + 1], up[k].raw, up[n].added)
                 /\ k < n => ElementSize(down[k], at[k]) + up[n].added # 0
  <1>1. PICK docs : Sound(docs) /\ Level(buf, docs)
    BY ReadableLevel
  <1>2. PICK own : Brings(own, new)
    BY ReplacementBrings
  <1>3. new \in [type : Int, words : Seq(Int)]
    BY DEF Replacement
  <1>4. EditedOnly(n, down, at, pointer, new, up)
    BY <1>1, <1>2, <1>3, CallsEditOnly
  <1>5. PICK more : EditLeaves(docs, more, n, down, at, up)
    BY <1>1, <1>2, <1>3, EditReads
  <1>6. Path(Int, n, down, at) /\ EditedAlong(n, down, at, new, up) /\ Numbers(Int)
    BY <1>1, FoundEditsAlong DEF Numbers
  <1>7. \A k \in 0..n : up[k].added = up[n].added
    BY ONLY <1>3, <1>6, EveryLengthFollows
  <1>8. ASSUME NEW k \in 0..n
        PROVE  /\ SplicedLevel(down[k], at[k], up[k].raw, up[n].added, docs)
               /\ LeavesElement(up[k].raw, at[k], ElementSize(down[k], at[k]) + up[n].added, more)
               /\ Level(up[k].raw, more)
    <2>1. /\ SplicedLevel(down[k], at[k], up[k].raw, up[k].added, docs)
          /\ LeavesElement(up[k].raw, at[k], ElementSize(down[k], at[k]) + up[k].added, more)
          /\ Front(up[k].raw) \in more
      BY <1>5 DEF EditLeaves
    <2> DEFINE out == up[k].raw
    <2>2. up[k].added = up[n].added
      BY <1>7
    <2>3. out \in Seq(Int) /\ out[1] \in Nat /\ 2 <= out[1] /\ out[1] <= Len(out)
      BY <1>1, <2>1, SpliceFront
    <2> QED  BY <2>1, <2>2, <2>3 DEF Level
  <1>9. ASSUME NEW k \in 0..n, k < n  PROVE ElementSize(down[k], at[k]) + up[n].added # 0
    <2>1. k + 1 \in 0..n
      BY <1>9
    <2>2. Level(down[k], docs) /\ at[k] \in Places(Front(down[k])) /\ at[k] # down[k][1]
      BY <1>8 DEF SplicedLevel
    <2>3. Container(down[k][at[k]]) /\ down[k + 1] = From(down[k], at[k])
      BY <1>6, <1>9 DEF Path
    <2>4. ElementSize(down[k], at[k]) = 2 + down[k + 1][1]
      BY <1>1, <2>2, <2>3, LevelWords
    <2>5. SplicedLevel(down[k + 1], at[k + 1], up[k + 1].raw, up[n].added, docs)
      BY <1>8, <2>1
    <2>6. 2 + down[k + 1][1] + up[n].added # 0
      BY ONLY <1>1, <2>5, SplicedRoom
    <2> QED  BY <2>4, <2>6
  <1>10. ASSUME NEW k \in 0..n
         PROVE  EditsHere(docs, more, down[k], at[k], pointer[k + 1], up[k].raw, up[n].added)
    <2>1. EditsOnly(down[k], at[k], pointer[k + 1], up[k].raw, up[n].added)
      BY <1>4 DEF EditedOnly
    <2>2. Sound(more)
      BY <1>5 DEF EditLeaves
    <2>3. ElementSize(down[k], at[k]) + up[n].added = 0 \/ up[k].raw[at[k] + 1] = pointer[k + 1]
      <3>1. down[k][at[k] + 1] = pointer[k + 1]
        BY <2>1 DEF EditsOnly
      <3>2. CASE k < n
        BY <1>4, <3>1, <3>2 DEF EditedOnly
      <3>3. CASE k = n /\ new # Nothing
        BY <1>4, <3>1, <3>3 DEF EditedOnly
      <3>4. CASE k = n /\ new = Nothing
        <4> DEFINE size == ElementSize(down[k], at[k])
        <4>1. up[n].added = -size
          BY <1>4, <3>4 DEF EditedOnly
        <4>2. size \in Nat
          BY <1>1, <1>8, SpliceNumbers
        <4> HIDE DEF size
        <4>3. size + up[n].added = 0
          BY <4>1, <4>2
        <4> QED  BY <4>3 DEF size
      <3> QED  BY <3>2, <3>3, <3>4
    <2> QED  BY <1>1, <1>8, <2>1, <2>2, <2>3 DEF EditsHere
  <1>11. up[0].added = up[n].added
    BY <1>7
  <1> QED  BY <1>4, <1>9, <1>10, <1>11

\* An edit of an option: it is found if it is there, and stays in its place unless
\* it is removed.
LEMMA EditOneKey ==
    ASSUME NEW s \in Seq(Int), Readable(s), NEW new, Replacement(new), NEW name,
           NEW e, e = replaceOrRemoveInRaw(s, new, <<name>>)
    PROVE  /\ ~HasOption(s, name) => e.res.is = "absent" /\ e.raw = s
           /\ HasOption(s, name) =>
                 /\ Found(e)
                 /\ \E docs, more : EditsHere(docs, more, s, Match(s, name), name, e.raw, e.added)
                 /\ new # Nothing => /\ ElementSize(s, Match(s, name)) + e.added # 0
                                     /\ ValueAt(e.raw, Match(s, name)) = new
  <1> DEFINE pointer == <<name>>
             down    == Down(s, pointer, 0)
             up      == Up(down, new, pointer, 0)
             at      == Matches(down, pointer, 0)
  <1>1. Len(pointer) - 1 = 0 /\ pointer[0 + 1] = name /\ 0 \in Nat
    OBVIOUS
  <1>2. e = up[0]
    BY <1>1 DEF replaceOrRemoveInRaw
  <1>3. down = Down(s, pointer, 0) /\ up = Up(down, new, pointer, 0) /\ at = Matches(down, pointer, 0)
    OBVIOUS
  <1>4. at[0] = Match(down[0], name)
    BY <1>1 DEF Matches
  <1> HIDE DEF pointer, down, up, at
  <1>5. down[0] = s
    BY <1>1, <1>3, CallsLaws
  <1>6. PICK r : e = editMatchingElement(s, new, name, 0 - 0, r)
    BY <1>1, <1>2, <1>3, FirstCall
  <1>7. PICK docs : Sound(docs) /\ Level(s, docs)
    BY ReadableLevel
  <1>8. CASE ~HasOption(s, name)
    <2>1. e = Edited(s, 0, Absent)
      BY <1>6, <1>7, <1>8, OneCall DEF HasOption
    <2> QED  BY <1>8, <2>1 DEF Edited, Absent
  <1>9. CASE HasOption(s, name)
    <2>1. ~(0 - 0 > 0)
      OBVIOUS
    <2>2. Found(e)
      BY <1>6, <1>7, <1>9, <2>1, OneCall DEF HasOption
    <2>3. /\ EditedOnly(0, down, at, pointer, new, up)
          /\ \E ds, ms : \A k \in 0..0 :
                EditsHere(ds, ms, down[k], at[k], pointer[k + 1], up[k].raw, up[0].added)
      BY <1>1, <1>2, <1>3, <2>2, EditLevels
    <2>4. 0 \in 0..0
      OBVIOUS
    <2>5. PICK ds, ms : EditsHere(ds, ms, down[0], at[0], pointer[0 + 1], up[0].raw, up[0].added)
      BY <2>3, <2>4
    <2>6. EditsHere(ds, ms, s, Match(s, name), name, e.raw, e.added)
      BY <1>1, <1>2, <1>4, <1>5, <2>5
    <2>7. ASSUME new # Nothing
          PROVE  /\ ElementSize(s, Match(s, name)) + e.added # 0
                 /\ ValueAt(e.raw, Match(s, name)) = new
      <3>1. /\ up[0].added = Len(new.words) + 2 - ElementSize(down[0], at[0])
            /\ ValueAt(up[0].raw, at[0]) = new
        BY <2>3, <2>7 DEF EditedOnly
      <3> DEFINE size  == ElementSize(s, Match(s, name))
                 words == Len(new.words)
      <3>2. e.added = words + 2 - size
        BY <1>2, <1>4, <1>5, <3>1
      <3>3. size \in Nat /\ words \in Nat
        <4>1. new.words \in Seq(Int)
          BY DEF Replacement
        <4> QED  BY <2>6, <4>1, EditNumbers
      <3> HIDE DEF size, words
      <3>4. size + e.added # 0
        BY <3>2, <3>3
      <3> QED  BY <1>2, <1>4, <1>5, <3>1, <3>4 DEF size
    <2> QED  BY <1>9, <2>2, <2>6, <2>7
  <1> QED  BY <1>8, <1>9

\* An edit of an element of an option that is a document: it is found, and both stay
\* in their places.
LEMMA EditTwoKeys ==
    ASSUME NEW s \in Seq(Int), Readable(s), NEW new, Replacement(new), new # Nothing,
           NEW key, NEW name, NEW e, e = replaceOrRemoveInRaw(s, new, <<key, name>>),
           NEW pos, pos = Match(s, key), pos # s[1], Container(s[pos]),
           NEW inner, inner = From(s, pos), Match(inner, name) # inner[1]
    PROVE  LET at == Match(inner, name)
           IN /\ Found(e) /\ e.raw[pos] = s[pos]
              /\ ElementSize(s, pos) + e.added # 0
              /\ ElementSize(inner, at) + e.added = 2 + Len(new.words)
              /\ ValueAt(From(e.raw, pos), at) = new
              /\ \E docs, more :
                    /\ EditsHere(docs, more, s, pos, key, e.raw, e.added)
                    /\ EditsHere(docs, more, inner, at, name, From(e.raw, pos), e.added)
  <1> DEFINE pointer == <<key, name>>
             down    == Down(s, pointer, 1)
             up      == Up(down, new, pointer, 1)
             at      == Matches(down, pointer, 1)
             below   == Match(inner, name)
  <1>1. /\ Len(pointer) - 1 = 1 /\ pointer[0 + 1] = key /\ pointer[1 + 1] = name
        /\ 1 \in Nat /\ 0 \in 0..1 /\ 1 \in 0..1
    OBVIOUS
  <1>2. e = up[0]
    BY <1>1 DEF replaceOrRemoveInRaw
  <1>3. down = Down(s, pointer, 1) /\ up = Up(down, new, pointer, 1) /\ at = Matches(down, pointer, 1)
    OBVIOUS
  <1>4. at[0] = Match(down[0], key) /\ at[1] = Match(down[1], name)
    BY <1>1 DEF Matches
  <1> HIDE DEF pointer, down, up, at, below
  <1>5. /\ down[0] = s
        /\ \A k \in 0..1 : k < 1 => down[k + 1] = From(down[k], Match(down[k], pointer[k + 1]))
        /\ \A k \in 0..1 : \E r : /\ k < 1 => r = up[k + 1]
                                  /\ up[k] = editMatchingElement(down[k], new, pointer[k + 1], 1 - k, r)
    BY <1>1, <1>3, CallsLaws
  <1>6. down[1] = inner
    <2>1. down[0 + 1] = From(down[0], Match(down[0], pointer[0 + 1]))
      BY <1>1, <1>5
    <2> QED  BY <1>1, <1>5, <2>1
  <1>7. at[0] = pos /\ at[1] = below
    BY <1>4, <1>5, <1>6 DEF below
  <1>8. PICK docs : Sound(docs) /\ Level(s, docs)
    BY ReadableLevel
  <1>9. Level(inner, docs)
    <2>1. pos \in Places(Front(s))
      BY <1>8, MatchIs
    <2> QED  BY <1>8, <2>1, LevelBelow
  <1>10. Found(up[1])
    <2>1. PICK r : up[1] = editMatchingElement(down[1], new, pointer[1 + 1], 1 - 1, r)
      BY <1>1, <1>5
    <2>2. up[1] = editMatchingElement(inner, new, name, 1 - 1, r) /\ ~(1 - 1 > 0)
      BY <1>1, <1>6, <2>1
    <2> QED  BY <1>8, <1>9, <2>2, OneCall
  <1>11. Found(e)
    <2>1. PICK r : (0 < 1 => r = up[0 + 1]) /\ up[0] = editMatchingElement(down[0], new, pointer[0 + 1], 1 - 0, r)
      BY <1>1, <1>5
    <2>2. r = up[1] /\ 1 - 0 > 0
      BY <2>1
    <2>3. e = editMatchingElement(s, new, key, 1 - 0, r)
      BY <1>1, <1>2, <1>5, <2>1
    <2> QED  BY <1>8, <1>10, <2>2, <2>3, OneCall
  <1>12. /\ up[0].added = up[1].added
         /\ EditedOnly(1, down, at, pointer, new, up)
         /\ \E ds, ms : \A k \in 0..1 :
               /\ EditsHere(ds, ms, down[k], at[k], pointer[k + 1], up[k].raw, up[1].added)
               /\ k < 1 => ElementSize(down[k], at[k]) + up[1].added # 0
    BY <1>1, <1>2, <1>3, <1>11, EditLevels
  <1>13. /\ e.raw[pos] = s[pos] /\ From(e.raw, pos) = up[1].raw
    <2>1. up[0].raw[at[0]] = down[0][at[0]] /\ From(up[0].raw, at[0]) = up[0 + 1].raw
      BY <1>1, <1>12 DEF EditedOnly
    <2> QED  BY <1>2, <1>5, <1>7, <2>1
  <1>14. PICK ds, ms :
             /\ EditsHere(ds, ms, down[0], at[0], pointer[0 + 1], up[0].raw, up[1].added)
             /\ ElementSize(down[0], at[0]) + up[1].added # 0
             /\ EditsHere(ds, ms, down[1], at[1], pointer[1 + 1], up[1].raw, up[1].added)
    BY <1>1, <1>12
  <1>15. /\ EditsHere(ds, ms, s, pos, key, e.raw, e.added)
         /\ ElementSize(s, pos) + e.added # 0
         /\ EditsHere(ds, ms, inner, below, name, From(e.raw, pos), e.added)
    BY <1>1, <1>2, <1>5, <1>6, <1>7, <1>12, <1>13, <1>14
  <1>16. up[1].added = Len(new.words) + 2 - ElementSize(down[1], at[1]) /\ ValueAt(up[1].raw, at[1]) = new
    BY <1>12 DEF EditedOnly
  <1>17. ValueAt(From(e.raw, pos), below) = new
    BY <1>7, <1>13, <1>16
  <1> DEFINE size  == ElementSize(inner, below)
             words == Len(new.words)
  <1>18. e.added = words + 2 - size
    BY <1>2, <1>6, <1>7, <1>12, <1>16
  <1>19. size \in Nat /\ words \in Nat
    <2>1. new.words \in Seq(Int)
      BY DEF Replacement
    <2> QED  BY <1>15, <2>1, EditNumbers
  <1> HIDE DEF size, words
  <1>20. size + e.added = 2 + words
    BY <1>18, <1>19
  <1> QED  BY <1>11, <1>13, <1>15, <1>17, <1>20 DEF below, size, words

-----------------------------------------------------------------------------
\* An element is its type, its key and the words of its value.
LEMMA Headed ==
    ASSUME NEW t \in Int, NEW key \in Int, NEW v \in Seq(Int), NEW el, el = <<t, key>> \o v
    PROVE  /\ el \in Seq(Int) /\ Len(v) \in Nat /\ Len(el) = 2 + Len(v)
           /\ el[1] = t /\ el[2] = key
           /\ \A i \in 1..Len(v) : el[2 + i] = v[i]
  <1> DEFINE head == <<t, key>>
  <1>1. head \in Seq(Int) /\ Len(head) = 2 /\ head[1] = t /\ head[2] = key
    OBVIOUS
  <1>2. el = head \o v /\ v \in Seq(Int)
    OBVIOUS
  <1> HIDE DEF head
  <1>3. head \o v \in Seq(Int) /\ Len(head \o v) = Len(head) + Len(v)
    BY ONLY <1>1, <1>2, Join
  <1>4. \A i \in 1..Len(head) : (head \o v)[i] = head[i]
    BY ONLY <1>1, <1>2, Join
  <1>5. \A i \in 1..Len(v) : (head \o v)[Len(head) + i] = v[i]
    <2>1. head \in Seq(Int) /\ v \in Seq(Int)
      BY <1>1
    <2> QED  BY ONLY <2>1, Join
  <1>6. el \in Seq(Int) /\ Len(el) = 2 + Len(v) /\ Len(v) \in Nat
    BY <1>1, <1>2, <1>3
  <1>7. 1 \in 1..Len(head) /\ 2 \in 1..Len(head)
    BY ONLY <1>1
  <1>8. el[1] = t /\ el[2] = key
    BY ONLY <1>1, <1>2, <1>4, <1>7
  <1>9. \A i \in 1..Len(v) : el[2 + i] = v[i]
    BY ONLY <1>1, <1>2, <1>5
  <1> QED  BY <1>6, <1>8, <1>9

\* An element of a modernized key is 1, as a number, or has the words that it had.
LEMMA ModernizedIs ==
    ASSUME NEW docs, NEW doc \in Seq(Int), Reads(doc, docs), NEW p \in Places(doc), p # Len(doc),
           NEW el, el = modernizedEl(doc, p), NEW size, size = ElementSize(doc, p)
    PROVE  /\ el \in Seq(Int) /\ Len(el) \in Nat /\ 2 <= Len(el)
           /\ \/ Len(el) = 3 /\ el[1] = 16 /\ el[2] = doc[p + 1]
              \/ Len(el) = size /\ SameWords(doc, p, el, 1, size)
  <1>1. /\ p \in Nat /\ 2 <= p /\ size \in Nat /\ 2 <= size /\ p + size <= Len(doc) /\ Len(doc) \in Nat
    BY PlacesOf, ElementSizes
  <1>2. doc[p] \in Int /\ doc[p + 1] \in Int
    <2>1. p \in 1..Len(doc) /\ p + 1 \in 1..Len(doc)
      BY <1>1
    <2> QED  BY ONLY doc \in Seq(Int), <2>1
  <1> DEFINE value == SubSeq(doc, p + 2, p + size - 1)
  <1>3. el = <<16, doc[p + 1]>> \o <<1>> \/ el = <<doc[p], doc[p + 1]>> \o value
    BY DEF modernizedEl, Int32, ValueAt
  <1>4. value \in Seq(Int) /\ Len(value) = size - 2 /\ \A i \in 1..size - 2 : value[i] = doc[p + 1 + i]
    <2> DEFINE n == size - 2
    <2>1. n \in Nat /\ p + 1 + n <= Len(doc) /\ p + 1 + n = p + size - 1
      BY ONLY <1>1
    <2>2. doc \in Seq(Int) /\ p \in Nat
      BY <1>1
    <2> HIDE DEF n
    <2>3. LET t == SubSeq(doc, p + 2, p + 1 + n)
          IN t \in Seq(Int) /\ Len(t) = n /\ \A i \in 1..n : t[i] = doc[p + 1 + i]
      BY ONLY <2>1, <2>2, Cut
    <2> QED  BY <2>1, <2>3 DEF n
  <1> HIDE DEF value
  <1>5. CASE el = <<16, doc[p + 1]>> \o <<1>>
    <2>1. <<1>> \in Seq(Int) /\ Len(<<1>>) = 1 /\ 16 \in Int
      OBVIOUS
    <2>2. el \in Seq(Int) /\ Len(el) = 2 + Len(<<1>>) /\ el[1] = 16 /\ el[2] = doc[p + 1]
      BY ONLY <1>2, <1>5, <2>1, Headed
    <2>3. Len(el) = 3
      BY <2>1, <2>2
    <2> QED  BY <2>2, <2>3
  <1>6. CASE el = <<doc[p], doc[p + 1]>> \o value
    <2>1. /\ el \in Seq(Int) /\ Len(el) = 2 + Len(value) /\ el[1] = doc[p] /\ el[2] = doc[p + 1]
          /\ \A i \in 1..Len(value) : el[2 + i] = value[i]
      BY ONLY <1>2, <1>4, <1>6, Headed
    <2>2. /\ Len(el) = size
          /\ \A i \in 1..size - 2 : el[2 + i] = value[i]
      BY <1>1, <1>4, <2>1
    <2>3. ASSUME NEW k \in 0..size - 1  PROVE el[1 + k] = doc[p + k]
      <3>1. CASE k = 0
        BY <1>1, <2>1, <3>1
      <3>2. CASE k = 1
        BY <1>1, <2>1, <3>2
      <3>3. CASE k >= 2
        <4> DEFINE i == k - 1
        <4>1. i \in 1..size - 2 /\ 1 + k = 2 + i /\ p + k = p + 1 + i
          BY <1>1, <3>3
        <4> HIDE DEF i
        <4> QED  BY <1>4, <2>2, <4>1
      <3> QED  BY <3>1, <3>2, <3>3
    <2>4. SameWords(doc, p, el, 1, size)
      BY <2>3 DEF SameWords
    <2> QED  BY <1>1, <2>1, <2>2, <2>4
  <1> QED  BY <1>3, <1>5, <1>6

\* It can be read wherever its words are.
LEMMA ModernizedStands ==
    ASSUME NEW docs, NEW doc \in Seq(Int), Reads(doc, docs), NEW p \in Places(doc), p # Len(doc),
           NEW el, el = modernizedEl(doc, p), NEW b \in Seq(Int), NEW j \in Nat, 2 <= j,
           j + Len(el) <= Len(b) + 1, SameWords(el, 1, b, j, Len(el))
    PROVE  /\ Element(b, j) /\ ElementSize(b, j) = Len(el) /\ b[j + 1] = doc[p + 1]
           /\ Container(b[j]) => ValueAt(b, j).words \in docs
  <1> DEFINE size == ElementSize(doc, p)
  <1>1. /\ Element(doc, p) /\ p \in Nat /\ size \in Nat /\ 2 <= size
        /\ Container(doc[p]) => ValueAt(doc, p).words \in docs
    BY PlacesOf, ElementSizes
  <1>2. /\ el \in Seq(Int) /\ Len(el) \in Nat /\ 2 <= Len(el)
        /\ \/ Len(el) = 3 /\ el[1] = 16 /\ el[2] = doc[p + 1]
           \/ Len(el) = size /\ SameWords(doc, p, el, 1, size)
    <2>1. doc \in Seq(Int) /\ p \in Places(doc) /\ p # Len(doc) /\ Reads(doc, docs)
      OBVIOUS
    <2> QED  BY ONLY <2>1, el = modernizedEl(doc, p), ModernizedIs
  <1>3. CASE Len(el) = 3 /\ el[1] = 16 /\ el[2] = doc[p + 1]
    <2>1. 0 \in 0..Len(el) - 1 /\ 1 \in 0..Len(el) - 1
      BY <1>2
    <2>2. b[j + 0] = el[1 + 0] /\ b[j + 1] = el[1 + 1]
      BY <2>1 DEF SameWords
    <2>3. b[j] = 16 /\ b[j + 1] = doc[p + 1] /\ ValueSize(b, j + 2, 16) = 1
      <3>1. j + 0 = j
        OBVIOUS
      <3>2. b[j] = 16 /\ b[j + 1] = doc[p + 1]
        BY ONLY <1>3, <2>2, <3>1
      <3> QED  BY ONLY <3>2, FixedSizes
    <2>4. j + 2 + 1 <= Len(b) + 1
      BY <1>3
    <2>5. 16 \notin Measured /\ ~Container(16)
      BY DEF Measured, Container
    <2>6. Element(b, j)
      BY ONLY <2>3, <2>4, <2>5, j \in Nat, 2 <= j DEF Element
    <2>7. ElementSize(b, j) = 3
      BY <2>3 DEF ElementSize
    <2> QED  BY <1>3, <2>3, <2>5, <2>6, <2>7
  <1>4. CASE Len(el) = size /\ SameWords(doc, p, el, 1, size)
    <2>1. SameWords(doc, p, b, j, size)
      BY <1>4 DEF SameWords
    <2>2. j + size <= Len(b) + 1 /\ 1 <= j
      BY <1>4
    <2>3. /\ ElementSize(b, j) = size /\ b[j] = doc[p] /\ b[j + 1] = doc[p + 1]
          /\ ValueAt(b, j) = ValueAt(doc, p) /\ Element(b, j)
      <3>1. doc \in Seq(Int) /\ b \in Seq(Int) /\ j \in Nat /\ 2 <= j /\ size = ElementSize(doc, p)
        OBVIOUS
      <3> HIDE DEF size
      <3> QED  BY ONLY <1>1, <2>1, <2>2, <3>1, SameElement
    <2> QED  BY <1>1, <1>4, <2>3
  <1> QED  BY <1>2, <1>3, <1>4

-----------------------------------------------------------------------------
\* In a document that can be read the loop goes on until it is at the end, and ends there.
LEMMA LoopGrows ==
    ASSUME NEW docs, NEW doc \in Seq(Int), Reads(doc, docs), NEW n \in 0..Len(doc) \div 2
    PROVE  \A k \in 0..n :
              /\ Loop(doc, {})[k] = Len(doc) => Loop(doc, {})[n] = Len(doc)
              /\ Loop(doc, {})[k] # Len(doc) /\ k < n => Loop(doc, {})[k] < Loop(doc, {})[n]
  <1> DEFINE m     == Len(doc) \div 2
             place == Loop(doc, {})
             Grows(i) == \A k \in 0..i : /\ place[k] = Len(doc) => place[i] = Len(doc)
                                         /\ place[k] # Len(doc) /\ k < i => place[k] < place[i]
             S == {i \in 0..m : Grows(i)}
  <1>1. Len(doc) \in Nat /\ m \in Nat /\ doc[1] = Len(doc)
    BY DEF Reads
  <1>2. \A i \in 1..m : place[i] = Onward(doc, {}, place[i - 1])
    BY <1>1, LoopLaws
  <1>3. \A i \in 0..m : place[i] \in Places(doc)
    BY DEF Places
  <1>4. ASSUME NEW p \in Places(doc)
        PROVE  /\ p \in Nat
               /\ p = Len(doc) => Onward(doc, {}, p) = p
               /\ p # Len(doc) => Onward(doc, {}, p) \in Nat /\ p < Onward(doc, {}, p)
    <2>1. p \in Nat /\ p <= Len(doc)
      BY PlacesOf
    <2>2. CASE p = Len(doc)
      BY <1>1, <2>1, <2>2 DEF Onward, Stops
    <2>3. CASE p # Len(doc)
      <3>1. Element(doc, p)
        BY <2>3, PlacesOf
      <3>2. ElementSize(doc, p) \in Nat /\ 2 <= ElementSize(doc, p)
        BY <3>1, ElementSizes
      <3>3. ~Stops(doc, {}, p)
        BY <1>1, <2>1, <2>3, <3>1 DEF Stops
      <3>4. Onward(doc, {}, p) = p + ElementSize(doc, p)
        BY <3>3 DEF Onward
      <3> QED  BY <2>1, <2>3, <3>2, <3>4
    <2> QED  BY <2>1, <2>2, <2>3
  <1> HIDE DEF place, m
  <1>5. Grows(0)
    BY <1>1
  <1>6. ASSUME NEW i \in 0..m, i < m, Grows(i)  PROVE Grows(i + 1)
    <2>1. i + 1 \in 1..m /\ (i + 1) - 1 = i
      BY <1>1, <1>6
    <2>2. place[i + 1] = Onward(doc, {}, place[i]) /\ place[i] \in Places(doc)
      BY <1>2, <1>3, <2>1
    <2>3. /\ place[i] \in Nat
          /\ place[i] = Len(doc) => place[i + 1] = place[i]
          /\ place[i] # Len(doc) => place[i + 1] \in Nat /\ place[i] < place[i + 1]
      BY <1>4, <2>2
    <2>4. ASSUME NEW k \in 0..i + 1
          PROVE  /\ place[k] = Len(doc) => place[i + 1] = Len(doc)
                 /\ place[k] # Len(doc) /\ k < i + 1 => place[k] < place[i + 1]
      <3>1. CASE k = i + 1
        BY <3>1
      <3>2. CASE k \in 0..i
        <4>1. place[k] \in Nat
          <5>1. k \in 0..m
            BY <1>1, <1>6, <3>2
          <5> QED  BY <1>3, <1>4, <5>1
        <4>2. /\ place[k] = Len(doc) => place[i] = Len(doc)
              /\ place[k] # Len(doc) /\ k < i => place[k] < place[i]
          BY <1>6, <3>2
        <4>3. k < i \/ k = i
          BY <3>2
        <4> QED  BY <2>3, <4>1, <4>2, <4>3
      <3> QED  BY <3>1, <3>2
    <2> QED  BY <2>4
  <1>7. 0..m \subseteq S
    <2> HIDE DEF Grows
    <2>1. 0 \in S
      BY <1>1, <1>5
    <2>2. ASSUME NEW i \in 0..m, i < m, i \in S  PROVE i + 1 \in S
      BY <1>1, <1>6, <2>2
    <2> HIDE DEF S
    <2> QED  BY <1>1, <2>1, <2>2, GoesOn
  <1>8. Grows(n)
    <2> HIDE DEF Grows
    <2>1. n \in 0..m
      BY DEF m
    <2> QED  BY <1>7, <2>1
  <1> QED  BY <1>8 DEF place

\* The words of the modernized elements, one after the other.
LEMMA ModernizedLaws ==
    ASSUME NEW doc, Len(doc) \in Nat
    PROVE  LET words == modernizedEls(doc)
               place == Loop(doc, {})
           IN /\ words[0] = << >>
              /\ \A n \in 1..Len(doc) \div 2 :
                    words[n] = IF place[n - 1] = Len(doc) THEN words[n - 1]
                               ELSE words[n - 1] \o modernizedEl(doc, place[n - 1])
  <1> DEFINE m        == Len(doc) \div 2
             Add(w, k) == IF Loop(doc, {})[k - 1] = Len(doc) THEN w
                          ELSE w \o modernizedEl(doc, Loop(doc, {})[k - 1])
             Body(g)  == [k \in 0..m |-> IF k = 0 THEN << >> ELSE Add(g[k - 1], k)]
             words    == CHOOSE g : g = Body(g)
             Steps(n, g) == g[0] = << >> /\ \A k \in 1..n : g[k] = Add(g[k - 1], k)
             Has(n)   == \E g : Steps(n, g)
  <1>1. m \in Nat
    OBVIOUS
  <1>2. modernizedEls(doc) = words
    BY Zenon DEF modernizedEls
  <1> HIDE DEF m, Add
  <1>3. Has(0)
    <2>1. Steps(0, [k \in {0} |-> << >>])
      OBVIOUS
    <2> HIDE DEF Steps
    <2> QED  BY <2>1
  <1>4. ASSUME NEW n \in Nat, Has(n)  PROVE Has(n + 1)
    <2>1. PICK g : Steps(n, g)
      BY <1>4
    <2> DEFINE h == [k \in 0..n + 1 |-> IF k = n + 1 THEN Add(g[n], k) ELSE g[k]]
    <2>2. h[0] = << >>
      BY <2>1
    <2>3. ASSUME NEW k \in 1..n + 1  PROVE h[k] = Add(h[k - 1], k)
      <3>1. CASE k = n + 1
        BY <3>1
      <3>2. CASE k \in 1..n
        BY <2>1, <3>2
      <3> QED  BY <3>1, <3>2
    <2> HIDE DEF h
    <2>4. Steps(n + 1, h)
      BY <2>2, <2>3
    <2> HIDE DEF Steps
    <2> QED  BY <2>4
  <1>5. Has(m)
    <2> HIDE DEF Has
    <2> DEFINE S == {n \in 0..m : Has(n)}
    <2>1. 0 \in S
      BY <1>1, <1>3
    <2>2. ASSUME NEW n \in 0..m, n < m, n \in S  PROVE n + 1 \in S
      BY <1>1, <1>4, <2>2
    <2>3. 0..m \subseteq S
      <3> HIDE DEF S
      <3> QED  BY <1>1, <2>1, <2>2, GoesOn
    <2> QED  BY <1>1, <2>3
  <1>6. \E f : f = Body(f)
    <2>1. PICK g : Steps(m, g)
      BY <1>5
    <2> DEFINE f == [k \in 0..m |-> g[k]]
    <2>2. f = Body(f)
      BY <1>1, <2>1
    <2> HIDE DEF f, Body
    <2> QED  BY <2>2
  <1>7. words = Body(words)
    <2> HIDE DEF Body
    <2> QED  BY <1>6, Zenon
  <1>8. \A n \in 0..m : words[n] = IF n = 0 THEN << >> ELSE Add(words[n - 1], n)
    <2>1. \A g : \A n \in 0..m : Body(g)[n] = IF n = 0 THEN << >> ELSE Add(g[n - 1], n)
      OBVIOUS
    <2> HIDE DEF Body, words
    <2> QED  BY <1>7, <2>1, Zenon
  <1> HIDE DEF words
  <1>9. words[0] = << >> /\ \A n \in 1..m : words[n] = Add(words[n - 1], n)
    BY <1>1, <1>8
  <1> QED  BY <1>2, <1>9 DEF m, Add

-----------------------------------------------------------------------------
\* The words of an element are among those of w, behind the first at of them.
Lies(el, w, at) == at \in Nat /\ at + Len(el) <= Len(w) /\ SameWords(el, 1, w, at + 1, Len(el))

\* They stay there when more words follow.
LEMMA LiesOn ==
    ASSUME NEW a \in Seq(Int), NEW b \in Seq(Int), NEW el, Len(el) \in Nat, NEW at, Lies(el, a, at)
    PROVE  Lies(el, a \o b, at)
  <1> DEFINE w == a \o b
             n == Len(el)
  <1>1. w \in Seq(Int) /\ Len(w) = Len(a) + Len(b) /\ Len(a) \in Nat /\ Len(b) \in Nat
    BY Join
  <1>2. \A i \in 1..Len(a) : w[i] = a[i]
    BY Join
  <1> HIDE DEF w, n
  <1>3. at \in Nat /\ n \in Nat /\ at + n <= Len(a) /\ \A k \in 0..n - 1 : a[at + 1 + k] = el[1 + k]
    BY DEF Lies, SameWords, n
  <1>4. ASSUME NEW k \in 0..n - 1  PROVE w[at + 1 + k] = el[1 + k]
    <2>1. at + 1 + k \in 1..Len(a)
      BY <1>1, <1>3
    <2> QED  BY <1>2, <1>3, <2>1
  <1>5. at + n <= Len(w)
    BY <1>1, <1>3
  <1> QED  BY <1>3, <1>4, <1>5 DEF Lies, SameWords, w, n

\* The last words of all.
LEMMA LiesLast ==
    ASSUME NEW a \in Seq(Int), NEW el \in Seq(Int)
    PROVE  Lies(el, a \o el, Len(a))
  <1>1. Len(a \o el) = Len(a) + Len(el) /\ Len(a) \in Nat /\ Len(el) \in Nat
    BY Join
  <1>2. \A i \in 1..Len(el) : (a \o el)[Len(a) + i] = el[i]
    BY Join
  <1> DEFINE w == a \o el
             n == Len(el)
             l == Len(a)
  <1>3. Len(w) = l + n /\ l \in Nat /\ n \in Nat
    BY <1>1
  <1>4. \A i \in 1..n : w[l + i] = el[i]
    BY <1>2
  <1> HIDE DEF w, n, l
  <1>5. ASSUME NEW k \in 0..n - 1  PROVE w[l + 1 + k] = el[1 + k]
    <2>1. 1 + k \in 1..n /\ l + 1 + k = l + (1 + k)
      BY <1>3
    <2> QED  BY <1>4, <2>1
  <1> QED  BY <1>3, <1>5 DEF Lies, SameWords, w, n, l

\* A document of some words.
LEMMA Framed ==
    ASSUME NEW els \in Seq(Int), NEW all, all = <<Len(els) + 2>> \o els \o << 0 >>
    PROVE  /\ all \in Seq(Int) /\ Len(all) = Len(els) + 2 /\ Len(els) \in Nat
           /\ all[1] = Len(all) /\ all[Len(all)] = 0
           /\ \A i \in 1..Len(els) : all[1 + i] = els[i]
  <1> DEFINE n    == Len(els)
             head == <<n + 2>>
             most == head \o els
             zero == <<0>>
  <1>1. n \in Nat
    OBVIOUS
  <1>2. head \in Seq(Int) /\ Len(head) = 1 /\ head[1] = n + 2
    BY <1>1
  <1>3. zero \in Seq(Int) /\ Len(zero) = 1 /\ zero[1] = 0
    OBVIOUS
  <1>4. all = most \o zero
    OBVIOUS
  <1> HIDE DEF head, zero
  <1>5. head \in Seq(Int) /\ els \in Seq(Int)
    BY <1>2
  <1>6. /\ most \in Seq(Int) /\ Len(most) = Len(head) + n
        /\ \A i \in 1..Len(head) : most[i] = head[i]
    BY ONLY <1>5, Join DEF most, n
  <1>7. \A i \in 1..n : most[Len(head) + i] = els[i]
    BY ONLY <1>5, Join DEF most, n
  <1> HIDE DEF most, n
  <1>8. most \in Seq(Int) /\ zero \in Seq(Int)
    BY <1>3, <1>6
  <1>9. /\ all \in Seq(Int) /\ Len(all) = Len(most) + Len(zero)
        /\ \A i \in 1..Len(most) : all[i] = most[i]
    BY ONLY <1>4, <1>8, Join
  <1>10. \A i \in 1..Len(zero) : all[Len(most) + i] = zero[i]
    BY ONLY <1>4, <1>8, Join
  <1>11. Len(most) = n + 1 /\ Len(all) = n + 2
    BY ONLY <1>1, <1>2, <1>3, <1>6, <1>9
  <1>12. all[1] = n + 2
    <2>1. 1 \in 1..Len(most) /\ 1 \in 1..Len(head)
      BY ONLY <1>1, <1>2, <1>11
    <2> QED  BY ONLY <1>2, <1>6, <1>9, <2>1
  <1>13. all[n + 2] = 0
    <2>1. 1 \in 1..Len(zero) /\ Len(most) + 1 = n + 2
      BY ONLY <1>1, <1>3, <1>11
    <2> QED  BY ONLY <1>3, <1>10, <2>1
  <1>14. ASSUME NEW i \in 1..n  PROVE all[1 + i] = els[i]
    <2>1. 1 + i \in 1..Len(most)
      BY ONLY <1>1, <1>11, <1>14
    <2>2. most[1 + i] = els[i]
      BY ONLY <1>2, <1>7, <1>14
    <2> QED  BY ONLY <1>9, <2>1, <2>2
  <1> QED  BY <1>1, <1>9, <1>11, <1>12, <1>13, <1>14 DEF n

-----------------------------------------------------------------------------
\* An element whose words follow those of w in all, up to those of next.
InTurn(el, w, next, all) ==
    /\ Len(el) \in Nat /\ Len(next) = Len(w) + Len(el)
    /\ Lies(el, all, Len(w))

\* After n elements: those that were read are behind one another in words[n].
Gathered(doc, place, words, n) ==
    /\ words[n] \in Seq(Int)
    /\ \A k \in 0..n :
          /\ Len(words[k]) \in Nat
          /\ place[k] = Len(doc) => Len(words[k]) = Len(words[n])
          /\ place[k] # Len(doc) /\ k < n =>
                InTurn(modernizedEl(doc, place[k]), words[k], words[k + 1], words[n])

LEMMA AllGathered ==
    ASSUME NEW docs, NEW doc \in Seq(Int), Reads(doc, docs)
    PROVE  \A n \in 0..Len(doc) \div 2 : Gathered(doc, Loop(doc, {}), modernizedEls(doc), n)
  <1> DEFINE m     == Len(doc) \div 2
             place == Loop(doc, {})
             words == modernizedEls(doc)
             S     == {n \in 0..m : Gathered(doc, place, words, n)}
  <1>1. Len(doc) \in Nat /\ m \in Nat
    OBVIOUS
  <1>2. /\ words[0] = << >>
        /\ \A n \in 1..m : words[n] = IF place[n - 1] = Len(doc) THEN words[n - 1]
                                      ELSE words[n - 1] \o modernizedEl(doc, place[n - 1])
    BY <1>1, ModernizedLaws
  <1>3. \A n \in 0..m : place[n] \in Places(doc)
    BY DEF Places
  <1>4. \A n \in 0..m : \A k \in 0..n : place[k] = Len(doc) => place[n] = Len(doc)
    BY LoopGrows
  <1>5. \A n \in 0..m : place[n] # Len(doc) =>
            LET el == modernizedEl(doc, place[n]) IN el \in Seq(Int) /\ Len(el) \in Nat
    BY <1>3, ModernizedIs
  <1> HIDE DEF m, place, words
  <1>6. Gathered(doc, place, words, 0)
    <2>1. << >> \in Seq(Int) /\ Len(<< >>) = 0
      OBVIOUS
    <2> QED  BY <1>2, <2>1 DEF Gathered
  <1>7. ASSUME NEW n \in 0..m, n < m, Gathered(doc, place, words, n)
        PROVE  Gathered(doc, place, words, n + 1)
    <2>1. n + 1 \in 1..m /\ (n + 1) - 1 = n /\ n \in 0..n
      BY <1>1, <1>7
    <2>2. words[n] \in Seq(Int) /\ Len(words[n]) \in Nat
      BY <1>7, <2>1 DEF Gathered
    <2>3. CASE place[n] = Len(doc)
      <3>1. words[n + 1] = words[n]
        BY <1>2, <2>1, <2>3
      <3>2. ASSUME NEW k \in 0..n + 1
            PROVE  /\ Len(words[k]) \in Nat
                   /\ place[k] = Len(doc) => Len(words[k]) = Len(words[n + 1])
                   /\ place[k] # Len(doc) /\ k < n + 1 =>
                        InTurn(modernizedEl(doc, place[k]), words[k], words[k + 1], words[n + 1])
        <4>1. CASE k = n + 1
          BY <2>2, <3>1, <4>1
        <4>2. CASE k \in 0..n
          <5>1. place[k] # Len(doc) => k < n
            BY <2>3, <4>2
          <5> QED  BY <1>7, <3>1, <4>2, <5>1 DEF Gathered
        <4> QED  BY <4>1, <4>2
      <3> QED  BY <2>2, <3>1, <3>2 DEF Gathered
    <2>4. CASE place[n] # Len(doc)
      <3> DEFINE last == modernizedEl(doc, place[n])
      <3>1. words[n + 1] = words[n] \o last
        BY <1>2, <2>1, <2>4
      <3>2. last \in Seq(Int) /\ Len(last) \in Nat
        BY <1>5, <2>4
      <3>3. words[n + 1] \in Seq(Int) /\ Len(words[n + 1]) = Len(words[n]) + Len(last)
        BY <2>2, <3>1, <3>2, Join
      <3>4. Lies(last, words[n + 1], Len(words[n]))
        BY <2>2, <3>1, <3>2, LiesLast
      <3>5. ASSUME NEW k \in 0..n  PROVE place[k] # Len(doc)
        BY <1>4, <2>4
      <3>6. ASSUME NEW k \in 0..n, k < n
            PROVE  InTurn(modernizedEl(doc, place[k]), words[k], words[k + 1], words[n + 1])
        <4> DEFINE el == modernizedEl(doc, place[k])
        <4>1. /\ Len(el) \in Nat /\ Len(words[k + 1]) = Len(words[k]) + Len(el)
              /\ Lies(el, words[n], Len(words[k]))
          BY <1>7, <3>5, <3>6 DEF Gathered, InTurn
        <4> HIDE DEF el, last
        <4>2. Lies(el, words[n + 1], Len(words[k]))
          BY <2>2, <3>1, <3>2, <4>1, LiesOn
        <4> QED  BY <4>1, <4>2 DEF el, InTurn
      <3>7. \A k \in 0..n : Len(words[k]) \in Nat
        BY <1>7 DEF Gathered
      <3> HIDE DEF last
      <3>8. Len(words[n + 1]) \in Nat
        BY <2>2, <3>2, <3>3
      <3>9. ASSUME NEW k \in 0..n + 1
            PROVE  /\ Len(words[k]) \in Nat
                   /\ place[k] = Len(doc) => Len(words[k]) = Len(words[n + 1])
                   /\ place[k] # Len(doc) /\ k < n + 1 =>
                        InTurn(modernizedEl(doc, place[k]), words[k], words[k + 1], words[n + 1])
        <4>1. CASE k = n + 1
          BY <3>8, <4>1
        <4>2. CASE k = n
          <5>1. InTurn(last, words[n], words[n + 1], words[n + 1])
            BY <3>2, <3>3, <3>4 DEF InTurn
          <5> QED  BY <3>7, <4>2, <5>1, <3>5 DEF last
        <4>3. CASE k \in 0..n /\ k < n
          BY <3>5, <3>6, <3>7, <4>3
        <4> QED  BY <4>1, <4>2, <4>3
      <3> QED  BY <3>3, <3>9 DEF Gathered
    <2> QED  BY <2>3, <2>4
  <1>8. 0..m \subseteq S
    <2>1. 0 \in S
      BY <1>1, <1>6
    <2>2. ASSUME NEW n \in 0..m, n < m, n \in S  PROVE n + 1 \in S
      BY <1>1, <1>7, <2>2
    <2> HIDE DEF S
    <2> QED  BY <1>1, <2>1, <2>2, GoesOn
  <1>9. \A n \in 0..m : Gathered(doc, place, words, n)
    BY <1>8
  <1> QED  BY <1>9 DEF m, place, words

-----------------------------------------------------------------------------
\* A modernized key can be read, and its elements have the names that they had.
LEMMA ModernizedKey ==
    ASSUME NEW docs, Sound(docs), NEW doc \in docs, NamesDiffer(doc),
           NEW new, new = getModernizedKeySpec(doc)
    PROVE  new \in Seq(Int) /\ Reads(new, docs) /\ NamesDiffer(new)
  <1> DEFINE m     == Len(doc) \div 2
             place == Loop(doc, {})
             words == modernizedEls(doc)
             els   == words[m]
             At(k) == Len(words[k]) + 2
             P     == {At(k) : k \in 0..m}
             El(k) == modernizedEl(doc, place[k])
  <1>1. doc \in Seq(Int) /\ Reads(doc, docs) /\ Len(doc) \in Nat /\ m \in Nat
    BY DEF Sound
  <1>2. \A n \in 0..m : Gathered(doc, place, words, n)
    BY <1>1, AllGathered
  <1>3. \A n \in 0..m : place[n] \in Places(doc)
    BY DEF Places
  <1>4. place[m] = Len(doc)
    <2>1. doc[1] = Len(doc) /\ doc[1] \in Int /\ doc[1] <= Len(doc)
      BY <1>1 DEF Reads
    <2>2. Stops(doc, {}, place[m])
      BY <1>1, <2>1, LoopStops
    <2>3. m \in 0..m
      BY <1>1
    <2>4. place[m] \in Places(doc)
      BY <1>3, <2>3
    <2>5. place[m] \in Nat /\ place[m] <= Len(doc) /\ (place[m] # Len(doc) => Element(doc, place[m]))
      BY <1>1, <2>4, PlacesOf
    <2> HIDE DEF place, m
    <2> QED  BY <1>1, <2>1, <2>2, <2>5 DEF Stops
  <1>5. \A n \in 0..m : \A k \in 0..n : place[k] # Len(doc) /\ k < n => place[k] < place[n]
    BY <1>1, LoopGrows
  <1>6. words[0] = << >>
    BY <1>1, ModernizedLaws
  <1>7. els \in Seq(Int)
    BY <1>1, <1>2 DEF Gathered
  <1>8. new = <<Len(els) + 2>> \o els \o <<0>>
    BY DEF getModernizedKeySpec
  <1> HIDE DEF m, place, words, els
  <1>9. /\ new \in Seq(Int) /\ Len(new) = Len(els) + 2 /\ Len(els) \in Nat
        /\ new[1] = Len(new) /\ new[Len(new)] = 0
        /\ \A i \in 1..Len(els) : new[1 + i] = els[i]
    BY <1>7, <1>8, Framed
  <1>10. ASSUME NEW k \in 0..m, place[k] = Len(doc)  PROVE At(k) = Len(new)
    <2>1. Gathered(doc, place, words, m) /\ k \in 0..m
      BY <1>1, <1>2
    <2>2. Len(words[k]) = Len(els)
      BY <1>10, <2>1 DEF Gathered, els
    <2> QED  BY <1>9, <2>2
  <1>11. ASSUME NEW k \in 0..m, place[k] # Len(doc)
         PROVE  /\ Element(new, At(k)) /\ At(k) + ElementSize(new, At(k)) \in P
                /\ At(k) + ElementSize(new, At(k)) <= Len(new)
                /\ Container(new[At(k)]) => ValueAt(new, At(k)).words \in docs
                /\ new[At(k) + 1] = doc[place[k] + 1]
    <2> DEFINE el == El(k)
               at == Len(words[k])
               n  == Len(el)
    <2>1. k < m /\ k + 1 \in 0..m
      BY <1>1, <1>4, <1>11
    <2>2. InTurn(el, words[k], words[k + 1], els)
      <3>1. Gathered(doc, place, words, m) /\ k \in 0..m
        BY <1>1, <1>2
      <3> QED  BY <1>11, <2>1, <3>1 DEF Gathered, els
    <2>3. el = modernizedEl(doc, place[k]) /\ place[k] \in Places(doc)
      BY <1>3
    <2> HIDE DEF el
    <2>4. n \in Nat /\ Len(words[k + 1]) = at + n /\ at \in Nat /\ at + n <= Len(els)
      BY <2>2 DEF InTurn, Lies
    <2>5. \A i \in 0..n - 1 : els[at + 1 + i] = el[1 + i]
      BY <2>2 DEF InTurn, Lies, SameWords
    <2> HIDE DEF n
    <2>6. ASSUME NEW i \in 0..n - 1  PROVE new[at + 2 + i] = el[1 + i]
      <3>1. at + 1 + i \in 1..Len(els) /\ 1 + (at + 1 + i) = at + 2 + i
        BY <1>9, <2>4
      <3> QED  BY <1>9, <2>5, <3>1
    <2>7. SameWords(el, 1, new, at + 2, Len(el))
      BY <2>6 DEF SameWords, n
    <2>8. at + 2 \in Nat /\ 2 <= at + 2 /\ at + 2 + n <= Len(new) + 1 /\ at + 2 + n <= Len(new)
      BY <1>9, <2>4
    <2>9. at + 2 + Len(el) <= Len(new) + 1
      BY <2>8 DEF n
    <2>10. /\ Element(new, at + 2) /\ ElementSize(new, at + 2) = Len(el)
           /\ new[at + 2 + 1] = doc[place[k] + 1]
           /\ Container(new[at + 2]) => ValueAt(new, at + 2).words \in docs
      <3> DEFINE j == at + 2
                 p == place[k]
      <3>1. /\ j \in Nat /\ 2 <= j /\ j + Len(el) <= Len(new) + 1 /\ SameWords(el, 1, new, j, Len(el))
            /\ p \in Places(doc) /\ p # Len(doc) /\ el = modernizedEl(doc, p) /\ new \in Seq(Int)
        BY <1>9, <1>11, <2>3, <2>7, <2>8, <2>9
      <3> HIDE DEF j, p
      <3>2. /\ Element(new, j) /\ ElementSize(new, j) = Len(el)
            /\ new[j + 1] = doc[p + 1]
            /\ Container(new[j]) => ValueAt(new, j).words \in docs
        BY <1>1, <3>1, ModernizedStands
      <3> QED  BY <3>2 DEF j, p
    <2>11. at + 2 + n = At(k + 1)
      BY <2>4
    <2>12. At(k + 1) \in P
      BY <2>1
    <2> QED  BY <2>8, <2>10, <2>11, <2>12 DEF n
  <1>12. 2 \in P
    <2>1. At(0) = 2 /\ 0 \in 0..m
      BY <1>1, <1>6
    <2> QED  BY <2>1
  <1>13. Chain(new, P, docs)
    <2>1. ASSUME NEW p \in P, p # Len(new)
          PROVE  /\ Element(new, p) /\ p + ElementSize(new, p) \in P
                 /\ p + ElementSize(new, p) <= Len(new)
                 /\ Container(new[p]) => ValueAt(new, p).words \in docs
      <3>1. PICK k \in 0..m : p = At(k)
        OBVIOUS
      <3>2. place[k] # Len(doc)
        BY <1>10, <2>1, <3>1
      <3> HIDE DEF At, P
      <3> QED  BY <1>11, <3>1, <3>2
    <2>2. 2 <= Len(new)
      BY <1>9
    <2> HIDE DEF P
    <2> QED  BY <1>9, <1>12, <2>1, <2>2 DEF Chain
  <1>14. Reads(new, docs) /\ Places(new) \subseteq P
    <2> HIDE DEF P
    <2> QED  BY <1>9, <1>13, ChainReads
  <1>15. ASSUME NEW p \in Places(new), p # Len(new), NEW q \in Places(new), q # Len(new),
                new[p + 1] = new[q + 1]
         PROVE  p = q
    <2>1. PICK k \in 0..m : p = At(k)
      BY <1>14
    <2>2. PICK j \in 0..m : q = At(j)
      BY <1>14
    <2>3. place[k] # Len(doc) /\ place[j] # Len(doc)
      BY <1>10, <1>15, <2>1, <2>2
    <2> HIDE DEF At, P
    <2>4. doc[place[k] + 1] = doc[place[j] + 1]
      BY <1>11, <1>15, <2>1, <2>2, <2>3
    <2>5. place[k] = place[j]
      BY <1>3, <2>3, <2>4 DEF NamesDiffer
    <2>6. place[k] \in Nat
      BY <1>1, <1>3, PlacesOf
    <2>7. ~(k < j) /\ ~(j < k)
      <3>1. k < j => place[k] < place[j]
        <4>1. k < j => k \in 0..j
          BY <1>1
        <4> QED  BY <1>5, <2>3, <4>1
      <3>2. j < k => place[j] < place[k]
        <4>1. j < k => j \in 0..k
          BY <1>1
        <4> QED  BY <1>5, <2>3, <4>1
      <3> QED  BY <2>5, <2>6, <3>1, <3>2
    <2>8. k = j
      BY <1>1, <2>7
    <2> QED  BY <2>1, <2>2, <2>8
  <1> QED  BY <1>9, <1>14, <1>15 DEF NamesDiffer

-----------------------------------------------------------------------------
\* A specification that can be read, with a key that the server allows.
Good(s) == s \in Seq(Int) /\ Readable(s) /\ KeyNamesDiffer(s)

\* An option that there is.
LEMMA OptionIs ==
    ASSUME NEW s, Good(s), NEW name, HasOption(s, name)
    PROVE  LET pos == Match(s, name)
           IN \E docs : /\ Sound(docs) /\ Level(s, docs) /\ Front(s) = s /\ s[1] = Len(s)
                        /\ pos \in Places(Front(s)) /\ pos # s[1] /\ pos \in Nat
                        /\ Container(OptionValue(s, name).type) =>
                              /\ OptionValue(s, name).words \in docs
                              /\ OptionValue(s, name).words = Front(From(s, pos))
                              /\ Level(From(s, pos), docs)
  <1> DEFINE pos == Match(s, name)
  <1>1. s \in Seq(Int) /\ Readable(s)
    BY DEF Good
  <1>2. PICK docs : Sound(docs) /\ Level(s, docs) /\ s[1] = Len(s) /\ s \in docs
    BY <1>1, ReadableLevel
  <1>3. 1 <= Len(s)
    BY <1>2 DEF Level
  <1>4. Front(s) = s
    BY <1>1, <1>2, <1>3, WholeFront
  <1>5. pos \in Places(Front(s)) /\ pos # s[1]
    BY <1>2, MatchIs DEF HasOption
  <1>6. pos \in Nat
    BY <1>2, <1>5, FoundInBuffer
  <1>7. OptionValue(s, name) = ValueAt(s, pos) /\ OptionValue(s, name).type = s[pos]
    BY DEF OptionValue, ValueAt
  <1> HIDE DEF pos
  <1>8. ASSUME Container(s[pos])
        PROVE  ValueAt(s, pos).words = Front(From(s, pos)) /\ Level(From(s, pos), docs)
    BY <1>2, <1>5, <1>8, LevelWords
  <1>9. \A w : Level(w, docs) => Front(w) \in docs
    BY DEF Level
  <1> QED  BY <1>2, <1>4, <1>5, <1>6, <1>7, <1>8, <1>9 DEF pos

\* Values that replace others.
LEMMA Int32Replaces ==
    ASSUME NEW n \in Int
    PROVE  Replacement(Int32(n)) /\ Int32(n) # Nothing /\ Len(Int32(n).words) = 1
  <1> DEFINE words == <<n>>
  <1>1. words \in Seq(Int) /\ Len(words) = 1
    OBVIOUS
  <1>2. Int32(n).type = 16 /\ Int32(n).words = words /\ Int32(n) \in [type : Int, words : Seq(Int)]
    BY <1>1 DEF Int32
  <1> HIDE DEF words
  <1>3. ValueSize(words, 1, 16) = 1
    BY FixedSizes
  <1>4. Value(words, 1, 16, Len(words))
    BY <1>1, <1>3 DEF Value, Measured
  <1>5. ~Container(16)
    BY DEF Container
  <1>6. Int32(n) # Nothing
    BY <1>2 DEF Nothing
  <1> QED  BY <1>1, <1>2, <1>4, <1>5, <1>6 DEF Replacement

LEMMA BoolReplaces ==
    ASSUME NEW new, new \in {Bool(TRUE), Bool(FALSE)}
    PROVE  Replacement(new) /\ new # Nothing
  <1>1. PICK n \in Int : new = [type |-> 8, words |-> <<n>>]
    BY DEF Bool
  <1> DEFINE words == <<n>>
  <1>2. words \in Seq(Int) /\ Len(words) = 1
    OBVIOUS
  <1>3. new.type = 8 /\ new.words = words /\ new \in [type : Int, words : Seq(Int)]
    BY <1>1, <1>2
  <1> HIDE DEF words
  <1>4. ValueSize(words, 1, 8) = 1
    BY FixedSizes
  <1>5. Value(words, 1, 8, Len(words))
    BY <1>2, <1>4 DEF Value, Measured
  <1>6. ~Container(8)
    BY DEF Container
  <1>7. new # Nothing
    BY <1>3 DEF Nothing
  <1> QED  BY <1>2, <1>3, <1>5, <1>6, <1>7 DEF Replacement

LEMMA NothingReplaces == Replacement(Nothing)
  BY DEF Replacement, Nothing

LEMMA DocumentReplaces ==
    ASSUME NEW doc \in Seq(Int), Readable(doc), doc[1] = Len(doc), 1 <= Len(doc)
    PROVE  Replacement([type |-> 3, words |-> doc]) /\ [type |-> 3, words |-> doc] # Nothing
  <1> DEFINE new == [type |-> 3, words |-> doc]
  <1>1. new.type = 3 /\ new.words = doc /\ new \in [type : Int, words : Seq(Int)]
    OBVIOUS
  <1>2. Len(doc) \in Nat
    OBVIOUS
  <1>3. ValueSize(doc, 1, 3) = doc[1]
    BY MeasuredSizes
  <1>4. Value(doc, 1, 3, Len(doc))
    BY <1>2, <1>3 DEF Value
  <1>5. new # Nothing
    BY <1>1 DEF Nothing
  <1> HIDE DEF new
  <1>6. Replacement(new)
    BY <1>1, <1>4 DEF Replacement
  <1> QED  BY <1>5, <1>6 DEF new

-----------------------------------------------------------------------------
\* The names of options are different numbers.
LEMMA NamesAre ==
    /\ Name.key \in Int /\ optsToIgnore \subseteq Int /\ Name.key \notin optsToIgnore
    /\ Name.expireAfterSeconds \in Int /\ Name.expireAfterSeconds # Name.key
    /\ Name.bits \in Int /\ Name.bits # Name.key
    /\ Name.sparse \in Int /\ Name.sparse # Name.key
  BY DEF Name, optsToIgnore

\* An edit of another option leaves the key as it is.
LEMMA OptionEdit ==
    ASSUME NEW s, Good(s), NEW new, Replacement(new), NEW name \in Int, name # Name.key,
           NEW e, e = replaceOrRemoveInRaw(s, new, <<name>>)
    PROVE  /\ Good(e.raw)
           /\ HasOption(s, name) => Found(e)
  <1>1. s \in Seq(Int) /\ Readable(s)
    BY DEF Good
  <1>2. e.raw \in Seq(Int) /\ Readable(e.raw)
    <2>1. <<name>> \in Seq(Int) /\ Len(<<name>>) > 0
      OBVIOUS
    <2> QED  BY <1>1, <2>1, EditsStayReadable
  <1>3. CASE ~HasOption(s, name)
    <2>1. e.raw = s
      BY <1>1, <1>3, EditOneKey
    <2> QED  BY <1>3, <2>1
  <1>4. CASE HasOption(s, name)
    <2> DEFINE out == e.raw
               pos == Match(s, name)
               m   == Match(s, Name.key)
               q   == Moved(m, pos, e.added)
    <2>1. Found(e) /\ \E docs, more : EditsHere(docs, more, s, pos, name, out, e.added)
      BY <1>1, <1>4, EditOneKey
    <2>2. PICK docs, more : EditsHere(docs, more, s, pos, name, out, e.added)
      BY <2>1
    <2>3. /\ Match(out, Name.key) = q
          /\ m = s[1] <=> q = out[1]
          /\ m # s[1] => ValueAt(out, q) = ValueAt(s, m)
      BY <2>2, OtherKeyStays
    <2>4. HasOption(out, Name.key) <=> HasOption(s, Name.key)
      BY <2>3 DEF HasOption
    <2>5. HasOption(s, Name.key) => OptionValue(out, Name.key) = OptionValue(s, Name.key)
      BY <2>3 DEF HasOption, OptionValue
    <2> HIDE DEF out
    <2>6. KeyNamesDiffer(out)
      BY <2>4, <2>5 DEF KeyNamesDiffer, HasKey, Good
    <2> QED  BY <1>2, <2>1, <2>6 DEF Good, out
  <1> QED  BY <1>3, <1>4

\* A key that is replaced is where it was.
LEMMA KeyEdit ==
    ASSUME NEW s, Good(s), HasKey(s), NEW doc \in Seq(Int), Readable(doc), NamesDiffer(doc),
           NEW e, e = replaceOrRemoveInRaw(s, [type |-> 3, words |-> doc], <<Name.key>>)
    PROVE  Good(e.raw) /\ Found(e)
  <1> DEFINE new == [type |-> 3, words |-> doc]
             out == e.raw
             pos == Match(s, Name.key)
  <1>1. s \in Seq(Int) /\ Readable(s)
    BY DEF Good
  <1>2. Replacement(new) /\ new # Nothing
    <2>1. doc[1] = Len(doc) /\ 2 <= doc[1]
      BY ReadableLevel DEF Level
    <2>2. 1 <= Len(doc)
      BY <2>1
    <2> QED  BY <2>1, <2>2, DocumentReplaces
  <1>3. new.words = doc
    OBVIOUS
  <1>4. e = replaceOrRemoveInRaw(s, new, <<Name.key>>)
    OBVIOUS
  <1> HIDE DEF new
  <1>5. e.raw \in Seq(Int) /\ Readable(e.raw)
    <2>1. <<Name.key>> \in Seq(Int) /\ Len(<<Name.key>>) > 0
      BY NamesAre
    <2> QED  BY <1>1, <1>2, <1>4, <2>1, EditsStayReadable
  <1>6. /\ Found(e)
        /\ \E docs, more : EditsHere(docs, more, s, pos, Name.key, out, e.added)
        /\ ElementSize(s, pos) + e.added # 0 /\ ValueAt(out, pos) = new
    <2>1. HasOption(s, Name.key)
      BY DEF HasKey
    <2> QED  BY ONLY <1>1, <1>2, <1>4, <2>1, EditOneKey DEF out, pos
  <1>7. PICK docs, more : EditsHere(docs, more, s, pos, Name.key, out, e.added)
    BY <1>6
  <1>8. Match(out, Name.key) = pos
    BY <1>6, <1>7, OwnKeyStays
  <1>9. OptionValue(out, Name.key).words = doc
    BY <1>3, <1>6, <1>8 DEF OptionValue
  <1> HIDE DEF out
  <1>10. KeyNamesDiffer(out)
    BY <1>9 DEF KeyNamesDiffer
  <1> QED  BY <1>5, <1>6, <1>10 DEF Good, out

-----------------------------------------------------------------------------
\* A step does not panic, and leaves a specification that can be read, with its key.
Safe(r) == r.is \in {"prepared", "error"} /\ (r.is = "prepared" => Good(r.spec))

LEMMA RefusedIsSafe == Safe(Refused)
  BY DEF Safe, Refused

LEMMA PreparedIsSafe ==
    ASSUME NEW s, Good(s)
    PROVE  Safe(Prepared(s)) /\ Prepared(s).is = "prepared" /\ Prepared(s).spec = s
  BY DEF Safe, Prepared

\* A replacement that was found.
LEMMA ReplacedIsSafe ==
    ASSUME NEW s, NEW rv, NEW pointer, NEW e, e = replaceOrRemoveInRaw(s, rv, pointer),
           Found(e), Good(e.raw)
    PROVE  Replaced(s, rv, pointer) = Prepared(e.raw) /\ Safe(Replaced(s, rv, pointer))
  <1>1. Replaced(s, rv, pointer) = Prepared(e.raw)
    BY DEF Replaced, Found
  <1> QED  BY <1>1, PreparedIsSafe

LEMMA OptionReplacedIsSafe ==
    ASSUME NEW s, NEW rv, NEW name, NEW e, e = replaceOrRemoveInRaw(s, rv, <<name>>),
           Found(e), Good(e.raw)
    PROVE  OptionReplaced(s, rv, name) = Prepared(e.raw) /\ Safe(OptionReplaced(s, rv, name))
  <1>1. OptionReplaced(s, rv, name) = Prepared(e.raw)
    BY DEF OptionReplaced, Found
  <1> QED  BY <1>1, PreparedIsSafe

\* The value of an option that is a number.
LEMMA NumberIs ==
    ASSUME NEW s, NEW docs, Level(s, docs), NEW pos, pos \in Nat, 2 <= pos, Element(s, pos),
           s[pos] \in {1, 18}
    PROVE  Truncated(Float(ValueAt(s, pos))) \in Int
  <1> DEFINE rv == ValueAt(s, pos)
  <1>1. s \in Seq(Int) /\ Len(s) \in Nat
    BY DEF Level
  <1>2. ValueSize(s, pos + 2, s[pos]) = 2
    BY FixedSizes
  <1>3. pos + 2 + 2 <= Len(s) + 1 /\ ElementSize(s, pos) = 4
    BY <1>2 DEF Element, ElementSize
  <1>4. rv.type = s[pos] /\ rv.words = SubSeq(s, pos + 2, pos + 4 - 1)
    BY <1>3 DEF ValueAt
  <1>5. rv.words[1] \in Int
    <2>1. /\ pos + 1 + 2 <= Len(s) /\ pos + 1 + 2 = pos + 4 - 1 /\ 2 \in Nat
      BY <1>1, <1>3
    <2>2. LET t == SubSeq(s, pos + 2, pos + 1 + 2)
          IN t \in Seq(Int) /\ Len(t) = 2 /\ \A i \in 1..2 : t[i] = s[pos + 1 + i]
      BY ONLY <1>1, <2>1, pos \in Nat, Cut
    <2>3. rv.words[1] = s[pos + 1 + 1]
      BY <1>4, <2>1, <2>2
    <2>4. pos + 1 + 1 \in 1..Len(s)
      BY <1>1, <2>1
    <2> QED  BY <1>1, <2>3, <2>4
  <1> HIDE DEF rv
  <1>6. Float(rv)[1] \in Int
    <2>1. CASE rv.type = 1
      BY <1>5, <2>1 DEF Float
    <2>2. CASE rv.type # 1
      <3>1. Float(rv) = <<2 * rv.words[1], 0>>
        BY <2>2 DEF Float
      <3>2. 2 * rv.words[1] \in Int
        BY <1>5
      <3> QED  BY <3>1, <3>2
    <2> QED  BY <2>1, <2>2
  <1>7. \A f : f[1] \in Int => Truncated(f) \in Int
    BY DEF Truncated
  <1> QED  BY <1>6, <1>7 DEF rv

LEMMA OptionNumberIs ==
    ASSUME NEW s, Good(s), NEW name, HasOption(s, name), OptionValue(s, name).type \in {1, 18}
    PROVE  Truncated(Float(OptionValue(s, name))) \in Int
  <1> DEFINE pos == Match(s, name)
  <1>1. PICK docs : Sound(docs) /\ Level(s, docs) /\ pos \in Places(Front(s)) /\ pos # s[1]
    BY OptionIs
  <1>2. OptionValue(s, name) = ValueAt(s, pos) /\ OptionValue(s, name).type = s[pos]
    BY DEF OptionValue, ValueAt
  <1> HIDE DEF pos
  <1>3. pos \in Nat /\ 2 <= pos /\ Element(s, pos)
    BY <1>1, FoundInBuffer
  <1>4. s[pos] \in {1, 18}
    BY <1>2
  <1> QED  BY <1>1, <1>2, <1>3, <1>4, NumberIs

-----------------------------------------------------------------------------
LEMMA ModernizeIsSafe ==
    ASSUME NEW s, Good(s)
    PROVE  Safe(ModernizeSpec(s))
  <1> DEFINE doc == OptionValue(s, Name.key).words
             new == getModernizedKeySpec(doc)
  <1>1. \/ ModernizeSpec(s) = Refused
        \/ ModernizeSpec(s) = Prepared(s)
        \/ /\ HasKey(s)
           /\ ModernizeSpec(s) = Replaced(s, [type |-> 3, words |-> new], <<Name.key>>)
    BY DEF ModernizeSpec
  <1>2. CASE HasKey(s) /\ ModernizeSpec(s) = Replaced(s, [type |-> 3, words |-> new], <<Name.key>>)
    <2>1. HasOption(s, Name.key) /\ Container(OptionValue(s, Name.key).type) /\ NamesDiffer(doc)
      BY <1>2 DEF HasKey, Container, Good, KeyNamesDiffer
    <2>2. PICK docs : Sound(docs) /\ doc \in docs
      BY <2>1, OptionIs
    <2> HIDE DEF doc
    <2>3. new \in Seq(Int) /\ Reads(new, docs) /\ NamesDiffer(new)
      BY <2>1, <2>2, ModernizedKey
    <2> HIDE DEF new
    <2>4. Readable(new)
      <3>1. Sound(docs \cup {new})
        <4>1. Reads(new, docs \cup {new})
          BY <2>3, ReadsMore
        <4>2. \A d \in docs : d \in Seq(Int) /\ Reads(d, docs \cup {new})
          BY <2>2, ReadsMore DEF Sound
        <4> QED  BY <2>3, <4>1, <4>2 DEF Sound
      <3>2. new \in docs \cup {new}
        OBVIOUS
      <3> QED  BY <2>3, <3>1, <3>2, ReadableSound
    <2> DEFINE e == replaceOrRemoveInRaw(s, [type |-> 3, words |-> new], <<Name.key>>)
    <2>5. Good(e.raw) /\ Found(e)
      BY <1>2, <2>3, <2>4, KeyEdit
    <2> QED  BY <1>2, <2>5, ReplacedIsSafe
  <1> QED  BY <1>1, <1>2, RefusedIsSafe, PreparedIsSafe

LEMMA ToInt32IsSafe ==
    ASSUME NEW s, Good(s), NEW name \in Int, name # Name.key, NEW maxBound
    PROVE  Safe(convertToInt32(s, name, maxBound))
  <1> DEFINE r == convertToInt32(s, name, maxBound)
             n == Truncated(Float(OptionValue(s, name)))
  <1>1. \/ r = Refused
        \/ r = Prepared(s)
        \/ /\ HasOption(s, name) /\ OptionValue(s, name).type \in {1, 18}
           /\ r = OptionReplaced(s, Int32(n), name)
    BY DEF convertToInt32
  <1>2. CASE /\ HasOption(s, name) /\ OptionValue(s, name).type \in {1, 18}
             /\ r = OptionReplaced(s, Int32(n), name)
    <2>1. n \in Int
      BY <1>2, OptionNumberIs
    <2> HIDE DEF r, n
    <2>2. Replacement(Int32(n))
      BY <2>1, Int32Replaces
    <2> DEFINE e == replaceOrRemoveInRaw(s, Int32(n), <<name>>)
    <2>3. Good(e.raw) /\ Found(e)
      BY <1>2, <2>2, OptionEdit
    <2> QED  BY <1>2, <2>3, OptionReplacedIsSafe DEF r
  <1> QED  BY <1>1, <1>2, RefusedIsSafe, PreparedIsSafe

LEMMA ToBoolIsSafe ==
    ASSUME NEW s, Good(s)
    PROVE  Safe(convertSparseSpecToBool(s))
  <1> DEFINE r   == convertSparseSpecToBool(s)
             new == Bool(~IsZero(Float(OptionValue(s, Name.sparse))))
  <1>1. \/ r = Refused
        \/ r = Prepared(s)
        \/ HasOption(s, Name.sparse) /\ r = OptionReplaced(s, new, Name.sparse)
    BY DEF convertSparseSpecToBool
  <1>2. CASE HasOption(s, Name.sparse) /\ r = OptionReplaced(s, new, Name.sparse)
    <2>1. new \in {Bool(TRUE), Bool(FALSE)}
      BY DEF Bool
    <2> HIDE DEF new
    <2>2. Replacement(new)
      BY <2>1, BoolReplaces
    <2> DEFINE e == replaceOrRemoveInRaw(s, new, <<Name.sparse>>)
    <2>3. Good(e.raw) /\ Found(e)
      BY <1>2, <2>2, NamesAre, OptionEdit
    <2> QED  BY <1>2, <2>3, OptionReplacedIsSafe
  <1> QED  BY <1>1, <1>2, RefusedIsSafe, PreparedIsSafe

LEMMA RemovedIsSafe ==
    ASSUME NEW s, Good(s), NEW name \in optsToIgnore
    PROVE  Safe(Removed(s, name))
  <1> DEFINE e == replaceOrRemoveInRaw(s, Nothing, <<name>>)
  <1>1. name \in Int /\ name # Name.key
    BY NamesAre
  <1>2. Good(e.raw)
    BY <1>1, NothingReplaces, OptionEdit
  <1>3. Removed(s, name) = Refused \/ Removed(s, name) = Prepared(e.raw)
    BY DEF Removed
  <1> QED  BY <1>2, <1>3, RefusedIsSafe, PreparedIsSafe

-----------------------------------------------------------------------------
\* An element of a key with a name that no other has is edited where it is, and
\* those before it stay where they are.
KeyEdited(docs, more, doc, p, name, out, added) ==
    /\ EditsHere(docs, more, doc, p, name, out, added)
    /\ ElementSize(doc, p) + added # 0

LEMMA KeyPlacesAfter ==
    ASSUME NEW docs, NEW more, NEW buf, NEW p, NEW name, NEW out, NEW added,
           KeyEdited(docs, more, buf, p, name, out, added), NamesDiffer(Front(buf))
    PROVE  /\ NamesDiffer(Front(out))
           /\ \A q \in Places(Front(buf)) \ {Len(Front(buf))} :
                 q < p => q \in Places(Front(out)) \ {Len(Front(out))}
  <1> DEFINE size == ElementSize(buf, p)
             old  == Places(Front(buf))
             new  == Places(Front(out))
  <1>1. /\ Sound(docs) /\ Level(buf, docs) /\ Sound(more) /\ Level(out, more)
        /\ size + added # 0 /\ (size + added = 0 \/ out[p + 1] = name)
    BY DEF KeyEdited, EditsHere, SplicedLevel
  <1>2. EditsHere(docs, more, buf, p, name, out, added)
    BY DEF KeyEdited
  <1>3. Len(Front(buf)) = buf[1] /\ Len(Front(out)) = out[1]
    <2>1. \A d, w : Level(w, d) => w \in Seq(Int) /\ w[1] \in Nat /\ 2 <= w[1] /\ w[1] <= Len(w)
      BY DEF Level
    <2>2. /\ buf \in Seq(Int) /\ buf[1] \in Nat /\ 1 <= buf[1] /\ buf[1] <= Len(buf)
          /\ out \in Seq(Int) /\ out[1] \in Nat /\ 1 <= out[1] /\ out[1] <= Len(out)
      BY <1>1, <2>1
    <2> QED  BY <2>2, FrontIs
  <1>4. /\ buf[p + 1] = name /\ p # buf[1] /\ p \in old
        /\ \A q \in old \ {p, buf[1]} : out[Moved(q, p, added) + 1] = buf[q + 1]
        /\ new = PlacesAfter(buf, p, added)
    <2>1. /\ buf[p + 1] = name /\ p < buf[1] /\ p \in Nat /\ buf[1] \in Nat /\ p \in old
          /\ \A q \in old \ {p, buf[1]} : out[Moved(q, p, added) + 1] = buf[q + 1]
          /\ new = PlacesAfter(buf, p, added)
      BY <1>2, EditNumbers
    <2> QED  BY <2>1
  <1>5. ASSUME NEW q \in old, q # p
        PROVE  /\ q = buf[1] <=> Moved(q, p, added) = out[1]
               /\ Moved(q, p, added) \in new
               /\ q < p => Moved(q, p, added) = q
    BY <1>2, <1>5, MovedBy
  <1>6. /\ \A q \in old \ {buf[1]} : Front(buf)[q + 1] = buf[q + 1]
        /\ \A q \in new \ {out[1]} : Front(out)[q + 1] = out[q + 1]
    BY <1>1, FoundInBuffer
  <1> HIDE DEF old, new, size
  <1>7. ASSUME NEW a \in new \ {out[1]}
        PROVE  \E q \in old \ {buf[1]} : /\ out[a + 1] = buf[q + 1]
                                         /\ a = IF q = p THEN p ELSE Moved(q, p, added)
    <2>1. a = p \/ \E q \in old \ {p} : a = Moved(q, p, added)
      BY <1>4 DEF PlacesAfter, old
    <2>2. CASE a = p
      BY <1>1, <1>4, <2>2
    <2>3. CASE \E q \in old \ {p} : a = Moved(q, p, added)
      <3>1. PICK q \in old \ {p} : a = Moved(q, p, added)
        BY <2>3
      <3>2. q # buf[1]
        BY <1>5, <3>1
      <3> QED  BY <1>4, <3>1, <3>2
    <2> QED  BY <2>1, <2>2, <2>3
  <1>8. ASSUME NEW a \in new \ {out[1]}, NEW b \in new \ {out[1]}, out[a + 1] = out[b + 1]
        PROVE  a = b
    <2>1. PICK q \in old \ {buf[1]} : /\ out[a + 1] = buf[q + 1]
                                      /\ a = IF q = p THEN p ELSE Moved(q, p, added)
      BY <1>7
    <2>2. PICK r \in old \ {buf[1]} : /\ out[b + 1] = buf[r + 1]
                                      /\ b = IF r = p THEN p ELSE Moved(r, p, added)
      BY <1>7
    <2>3. Front(buf)[q + 1] = Front(buf)[r + 1]
      BY <1>6, <1>8, <2>1, <2>2
    <2>4. q = r
      BY <1>3, <2>3 DEF NamesDiffer, old
    <2> QED  BY <2>1, <2>2, <2>4
  <1>9. NamesDiffer(Front(out))
    BY <1>3, <1>6, <1>8 DEF NamesDiffer, new
  <1>10. ASSUME NEW q \in old \ {buf[1]}, q < p  PROVE q \in new \ {out[1]}
    <2>1. q # p
      <3>1. p \in Nat
        BY <1>2, EditNumbers
      <3> QED  BY <1>10, <3>1
    <2> QED  BY <1>5, <1>10, <2>1
  <1> QED  BY <1>3, <1>9, <1>10 DEF old, new

\* After a replacement in the key.
LEMMA KeyElEdited ==
    ASSUME NEW s, Good(s), HasKey(s), NEW at, at = Match(s, Name.key), NEW inner, inner = From(s, at),
           NEW p \in Places(Front(inner)), p # inner[1], NEW name, name = inner[p + 1], name \in Int,
           NEW new, Replacement(new), new # Nothing,
           NEW e, e = replaceOrRemoveInRaw(s, new, <<Name.key, name>>)
    PROVE  /\ Found(e) /\ Good(e.raw) /\ HasKey(e.raw) /\ Match(e.raw, Name.key) = at
           /\ \A q \in Places(Front(inner)) \ {Len(Front(inner))} :
                 LET now == OptionValue(e.raw, Name.key).words
                 IN q < p => q \in Places(now) \ {Len(now)}
  <1> DEFINE doc   == Front(inner)
             out   == e.raw
             below == From(out, at)
  <1>1. s \in Seq(Int) /\ Readable(s) /\ HasOption(s, Name.key) /\ s[at] = 3
    BY DEF Good, HasKey, OptionValue, ValueAt
  <1>2. Container(3) /\ OptionValue(s, Name.key).type = 3
    BY DEF Container, HasKey
  <1>3. PICK docs : /\ Sound(docs) /\ Level(s, docs) /\ at # s[1] /\ at \in Nat
                    /\ OptionValue(s, Name.key).words = Front(inner) /\ Level(inner, docs)
    BY <1>1, <1>2, OptionIs
  <1>4. NamesDiffer(doc)
    BY <1>3 DEF Good, KeyNamesDiffer
  <1>5. inner[1] \in Nat /\ Len(doc) = inner[1]
    <2>1. inner \in Seq(Int) /\ inner[1] \in Nat /\ 2 <= inner[1] /\ inner[1] <= Len(inner)
      BY <1>3 DEF Level
    <2>2. 1 <= inner[1]
      BY <2>1
    <2> QED  BY <2>1, <2>2, FrontIs
  <1>6. p \in Nat /\ p < inner[1]
    BY <1>3, FoundInBuffer
  <1>7. FirstWith(inner, name, p)
    <2>1. \A q \in Places(doc) \ {inner[1]} : doc[q + 1] = inner[q + 1]
      BY <1>3, FoundInBuffer
    <2>2. p \in Places(doc) \ {inner[1]}
      OBVIOUS
    <2> HIDE DEF doc
    <2>3. ASSUME NEW q \in Places(doc), q < p  PROVE inner[q + 1] # name
      <3>1. q # inner[1] /\ q # p
        BY <1>5, <1>6, <2>3
      <3>2. doc[q + 1] # doc[p + 1]
        BY <1>4, <1>5, <2>2, <3>1 DEF NamesDiffer
      <3> QED  BY <2>1, <2>2, <3>1, <3>2
    <2> QED  BY <2>2, <2>3 DEF FirstWith, doc
  <1>8. p = Match(inner, name)
    BY <1>3, <1>7, FirstIs
  <1>9. /\ Found(e) /\ e.raw[at] = s[at] /\ ElementSize(s, at) + e.added # 0
        /\ ElementSize(inner, p) + e.added = 2 + Len(new.words)
        /\ \E ds, ms : /\ EditsHere(ds, ms, s, at, Name.key, e.raw, e.added)
                       /\ EditsHere(ds, ms, inner, p, name, From(e.raw, at), e.added)
    <2>1. Container(s[at]) /\ Match(inner, name) # inner[1]
      BY <1>1, <1>2, <1>8
    <2>2. /\ Found(e) /\ e.raw[at] = s[at] /\ ElementSize(s, at) + e.added # 0
          /\ ElementSize(inner, Match(inner, name)) + e.added = 2 + Len(new.words)
          /\ \E ds, ms :
                /\ EditsHere(ds, ms, s, at, Name.key, e.raw, e.added)
                /\ EditsHere(ds, ms, inner, Match(inner, name), name, From(e.raw, at), e.added)
      <3> HIDE DEF doc, out, below
      <3> QED  BY <1>1, <1>3, <2>1, EditTwoKeys
    <2> QED  BY <1>8, <2>2
  <1>10. PICK ds, ms : /\ EditsHere(ds, ms, s, at, Name.key, out, e.added)
                       /\ EditsHere(ds, ms, inner, p, name, below, e.added)
    BY <1>9
  <1>11. KeyEdited(ds, ms, inner, p, name, below, e.added)
    <2>1. 2 + Len(new.words) # 0
      <3>1. new.words \in Seq(Int)
        BY DEF Replacement
      <3>2. Len(new.words) \in Nat
        BY <3>1
      <3> QED  BY <3>2
    <2> QED  BY <1>9, <1>10, <2>1 DEF KeyEdited
  <1> HIDE DEF below
  <1>12. /\ NamesDiffer(Front(below))
         /\ \A q \in Places(Front(inner)) \ {Len(Front(inner))} :
               q < p => q \in Places(Front(below)) \ {Len(Front(below))}
    BY <1>4, <1>11, KeyPlacesAfter
  <1>13. out \in Seq(Int) /\ Readable(out)
    <2>1. <<Name.key, name>> \in Seq(Int) /\ Len(<<Name.key, name>>) > 0
      BY NamesAre
    <2> QED  BY <1>1, <2>1, EditsStayReadable
  <1>14. Match(out, Name.key) = at /\ at # out[1] /\ at \in Places(Front(out))
    <2>1. ElementSize(s, at) + e.added # 0
      BY <1>9
    <2> HIDE DEF out
    <2> QED  BY <1>10, <2>1, OwnKeyStays
  <1>15. HasKey(out) /\ OptionValue(out, Name.key).words = Front(below)
    <2>1. Sound(ms) /\ Level(out, ms)
      BY <1>10 DEF EditsHere
    <2>2. Container(out[at]) /\ out[at] = 3
      BY <1>1, <1>2, <1>9
    <2> HIDE DEF out
    <2>3. ValueAt(out, at).words = Front(From(out, at))
      BY <1>14, <2>1, <2>2, LevelWords
    <2>4. ValueAt(out, at).type = 3
      BY <2>2 DEF ValueAt
    <2> QED  BY <1>14, <2>3, <2>4 DEF HasKey, HasOption, OptionValue, below
  <1>16. Good(out)
    BY <1>12, <1>13, <1>15 DEF Good, KeyNamesDiffer
  <1> QED  BY <1>9, <1>12, <1>14, <1>15, <1>16

\* The element at a place where one was parsed.
LEMMA KeyElAt ==
    ASSUME NEW s, Good(s), HasKey(s), NEW pos \in KeyPlaces(s),
           NEW at, at = Match(s, Name.key), NEW inner, inner = From(s, at)
    PROVE  /\ at \in Nat /\ OptionValue(s, Name.key).words = Front(inner) /\ Len(Front(inner)) = inner[1]
           /\ \A r \in Places(Front(inner)) \ {inner[1]} : r \in Nat
           /\ \E p \in Places(Front(inner)) \ {inner[1]} :
                 /\ pos = at + 1 + p /\ inner[p + 1] = s[pos + 1] /\ s[pos + 1] \in Int
                 /\ ValueAt(s, pos) = ValueAt(inner, p)
                 /\ Element(s, pos) /\ pos \in Nat /\ 2 <= pos
           /\ \E docs : Level(s, docs)
  <1>1. /\ s \in Seq(Int) /\ HasOption(s, Name.key)
        /\ Container(OptionValue(s, Name.key).type)
    BY DEF Good, HasKey, Container
  <1>2. PICK docs : /\ Sound(docs) /\ Level(s, docs) /\ at # s[1] /\ at \in Nat
                    /\ at \in Places(Front(s))
                    /\ OptionValue(s, Name.key).words = Front(inner) /\ Level(inner, docs)
    BY <1>1, OptionIs
  <1>3. /\ inner \in Seq(Int) /\ inner[1] \in Nat /\ 2 <= inner[1] /\ inner[1] <= Len(inner)
        /\ Len(inner) \in Nat
    BY <1>2 DEF Level
  <1>4. Len(Front(inner)) = inner[1]
    <2>1. 1 <= inner[1]
      BY <1>3
    <2> QED  BY <1>3, <2>1, FrontIs
  <1>5. PICK p \in Places(Front(inner)) \ {inner[1]} : pos = at + 1 + p
    BY <1>2, <1>4 DEF KeyPlaces
  <1>6. /\ p \in Nat /\ 2 <= p /\ p < inner[1] /\ Element(inner, p)
        /\ p + ElementSize(inner, p) <= inner[1]
    BY <1>2, FoundInBuffer
  <1>7. at + 1 <= Len(s) /\ Len(s) \in Nat
    <2>1. at < s[1] /\ s[1] <= Len(s) /\ s[1] \in Nat /\ Len(s) \in Nat
      BY <1>1, <1>2, FoundInBuffer DEF Level
    <2> QED  BY <1>2, <2>1
  <1>8. Len(inner) = Len(s) - at - 1 /\ \A i \in 1..Len(s) - at - 1 : inner[i] = s[at + 1 + i]
    <2>1. s \in Seq(Int) /\ at \in Nat /\ at + 1 <= Len(s)
      BY <1>1, <1>2, <1>7
    <2>2. /\ Len(From(s, at)) = Len(s) - at - 1
          /\ \A i \in 1..Len(s) - at - 1 : From(s, at)[i] = s[at + 1 + i]
      BY ONLY <2>1, Rest
    <2> QED  BY ONLY <2>2, inner = From(s, at)
  <1> DEFINE l == inner[1]
             n == Len(s)
  <1>9. at \in Nat /\ p \in Nat /\ 2 <= p /\ p < l /\ l \in Nat /\ l <= n - at - 1 /\ n \in Nat
    BY <1>2, <1>3, <1>6, <1>7, <1>8
  <1> HIDE DEF l, n
  <1>10. /\ pos \in Nat /\ 2 <= pos /\ at + 1 + (p + 1) = pos + 1
        /\ p + 1 \in 1..Len(s) - at - 1
    <2>1. pos \in Nat /\ 2 <= pos /\ at + 1 + (p + 1) = pos + 1 /\ p + 1 \in 1..n - at - 1
      BY ONLY <1>5, <1>9
    <2> QED  BY <2>1 DEF n
  <1>11. inner[p + 1] = s[pos + 1]
    BY <1>8, <1>10
  <1>12. s[pos + 1] \in Int
    <2>1. p + 1 \in 1..Len(inner)
      BY <1>8, <1>10
    <2> QED  BY <1>3, <1>11, <2>1
  <1>13. ValueAt(s, pos) = ValueAt(inner, p) /\ Element(s, pos)
    <2> DEFINE size == ElementSize(inner, p)
    <2>1. size \in Nat /\ 2 <= size /\ p + size <= inner[1]
      BY <1>6, ElementSizes
    <2>2. size = ElementSize(inner, p)
      OBVIOUS
    <2> HIDE DEF size
    <2>3. ASSUME NEW k \in 0..size - 1  PROVE s[pos + k] = inner[p + k]
      <3>1. p + k \in 1..Len(s) - at - 1 /\ at + 1 + (p + k) = pos + k
        <4>1. size \in Nat /\ p + size <= l
          BY <2>1 DEF l
        <4>2. p + k \in 1..n - at - 1 /\ at + 1 + (p + k) = pos + k
          BY ONLY <1>5, <1>9, <4>1, k \in 0..size - 1
        <4> QED  BY <4>2 DEF n
      <3> QED  BY <1>8, <3>1
    <2>4. SameWords(inner, p, s, pos, size)
      BY <2>3 DEF SameWords
    <2>5. pos + size <= Len(s) + 1
      <3>1. size \in Nat /\ p + size <= l
        BY <2>1 DEF l
      <3>2. pos + size <= n + 1
        BY ONLY <1>5, <1>9, <3>1
      <3> QED  BY <3>2 DEF n
    <2>6. 1 <= pos
      BY <1>10
    <2> QED  BY ONLY <1>1, <1>3, <1>6, <1>10, <2>2, <2>4, <2>5, <2>6, SameElement
  <1>14. \A r \in Places(Front(inner)) \ {inner[1]} : r \in Nat
    BY <1>2, FoundInBuffer
  <1> QED  BY <1>2, <1>4, <1>5, <1>10, <1>11, <1>12, <1>13, <1>14

\* An element of the key is found, and those before it stay where they are.
LEMMA KeyElIsSafe ==
    ASSUME NEW s, Good(s), HasKey(s), NEW pos \in KeyPlaces(s), NEW r, r = normalizeKeyEl(s, pos)
    PROVE  /\ Safe(r)
           /\ r.is = "prepared" => /\ HasKey(r.spec)
                                   /\ \A q \in KeyPlaces(s) : q < pos => q \in KeyPlaces(r.spec)
  <1> DEFINE n == Truncated(Float(ValueAt(s, pos)))
  <1>1. \/ r = Refused
        \/ r = Prepared(s)
        \/ ValueAt(s, pos).type \in {1, 18} /\ r = Replaced(s, Int32(n), <<Name.key, s[pos + 1]>>)
    BY DEF normalizeKeyEl
  <1>2. CASE r = Refused
    BY <1>2, RefusedIsSafe DEF Refused
  <1>3. CASE r = Prepared(s)
    BY <1>3, PreparedIsSafe
  <1>4. CASE ValueAt(s, pos).type \in {1, 18} /\ r = Replaced(s, Int32(n), <<Name.key, s[pos + 1]>>)
    <2> DEFINE at    == Match(s, Name.key)
               inner == From(s, at)
               doc   == Front(inner)
               name  == s[pos + 1]
    <2>1. /\ at \in Nat /\ OptionValue(s, Name.key).words = doc /\ Len(doc) = inner[1]
          /\ \A k \in Places(doc) \ {inner[1]} : k \in Nat
          /\ \E p \in Places(doc) \ {inner[1]} :
                /\ pos = at + 1 + p /\ inner[p + 1] = name /\ name \in Int
                /\ ValueAt(s, pos) = ValueAt(inner, p)
                /\ Element(s, pos) /\ pos \in Nat /\ 2 <= pos
          /\ \E docs : Level(s, docs)
      BY KeyElAt
    <2>2. PICK p \in Places(doc) \ {inner[1]} :
             /\ pos = at + 1 + p /\ inner[p + 1] = name /\ name \in Int
             /\ Element(s, pos) /\ pos \in Nat /\ 2 <= pos
      BY <2>1
    <2>3. n \in Int
      <3>1. PICK docs : Level(s, docs)
        BY <2>1
      <3>2. s[pos] \in {1, 18}
        BY <1>4 DEF ValueAt
      <3> HIDE DEF at, inner, doc, name
      <3> QED  BY <2>2, <3>1, <3>2, NumberIs
    <2> DEFINE new == Int32(n)
               e   == replaceOrRemoveInRaw(s, new, <<Name.key, name>>)
    <2> HIDE DEF n
    <2>4. Replacement(new) /\ new # Nothing
      BY <2>3, Int32Replaces
    <2>5. at = Match(s, Name.key) /\ inner = From(s, at) /\ name = inner[p + 1]
          /\ p \in Places(Front(inner)) /\ p # inner[1]
      BY <2>2
    <2>6. e = replaceOrRemoveInRaw(s, new, <<Name.key, name>>) /\ name \in Int
      BY <2>2
    <2>7. r = Replaced(s, new, <<Name.key, name>>)
      BY <1>4
    <2>8. doc = Front(inner)
      OBVIOUS
    <2> HIDE DEF at, inner, name, new, e, doc
    <2>9. /\ Found(e) /\ Good(e.raw) /\ HasKey(e.raw) /\ Match(e.raw, Name.key) = at
          /\ \A q \in Places(Front(inner)) \ {Len(Front(inner))} :
                LET now == OptionValue(e.raw, Name.key).words
                IN q < p => q \in Places(now) \ {Len(now)}
      BY <2>4, <2>5, <2>6, KeyElEdited
    <2>10. r = Prepared(e.raw) /\ Safe(r)
      BY <2>6, <2>7, <2>9, ReplacedIsSafe
    <2>11. r.spec = e.raw
      BY <2>10 DEF Prepared
    <2>12. ASSUME NEW q \in KeyPlaces(s), q < pos  PROVE q \in KeyPlaces(e.raw)
      <3>1. PICK k \in Places(doc) \ {Len(doc)} : q = at + 1 + k
        BY <2>1, <2>5 DEF KeyPlaces
      <3>2. k \in Nat /\ p \in Nat
        BY <2>1, <2>2, <3>1
      <3>3. k < p
        BY <2>1, <2>2, <2>12, <3>1, <3>2
      <3> DEFINE now == OptionValue(e.raw, Name.key).words
      <3>4. k \in Places(now) \ {Len(now)}
        BY <2>8, <2>9, <3>1, <3>3
      <3> QED  BY <2>9, <3>1, <3>4 DEF KeyPlaces
    <2> QED  BY <2>9, <2>10, <2>11, <2>12
  <1> QED  BY <1>1, <1>2, <1>3, <1>4

-----------------------------------------------------------------------------
\* The last of the places that are left.
LEMMA NextKeyElIs ==
    ASSUME NEW s, Good(s), HasKey(s), NEW places \in SUBSET KeyPlaces(s), places # {}
    PROVE  /\ nextKeyEl(places) \in places
           /\ \A q \in places \ {nextKeyEl(places)} : q < nextKeyEl(places)
  <1>1. ASSUME NEW pos \in places  PROVE pos \in Nat /\ pos <= Len(s)
    <2> DEFINE at    == Match(s, Name.key)
               inner == From(s, at)
    <2>1. /\ \E p \in Places(Front(inner)) \ {inner[1]} :
                /\ pos = at + 1 + p /\ inner[p + 1] = s[pos + 1] /\ s[pos + 1] \in Int
                /\ ValueAt(s, pos) = ValueAt(inner, p)
                /\ Element(s, pos) /\ pos \in Nat /\ 2 <= pos
          /\ \E docs : Level(s, docs)
      BY KeyElAt
    <2> HIDE DEF at, inner
    <2>2. Element(s, pos) /\ pos \in Nat /\ Len(s) \in Nat
      BY <2>1 DEF Level
    <2> QED  BY <2>2 DEF Element
  <1> DEFINE far == {Len(s) - q : q \in places}
  <1>2. Len(s) \in Nat
    BY DEF Good
  <1>3. far \in SUBSET Nat /\ far # {}
    BY <1>1, <1>2
  <1>4. PICK m \in far : \A j \in far : m <= j
    <2> HIDE DEF far
    <2> QED  BY <1>3, LeastNat
  <1>5. PICK pos \in places : m = Len(s) - pos
    BY <1>4
  <1>6. ASSUME NEW q \in places  PROVE pos >= q
    <2>1. Len(s) - pos <= Len(s) - q
      BY <1>4, <1>5
    <2> QED  BY <1>1, <1>2, <2>1
  <1> DEFINE Last(x) == x \in places /\ \A q \in places : x >= q
  <1>7. \E x \in places : \A q \in places : x >= q
    BY <1>6
  <1>8. nextKeyEl(places) = CHOOSE x \in places : \A q \in places : x >= q
    BY DEF nextKeyEl, Max
  <1>9. nextKeyEl(places) \in places /\ \A q \in places : nextKeyEl(places) >= q
    BY <1>7, <1>8
  <1> QED  BY <1>1, <1>9

-----------------------------------------------------------------------------
\* Both specifications can be read at every step; the places that are left are
\* those of elements of the key.
PrepareInv ==
    /\ spec \in [Sides -> Seq(Int)] /\ \A x \in Sides : Good(spec[x])
    /\ side \in Sides
    /\ pc = "keyEls" => HasKey(spec[side]) /\ keyEls \subseteq KeyPlaces(spec[side])
    /\ result # Outcome("panic")

\* A step that is taken and is safe.
LEMMA TakeKeeps ==
    ASSUME PrepareInv, NEW r, Safe(r), NEW next, Take(r, next)
    PROVE  /\ spec' \in [Sides -> Seq(Int)] /\ \A x \in Sides : Good(spec'[x])
           /\ side' \in Sides /\ result' # Outcome("panic")
           /\ pc' # "done" => r.is = "prepared" /\ pc' = next /\ spec'[side'] = r.spec
  <1>1. CASE r.is = "prepared"
    <2>1. /\ spec' = [spec EXCEPT ![side] = r.spec] /\ pc' = next /\ side' = side /\ result' = result
          /\ Good(r.spec) /\ r.spec \in Seq(Int)
      BY <1>1 DEF Take, Safe, Good
    <2>2. spec \in [Sides -> Seq(Int)] /\ side \in Sides /\ \A x \in Sides : Good(spec[x])
      BY DEF PrepareInv
    <2>3. /\ spec' \in [Sides -> Seq(Int)] /\ spec'[side] = r.spec
          /\ \A x \in Sides : x # side => spec'[x] = spec[x]
      BY <2>1, <2>2
    <2>4. ASSUME NEW x \in Sides  PROVE Good(spec'[x])
      <3>1. CASE x = side
        BY ONLY <2>1, <2>3, <3>1
      <3>2. CASE x # side
        BY ONLY <2>2, <2>3, <3>2, x \in Sides
      <3> QED  BY <3>1, <3>2
    <2> QED  BY <1>1, <2>1, <2>2, <2>3, <2>4 DEF PrepareInv
  <1>2. CASE r.is # "prepared"
    <2>1. r.is = "error"
      BY <1>2 DEF Safe
    <2>2. pc' = "done" /\ result' = Outcome("error") /\ spec' = spec /\ side' = side
      BY <1>2, <2>1 DEF Take
    <2>3. Outcome("error") # Outcome("panic")
      BY DEF Outcome
    <2> QED  BY <2>2, <2>3 DEF PrepareInv
  <1> QED  BY <1>1, <1>2

LEMMA PrepareBegins ==
    ASSUME PrepareInit
    PROVE  PrepareInv
  <1>1. \A s \in Stored : Good(s)
    BY StoredAssumption DEF Good
  <1>2. spec \in [Sides -> Stored] /\ side = "A" /\ pc = "modernize" /\ result = Outcome("none")
    BY DEF PrepareInit
  <1>3. Outcome("none") # Outcome("panic")
    BY DEF Outcome
  <1>4. \A x \in Sides : Good(spec[x])
    BY <1>1, <1>2
  <1>5. spec \in [Sides -> Seq(Int)]
    BY <1>2, <1>4 DEF Good
  <1> QED  BY <1>2, <1>3, <1>4, <1>5 DEF PrepareInv, Sides

LEMMA PrepareKeeps ==
    ASSUME PrepareInv, [Prepare]_prepareVars
    PROVE  PrepareInv'
  <1> DEFINE s == spec[side]
  <1>1. Good(s)
    BY DEF PrepareInv
  <1>2. CASE Modernize
    <2>1. Safe(ModernizeSpec(s)) /\ Take(ModernizeSpec(s), "ttl")
      BY <1>1, <1>2, ModernizeIsSafe DEF Modernize
    <2>2. /\ spec' \in [Sides -> Seq(Int)] /\ \A x \in Sides : Good(spec'[x])
          /\ side' \in Sides /\ result' # Outcome("panic") /\ pc' \in {"done", "ttl"}
      BY <2>1, TakeKeeps
    <2> QED  BY <2>2 DEF PrepareInv
  <1>3. CASE NormalizeTypes
    <2>1. PICK r \in {convertToInt32(s, Name.expireAfterSeconds, MaxInt32),
                     convertToInt32(s, Name.bits, 32), convertSparseSpecToBool(s)} :
             \E next \in {"bits", "sparse", "ignore"} : Take(r, next)
      BY <1>3 DEF NormalizeTypes
    <2>2. Safe(r)
      BY <1>1, NamesAre, ToInt32IsSafe, ToBoolIsSafe
    <2>3. /\ spec' \in [Sides -> Seq(Int)] /\ \A x \in Sides : Good(spec'[x])
          /\ side' \in Sides /\ result' # Outcome("panic") /\ pc' \in {"done", "bits", "sparse", "ignore"}
      BY <2>1, <2>2, TakeKeeps
    <2> QED  BY <2>3 DEF PrepareInv
  <1>4. ASSUME NEW field \in optsToIgnore, RemoveIgnored(field)  PROVE PrepareInv'
    <2>1. /\ Safe(Removed(s, field))
          /\ \E next \in {"key", "ignore"} : Take(Removed(s, field), next)
      BY <1>1, <1>4, RemovedIsSafe DEF RemoveIgnored
    <2>2. /\ spec' \in [Sides -> Seq(Int)] /\ \A x \in Sides : Good(spec'[x])
          /\ side' \in Sides /\ result' # Outcome("panic") /\ pc' \in {"done", "key", "ignore"}
      BY <2>1, TakeKeeps
    <2> QED  BY <2>2 DEF PrepareInv
  <1>5. CASE ParseKey
    <2>1. CASE HasKey(s)
      <3>1. keyEls' = KeyPlaces(s) /\ Take(Prepared(s), "keyEls")
        BY <1>5, <2>1 DEF ParseKey
      <3>2. Safe(Prepared(s)) /\ Prepared(s).spec = s
        BY <1>1, PreparedIsSafe
      <3>3. /\ spec' \in [Sides -> Seq(Int)] /\ \A x \in Sides : Good(spec'[x])
            /\ side' \in Sides /\ result' # Outcome("panic")
            /\ pc' # "done" => spec'[side'] = s
        BY <3>1, <3>2, TakeKeeps
      <3> QED  BY <2>1, <3>1, <3>3 DEF PrepareInv
    <2>2. CASE ~HasKey(s)
      <3>1. Take(Refused, "done")
        BY <1>5, <2>2 DEF ParseKey
      <3>2. /\ spec' \in [Sides -> Seq(Int)] /\ \A x \in Sides : Good(spec'[x])
            /\ side' \in Sides /\ result' # Outcome("panic") /\ pc' = "done"
        BY <3>1, RefusedIsSafe, TakeKeeps
      <3> QED  BY <3>2 DEF PrepareInv
    <2> QED  BY <2>1, <2>2
  <1>6. CASE NormalizeKeyEl
    <2> DEFINE pos == nextKeyEl(keyEls)
               r   == normalizeKeyEl(s, pos)
    <2>1. /\ HasKey(s) /\ keyEls \in SUBSET KeyPlaces(s) /\ keyEls # {}
          /\ keyEls' = keyEls \ {pos} /\ Take(r, "keyEls")
      BY <1>6 DEF NormalizeKeyEl, PrepareInv
    <2>2. pos \in keyEls /\ \A q \in keyEls \ {pos} : q < pos
      <3> HIDE DEF s
      <3> QED  BY <1>1, <2>1, NextKeyElIs
    <2>3. pos \in KeyPlaces(s) /\ r = normalizeKeyEl(s, pos)
      BY <2>1, <2>2
    <2> HIDE DEF pos, r
    <2>4. /\ Safe(r)
          /\ r.is = "prepared" => /\ HasKey(r.spec)
                                  /\ \A q \in KeyPlaces(s) : q < pos => q \in KeyPlaces(r.spec)
      <3> HIDE DEF s
      <3> QED  BY <1>1, <2>1, <2>3, KeyElIsSafe
    <2>5. /\ spec' \in [Sides -> Seq(Int)] /\ \A x \in Sides : Good(spec'[x])
          /\ side' \in Sides /\ result' # Outcome("panic")
          /\ pc' # "done" => r.is = "prepared" /\ spec'[side'] = r.spec
      BY <2>1, <2>4, TakeKeeps
    <2>6. ASSUME r.is = "prepared", spec'[side'] = r.spec
          PROVE  HasKey(spec'[side']) /\ keyEls' \subseteq KeyPlaces(spec'[side'])
      BY <2>1, <2>2, <2>4, <2>6
    <2> QED  BY <2>5, <2>6 DEF PrepareInv
  <1>7. CASE SpecBNext
    BY <1>7 DEF SpecBNext, PrepareInv, Sides
  <1>8. CASE UNCHANGED prepareVars
    BY <1>8 DEF prepareVars, PrepareInv
  <1> QED  BY <1>2, <1>3, <1>4, <1>5, <1>6, <1>7, <1>8 DEF Prepare

\* The elements of a key that were parsed before the first of them was replaced are
\* elements of the key until their turn comes, each in its place, because the last
\* comes first; and whatever is prepared, every element that was looked up is found
\* again by the edit that replaces it (prepareIndexSpecForEqualityCheck).
THEOREM KeyElementsStay == PrepareSpec => []KeyElsInPlace
  <1>1. PrepareInit => PrepareInv
    BY PrepareBegins
  <1>2. PrepareInv /\ [Prepare]_prepareVars => PrepareInv'
    BY PrepareKeeps
  <1>3. PrepareInv => KeyElsInPlace
    BY DEF PrepareInv, KeyElsInPlace
  <1> QED  BY <1>1, <1>2, <1>3, PTL DEF PrepareSpec
=============================================================================
