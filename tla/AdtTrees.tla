------------------------------ MODULE AdtTrees ------------------------------
(***************************************************************************)
(* The two trees that actor states are kept in: HAMT and AMT.              *)
(***************************************************************************)
EXTENDS ActorBase, FiniteSets, TLC

(***************************************************************************)
(* The hash map of the state tree (core/storage/hamt) and its readers      *)
(* (adt::Map, light_reader::HamtWalk).  A node is a function from the      *)
(* indices in use to items: a leaf, a node in memory ("ptr") or the CID of *)
(* a stored node ("cid").  The store is addressed by content, so a CID is  *)
(* the encoded node itself.  SHA-256 of a key is a constant sequence of    *)
(* bits.  The store may fail: a call reads only as many levels as it can.  *)
(***************************************************************************)

CONSTANTS
  HmKeys,       \* the keys: numbers, ordered as their bytes are
  HmHash,       \* the bits of a key's hash
  HmBitWidth,   \* bit_width_ of a map of version 3 actors
  kDefaultBitWidth,
  HmValues,
  HmReaches,    \* how many levels of nodes the store serves in a call
  HmPuts,       \* how many nodes the store takes in a flush
  HmMaxCalls

kLeafMax == 3

\* No two keys share all the bits that are used, for no two hashes collide:
\* kMaxDepth is out of reach.
ASSUME HamtAssumption ==
  \A k, l \in HmKeys, w \in {HmBitWidth, kDefaultBitWidth} :
    LET used == Len(HmHash[k]) - (Len(HmHash[k]) % w) IN
    k # l => SubSeq(HmHash[k], 1, used) # SubSeq(HmHash[l], 1, used)

VARIABLES
  hmRoot,   \* root_
  hmV3,     \* the store's actor_version is at least 3
  hmMap,    \* the map that the calls so far make
  hmSaved,  \* what was flushed: the CID, its map, and the version it is of
  hmTold,   \* the last call's answer was the reference map's
  hmCalls

hmVars == <<hmRoot, hmV3, hmMap, hmSaved, hmTold, hmCalls>>

---------------------------------------------------------------------------
(* Items, leaves and the encoding of a node.                               *)

Leaf(pairs) == [kind |-> "leaf", leaf |-> pairs]
Ptr(items) == [kind |-> "ptr", items |-> items]
CidOf(encoded) == [kind |-> "cid", node |-> encoded]

leafFind(leaf, key) == SelectInSeq(leaf, LAMBDA p : p.key = key)

leafInsert(leaf, pair) ==
  SelectSeq(leaf, LAMBDA p : p.key < pair.key) \o <<pair>>
    \o SelectSeq(leaf, LAMBDA p : p.key >= pair.key)

\* Version 2 wraps every item in a map.
encodeNode(items, v3) ==
  LET used == Ascending(DOMAIN items) IN
  [bits |-> DOMAIN items,
   list |-> [i \in DOMAIN used |-> [map |-> ~v3, item |-> items[used[i]]]]]

\* The items, and the versions they are of: none, one, or an inconsistent two.
decodeNode(encoded) ==
  LET used == Ascending(encoded.bits) IN
  [items |-> [j \in encoded.bits |->
                encoded.list[CHOOSE i \in DOMAIN used : used[i] = j].item],
   v3 |-> {~encoded.list[i].map : i \in DOMAIN used}]

\* The last n - 1 of the indices of a key's hash.
Indices(key, v3) ==
  LET bits == IF v3 THEN HmBitWidth ELSE kDefaultBitWidth
      hash == HmHash[key]
      index(i) == SumOf([b \in 1..bits |-> hash[(i - 1) * bits + b] * 2^(bits - b)])
  IN  [i \in 1..(Len(hash) \div bits) |-> index(i)]
keyToIndices(key, n, v3) ==
  LET all == Indices(key, v3) IN SubSeq(all, Len(all) - n + 2, Len(all))

---------------------------------------------------------------------------
(* The map.                                                                *)

\* loadItem, with whether the store answers.
loadItem(item, v3, up) ==
  LET node == decodeNode(item.node) IN
  IF item.kind # "cid" THEN [err |-> "", item |-> item]
  ELSE IF ~up THEN [err |-> "store", item |-> item]
  ELSE IF ~(node.v3 \subseteq {v3}) THEN [err |-> "kInconsistent", item |-> item]
  ELSE [err |-> "", item |-> Ptr(node.items)]

RECURSIVE hmSet(_, _, _, _, _, _)
hmSet(items, indices, key, value, v3, reach) ==
  LET index == Head(indices)
      pair == [key |-> key, value |-> value]
      loaded == loadItem(items[index], v3, reach > 0)
      below == hmSet(loaded.item.items, Tail(indices), key, value, v3, reach - 1)
      leaf == loaded.item.leaf
      child == hmSet(Empty, Tail(indices), key, value, v3, reach).items
      move(node, p) ==
        hmSet(node, keyToIndices(p.key, Len(indices), v3), p.key, p.value, v3, reach).items
      found == leafFind(leaf, key)
      now(item) == With(items, index, item)
      ok(item) == [err |-> "", items |-> now(item)]
  IN  IF indices = <<>> THEN [err |-> "kMaxDepth", items |-> items]
      ELSE IF index \notin DOMAIN items THEN ok(Leaf(<<pair>>))
      ELSE IF loaded.err # "" THEN [err |-> loaded.err, items |-> items]
      ELSE IF loaded.item.kind = "ptr"
      THEN [err |-> below.err, items |-> now(Ptr(below.items))]
      ELSE IF found # 0 THEN ok(Leaf([leaf EXCEPT ![found].value = value]))
      ELSE IF Len(leaf) < kLeafMax THEN ok(Leaf(leafInsert(leaf, pair)))
      ELSE ok(Ptr(FoldLeft(move, child, leaf)))

\* A node that a remove left with few pairs becomes a leaf again.
cleanShardSingle(item) ==
  LET only == item.items[CHOOSE i \in DOMAIN item.items : TRUE] IN
  IF Cardinality(DOMAIN item.items) = 1 /\ only.kind = "leaf" THEN only ELSE item
cleanShard(item) ==
  LET n == Cardinality(DOMAIN item.items)
      only == item.items[CHOOSE i \in DOMAIN item.items : TRUE]
      leaves == \A i \in DOMAIN item.items : item.items[i].kind = "leaf"
      pairs == FoldLeft(LAMBDA a, i : FoldLeft(leafInsert, a, item.items[i].leaf),
                        <<>>, Ascending(DOMAIN item.items))
  IN  IF n = 1 THEN IF only.kind = "leaf" THEN only ELSE item
      ELSE IF n <= kLeafMax /\ leaves /\ Len(pairs) <= kLeafMax THEN Leaf(pairs)
      ELSE item

RECURSIVE hmRemove(_, _, _, _, _)
hmRemove(items, indices, key, v3, reach) ==
  LET index == Head(indices)
      loaded == loadItem(items[index], v3, reach > 0)
      below == hmRemove(loaded.item.items, Tail(indices), key, v3, reach - 1)
      leaf == loaded.item.leaf
      now(item) == With(items, index, item)
  IN  IF indices = <<>> THEN [err |-> "kMaxDepth", items |-> items]
      ELSE IF index \notin DOMAIN items THEN [err |-> "kNotFound", items |-> items]
      ELSE IF loaded.err # "" THEN [err |-> loaded.err, items |-> items]
      ELSE IF loaded.item.kind = "ptr"
      THEN [err |-> below.err,
            items |-> now(IF below.err = "" THEN cleanShard(Ptr(below.items))
                          ELSE Ptr(below.items))]
      ELSE IF leafFind(leaf, key) = 0 THEN [err |-> "kNotFound", items |-> items]
      ELSE IF Len(leaf) = 1 THEN [err |-> "", items |-> Without(items, index)]
      ELSE [err |-> "", items |-> now(Leaf(SelectSeq(leaf, LAMBDA p : p.key # key)))]

\* get: the value found, and the nodes as loaded on the way.
RECURSIVE hmGet(_, _, _, _, _)
hmGet(items, indices, key, v3, reach) ==
  LET index == Head(indices)
      loaded == loadItem(items[index], v3, reach > 0)
      below == hmGet(loaded.item.items, Tail(indices), key, v3, reach - 1)
      found == leafFind(loaded.item.leaf, key)
  IN  IF indices = <<>> THEN [err |-> "kMaxDepth", items |-> items, value |-> 0]
      ELSE IF index \notin DOMAIN items
      THEN [err |-> "kNotFound", items |-> items, value |-> 0]
      ELSE IF loaded.err # "" THEN [err |-> loaded.err, items |-> items, value |-> 0]
      ELSE IF loaded.item.kind = "ptr"
      THEN [below EXCEPT !.items = With(items, index, Ptr(below.items))]
      ELSE IF found = 0 THEN [err |-> "kNotFound", items |-> items, value |-> 0]
      ELSE [err |-> "", items |-> items, value |-> loaded.item.leaf[found].value]

\* flush: children before parents, while the store takes them.
RECURSIVE hmFlush(_, _, _)
hmFlush(item, v3, puts) ==
  LET step(state, i) ==
        LET done == hmFlush(state.items[i], v3, state.puts) IN
        IF ~state.ok THEN state
        ELSE [ok |-> done.ok, puts |-> done.puts,
              items |-> With(state.items, i, done.item)]
      kids == FoldLeft(step, [ok |-> TRUE, puts |-> puts, items |-> item.items],
                       Ascending(DOMAIN item.items))
  IN  IF item.kind # "ptr" THEN [ok |-> TRUE, puts |-> puts, item |-> item]
      ELSE IF ~kids.ok \/ kids.puts = 0
      THEN [ok |-> FALSE, puts |-> 0, item |-> Ptr(kids.items)]
      ELSE [ok |-> TRUE, puts |-> kids.puts - 1,
            item |-> CidOf(encodeNode(kids.items, v3))]

\* visit: the pairs in the order met.
RECURSIVE hmVisit(_, _)
hmVisit(item, v3) ==
  LET loaded == loadItem(item, v3, TRUE)
      step(state, i) ==
        LET below == hmVisit(loaded.item.items[i], v3) IN
        IF state.err # "" THEN state
        ELSE [err |-> below.err, pairs |-> state.pairs \o below.pairs]
  IN  IF loaded.err # "" THEN [err |-> loaded.err, pairs |-> <<>>]
      ELSE IF loaded.item.kind = "leaf" THEN [err |-> "", pairs |-> loaded.item.leaf]
      ELSE FoldLeft(step, [err |-> "", pairs |-> <<>>],
                    Ascending(DOMAIN loaded.item.items))

\* HamtWalk: the stored nodes in the order their CIDs are met, of both
\* versions alike.
RECURSIVE hamtWalk(_)
hamtWalk(cids) ==
  LET list == Head(cids).node.list
      of(kind) == SelectSeq(list, LAMBDA e : e.item.kind = kind)
      leaves == [i \in DOMAIN of("leaf") |-> of("leaf")[i].item.leaf]
      links == [i \in DOMAIN of("cid") |-> of("cid")[i].item]
  IN  IF cids = <<>> THEN <<>>
      ELSE FlattenSeq(leaves) \o hamtWalk(Tail(cids) \o links)

---------------------------------------------------------------------------
(* A caller's calls.                                                       *)

NotSaved == [is |-> FALSE, cid |-> Ptr(Empty), map |-> Empty, v3 |-> FALSE]

\* The store holds nodes of the other version: every call must fail.
Alien == hmSaved.is /\ hmSaved.v3 # hmV3 /\ hmRoot = hmSaved.cid /\ hmSaved.map # Empty

Ready(reach) == loadItem(hmRoot, hmV3, reach > 0)

\* A call of one of the three, given what it made of the root's items.
Answer(reach, done, good, map) ==
  LET ready == Ready(reach)
      err == IF ready.err # "" THEN ready.err ELSE done.err
  IN  /\ hmRoot' = IF ready.err # "" THEN hmRoot ELSE Ptr(done.items)
      /\ hmTold' = CASE err = "" -> good /\ ~Alien
                     [] err = "store" -> TRUE
                     [] err = "kInconsistent" -> Alien
                     [] err = "kNotFound" -> map = hmMap /\ ~good
                     [] OTHER -> FALSE
      /\ hmMap' = IF err = "" THEN map ELSE hmMap
      /\ hmCalls' = hmCalls + 1
      /\ UNCHANGED <<hmV3, hmSaved>>

MapSet(key, value, reach) ==
  Answer(reach,
         hmSet(Ready(reach).item.items, Indices(key, hmV3), key, value, hmV3, reach - 1),
         TRUE, With(hmMap, key, value))

MapRemove(key, reach) ==
  Answer(reach, hmRemove(Ready(reach).item.items, Indices(key, hmV3), key, hmV3, reach - 1),
         key \in DOMAIN hmMap, Without(hmMap, key))

MapGet(key, reach) ==
  LET done == hmGet(Ready(reach).item.items, Indices(key, hmV3), key, hmV3, reach - 1) IN
  Answer(reach, done,
         key \in DOMAIN hmMap /\ (Ready(reach).err = "" => done.value = GetOr(hmMap, key, 0)),
         hmMap)

MapFlush(puts) ==
  LET done == hmFlush(hmRoot, hmV3, puts) IN
  /\ hmRoot.kind = "ptr"
  /\ hmRoot' = done.item
  /\ hmSaved' = IF done.ok
                THEN [is |-> TRUE, cid |-> done.item, map |-> hmMap, v3 |-> hmV3]
                ELSE hmSaved
  /\ hmTold' = TRUE
  /\ hmCalls' = hmCalls + 1
  /\ UNCHANGED <<hmV3, hmMap>>

\* A new Hamt of the flushed root, over a store of either actor version.
MapOpen(v3) ==
  /\ hmSaved.is
  /\ hmRoot' = hmSaved.cid /\ hmMap' = hmSaved.map /\ hmV3' = v3
  /\ hmTold' = TRUE
  /\ hmCalls' = hmCalls + 1
  /\ UNCHANGED hmSaved

HmInit ==
  /\ hmRoot = Ptr(Empty) /\ hmV3 \in BOOLEAN /\ hmMap = Empty
  /\ hmSaved = NotSaved /\ hmTold = TRUE /\ hmCalls = 0

HmNext ==
  /\ hmCalls < HmMaxCalls
  /\ \/ \E key \in HmKeys, reach \in HmReaches :
          \/ \E value \in HmValues : MapSet(key, value, reach)
          \/ MapRemove(key, reach)
          \/ MapGet(key, reach)
     \/ \E puts \in HmPuts : MapFlush(puts)
     \/ \E v3 \in BOOLEAN : MapOpen(v3)

HmSpec == HmInit /\ [][HmNext]_hmVars

---------------------------------------------------------------------------
(* Properties.                                                             *)

HmTypeOK ==
  /\ hmRoot.kind \in {"ptr", "cid"} /\ hmV3 \in BOOLEAN
  /\ DOMAIN hmMap \subseteq HmKeys /\ hmCalls \in 0..HmMaxCalls

\* The map built by setting the pairs one after another.
Built(map, v3) ==
  FoldLeft(LAMBDA items, k : hmSet(items, Indices(k, v3), k, map[k], v3, 0).items,
           Empty, Ascending(DOMAIN map))

\* Whatever was set, removed, flushed (in part), dropped and loaded before,
\* and wherever the store failed: every answer is the reference map's; visit
\* meets each pair once; the node that flush writes depends on the pairs
\* alone, so nodes that reached the same state by other ways agree on its
\* CID; and what was flushed reads back, with HamtWalk too.
HamtIsMap ==
  LET seen == hmVisit(hmRoot, hmV3)
      pairs(s) == {<<s[i].key, s[i].value>> : i \in DOMAIN s}
      whole == {<<k, hmMap[k]>> : k \in DOMAIN hmMap}
      walked == hamtWalk(<<hmSaved.cid>>)
  IN  /\ hmTold
      /\ ~Alien => /\ seen.err = ""
                   /\ Len(seen.pairs) = Cardinality(whole) /\ pairs(seen.pairs) = whole
                   /\ hmFlush(hmRoot, hmV3, 99).item
                        = hmFlush(Ptr(Built(hmMap, hmV3)), hmV3, 99).item
      /\ hmSaved.is => /\ Len(walked) = Cardinality(DOMAIN hmSaved.map)
                       /\ pairs(walked) = {<<k, hmSaved.map[k]>> : k \in DOMAIN hmSaved.map}

-----------------------------------------------------------------------------
(***************************************************************************)
(* The array of the state tree (core/storage/amt) and its readers          *)
(* (adt::Array, light_reader::AmtWalk).  A node holds values, or links to  *)
(* nodes: in memory ("ptr") or stored ("cid", which is the encoded node).  *)
(* Keys and shifts have the width of AmWord bits: a shift by more than the *)
(* width is taken modulo the width, as the processor does.  The store may  *)
(* fail: a call reads only as many levels as it can.                       *)
(***************************************************************************)

CONSTANTS
  AmKeys, AmValues,
  AmWord,       \* the bits of a uint64_t
  AmBits,       \* bits_ of an array of version 3 actors
  kDefaultBits,
  AmReaches,    \* how many levels of nodes the store serves in a call
  AmPuts,       \* how many nodes the store takes in a flush
  AmMaxCalls

ASSUME AmtAssumption ==
  /\ AmKeys \subseteq 0..(2^AmWord - 1)
  /\ AmBits \in 1..AmWord /\ kDefaultBits \in 1..AmWord

VARIABLES
  amRoot,    \* root_: a root in memory, or the CID of one
  amV3,      \* the store's actor_version is at least 3
  amMap,     \* the array that the calls so far make
  amSaved,   \* what was flushed: the CID and its array
  amTold,    \* the last call's answer was the reference's
  amTorn,    \* the store failed in a call that changed the root
  amHangs,   \* a set that never returns
  amCalls

amVars == <<amRoot, amV3, amMap, amSaved, amTold, amTorn, amHangs, amCalls>>

kMaxIndex == 2^AmWord - 2

---------------------------------------------------------------------------
(* Widths.                                                                 *)

amBitsOf(v3) == IF v3 THEN AmBits ELSE kDefaultBits
bitsBytes(v3) == IF amBitsOf(v3) <= 3 THEN 1 ELSE 2^(amBitsOf(v3) - 3)
maskAt(height, v3) == 2^((amBitsOf(v3) * height) % AmWord)
maxAt(height, v3) == maskAt(height + 1, v3)

---------------------------------------------------------------------------
(* Nodes and their encoding.                                               *)

AmValuesOf(items, bytes) == [links |-> FALSE, items |-> items, bytes |-> bytes]
AmLinks(items, bytes) == [links |-> TRUE, items |-> items, bytes |-> bytes]
NoNode == AmValuesOf(Empty, 0)
Memory(node) == [kind |-> "ptr", node |-> node]
Stored_(encoded) == [kind |-> "cid", node |-> encoded]

encodeAmtNode(node) ==
  LET used == Ascending(DOMAIN node.items)
      list == [i \in DOMAIN used |-> node.items[used[i]]]
  IN  [bits |-> DOMAIN node.items, bytes |-> node.bytes,
       links |-> IF node.links THEN list ELSE <<>>,
       values |-> IF node.links THEN <<>> ELSE list]

\* A node without links is one of values.
decodeAmtNode(encoded) ==
  LET used == Ascending(encoded.bits)
      of(list) == [j \in encoded.bits |-> list[CHOOSE i \in DOMAIN used : used[i] = j]]
  IN  IF encoded.links # <<>> THEN AmLinks(of(encoded.links), encoded.bytes)
      ELSE AmValuesOf(of(encoded.values), encoded.bytes)

\* Root: version 3 writes its bits as well.
NewRoot(v3) ==
  [bits |-> IF v3 THEN {amBitsOf(v3)} ELSE {}, height |-> 0, count |-> 0,
   node |-> AmValuesOf(Empty, bitsBytes(v3))]
encodeRoot(root) == [root EXCEPT !.node = encodeAmtNode(root.node)]
decodeRoot(encoded) == [encoded EXCEPT !.node = decodeAmtNode(encoded.node)]

\* loadLink: the parent as it is afterwards, and the child.
loadLink(parent, index, create, v3, up) ==
  LET links == IF ~parent.links /\ parent.items = Empty
               THEN [parent EXCEPT !.links = TRUE] ELSE parent
      new == AmValuesOf(Empty, bitsBytes(v3))
      link == links.items[index]
      node == decodeAmtNode(link.node)
      holding(child) == [links EXCEPT !.items = With(@, index, Memory(child))]
  IN  IF index \notin DOMAIN links.items
      THEN IF create THEN [err |-> "", parent |-> holding(new), child |-> new]
           ELSE [err |-> "kNotFound", parent |-> links, child |-> NoNode]
      ELSE IF link.kind = "ptr" THEN [err |-> "", parent |-> links, child |-> link.node]
      ELSE IF ~up THEN [err |-> "store", parent |-> links, child |-> NoNode]
      ELSE IF node.bytes # bitsBytes(v3)
      THEN [err |-> "kRootBitsWrong", parent |-> links, child |-> NoNode]
      ELSE [err |-> "", parent |-> holding(node), child |-> node]

Under(loaded, index, child) ==
  [loaded.parent EXCEPT !.items = With(@, index, Memory(child))]

---------------------------------------------------------------------------
(* The array.                                                              *)

RECURSIVE amSet(_, _, _, _, _, _)
amSet(node, height, key, value, v3, reach) ==
  LET mask == maskAt(height, v3)
      index == key \div mask
      loaded == loadLink(node, index, TRUE, v3, reach > 0)
      below == amSet(loaded.child, height - 1, key % mask, value, v3, reach - 1)
  IN  IF height = 0
      THEN [err |-> "", add |-> key \notin DOMAIN node.items,
            node |-> [node EXCEPT !.items = With(@, key, value)]]
      ELSE IF loaded.err # "" THEN [err |-> loaded.err, add |-> FALSE, node |-> loaded.parent]
      ELSE [below EXCEPT !.node = Under(loaded, index, @)]

\* The root one level up: what it held becomes its first child.
raise(root, v3) ==
  [root EXCEPT
     !.height = @ + 1,
     !.node = IF @.items = Empty THEN @
              ELSE AmLinks(0 :> Memory(@), bitsBytes(v3))]
RECURSIVE raised(_, _, _)
raised(root, key, v3) ==
  IF key >= maxAt(root.height, v3) THEN raised(raise(root, v3), key, v3) ELSE root

\* No height is enough, however often the loop of set raises it.
neverFits(root, key, v3) ==
  \A h \in root.height..(root.height + AmWord) : key >= maxAt(h, v3)

RECURSIVE amGet(_, _, _, _, _)
amGet(node, height, key, v3, reach) ==
  LET mask == maskAt(height, v3)
      index == key \div mask
      loaded == loadLink(node, index, FALSE, v3, reach > 0)
      below == amGet(loaded.child, height - 1, key % mask, v3, reach - 1)
  IN  IF height = 0
      THEN [err |-> IF key \in DOMAIN node.items THEN "" ELSE "kNotFound",
            value |-> GetOr(node.items, key, 0), node |-> node]
      ELSE IF loaded.err # "" THEN [err |-> loaded.err, value |-> 0, node |-> loaded.parent]
      ELSE [below EXCEPT !.node = Under(loaded, index, @)]

\* remove of a node: a child that is left empty goes.
RECURSIVE amRemove(_, _, _, _, _)
amRemove(node, height, key, v3, reach) ==
  LET mask == maskAt(height, v3)
      index == key \div mask
      loaded == loadLink(node, index, FALSE, v3, reach > 0)
      below == amRemove(loaded.child, height - 1, key % mask, v3, reach - 1)
      whole == Under(loaded, index, below.node)
  IN  IF height = 0
      THEN [err |-> IF key \in DOMAIN node.items THEN "" ELSE "kNotFound",
            node |-> [node EXCEPT !.items = Without(@, key)]]
      ELSE IF loaded.err # "" THEN [err |-> loaded.err, node |-> loaded.parent]
      ELSE [err |-> below.err,
            node |-> IF below.err = "" /\ below.node.items = Empty
                     THEN [whole EXCEPT !.items = Without(@, index)] ELSE whole]

\* The loop of remove: a root with the first link alone is as high as that
\* child.
RECURSIVE lowered(_, _, _)
lowered(root, v3, reach) ==
  LET loaded == loadLink(root.node, 0, FALSE, v3, reach > 0) IN
  IF root.height = 0 \/ DOMAIN root.node.items # {0} THEN [err |-> "", root |-> root]
  ELSE IF loaded.err # "" THEN [err |-> loaded.err, root |-> root]
  ELSE lowered([root EXCEPT !.node = loaded.child, !.height = @ - 1], v3, reach - 1)

removedNever(root, v3, reach) == [err |-> "", root |-> root]
removed(root, v3, reach) ==
  IF root.count = 0 /\ root.height > 0 /\ v3
  THEN [err |-> "", root |-> [root EXCEPT !.height = 0, !.node.links = FALSE,
                                          !.node.items = Empty]]
  ELSE lowered(root, v3, reach)

\* flush of a node: children before parents, while the store takes them.
RECURSIVE amFlush(_, _)
amFlush(node, puts) ==
  LET step(state, i) ==
        LET link == state.node.items[i]
            below == amFlush(link.node, state.puts)
            put(l) == [state.node EXCEPT !.items = With(@, i, l)]
        IN  IF ~state.ok \/ link.kind = "cid" THEN state
            ELSE IF ~below.ok \/ below.puts = 0
            THEN [ok |-> FALSE, puts |-> 0, node |-> put(Memory(below.node))]
            ELSE [ok |-> TRUE, puts |-> below.puts - 1,
                  node |-> put(Stored_(encodeAmtNode(below.node)))]
      all == [ok |-> TRUE, puts |-> puts, node |-> node]
  IN  IF ~node.links THEN all ELSE FoldLeft(step, all, Ascending(DOMAIN node.items))

\* visit: the keys and values in order.
RECURSIVE amVisit(_, _, _, _)
amVisit(node, height, offset, v3) ==
  LET used == Ascending(DOMAIN node.items)
      step(state, i) ==
        LET child == loadLink(node, i, FALSE, v3, TRUE)
            below == amVisit(child.child, height - 1, offset + i * maskAt(height, v3), v3)
        IN  IF state.err # "" THEN state
            ELSE IF child.err # "" THEN [state EXCEPT !.err = child.err]
            ELSE [err |-> below.err, all |-> state.all \o below.all]
      none(err) == [err |-> err, all |-> <<>>]
  IN  IF height = 0
      THEN IF node.links THEN none("kHeightWrong")
           ELSE [err |-> "", all |-> [i \in DOMAIN used |->
                                        <<offset + used[i], node.items[used[i]]>>]]
      ELSE IF ~node.links
      THEN none(IF node.items # Empty \/ v3 THEN "kHeightWrong" ELSE "")
      ELSE FoldLeft(step, none(""), used)

\* AmtWalk: the values of the stored nodes in the order their CIDs are met.
RECURSIVE amtWalk(_)
amtWalk(nodes) ==
  LET node == Head(nodes) IN
  IF nodes = <<>> THEN <<>>
  ELSE node.values
       \o amtWalk(Tail(nodes) \o [i \in DOMAIN node.links |-> node.links[i].node])

---------------------------------------------------------------------------
(* A caller's calls.                                                       *)

\* loadRoot of an array of this version.
Root_(reach) ==
  IF amRoot.kind = "root" THEN [err |-> "", root |-> amRoot.root]
  ELSE IF reach = 0 THEN [err |-> "store", root |-> NewRoot(amV3)]
  ELSE [err |-> "", root |-> decodeRoot(amRoot.root)]

InMemory(root) == [kind |-> "root", root |-> root]

\* What a call leaves, given the root, the error and the reference array.
Leave(root, err, good, map) ==
  /\ amRoot' = InMemory(root)
  /\ amTold' = CASE err = "" -> good
                 [] err = "store" -> TRUE
                 [] err = "kNotFound" -> map = amMap /\ ~good
                 [] OTHER -> FALSE
  /\ amMap' = map
  /\ UNCHANGED <<amV3, amSaved, amHangs>>

Unread ==
  /\ amTold' = TRUE
  /\ UNCHANGED <<amRoot, amV3, amMap, amSaved, amTorn, amHangs>>

ArraySet(key, value, reach) ==
  \E old \in {Root_(reach)} :
    IF key > kMaxIndex \/ old.err # "" THEN Unread
    ELSE IF neverFits(old.root, key, amV3)
    THEN /\ amHangs' = TRUE
         /\ UNCHANGED <<amRoot, amV3, amMap, amSaved, amTold, amTorn>>
    ELSE \E root \in {raised(old.root, key, amV3)} :
         \E done \in {amSet(root.node, root.height, key, value, amV3, reach - 1)} :
           /\ Leave([root EXCEPT !.node = done.node, !.count = @ + IF done.add THEN 1 ELSE 0], done.err, TRUE,
                    IF done.err = "" THEN With(amMap, key, value) ELSE amMap)
           /\ UNCHANGED amTorn

\* append writes behind as many values as there are.
ArrayAppend(value, reach) ==
  /\ DOMAIN amMap = 0..(Cardinality(DOMAIN amMap) - 1)
  /\ Root_(reach).root.count \in AmKeys
  /\ ArraySet(Root_(reach).root.count, value, reach)

ArrayGet(key, reach) ==
  \E old \in {Root_(reach)} :
    LET root == old.root
        miss == key >= maxAt(root.height, amV3)
    IN IF key > kMaxIndex \/ old.err # "" THEN Unread
       ELSE \E done \in {amGet(root.node, root.height, key, amV3, reach - 1)} :
            /\ Leave(IF miss THEN root ELSE [root EXCEPT !.node = done.node],
                     IF miss THEN "kNotFound" ELSE done.err,
                     key \in DOMAIN amMap /\ (miss \/ done.value = GetOr(amMap, key, 0)),
                     amMap)
            /\ UNCHANGED amTorn

\* remove: the value goes first, and an error of the store in lowering the
\* root is reported after that.
ArrayRemove(key, reach) ==
  \E old \in {Root_(reach)} :
    LET root == old.root
        miss == key >= maxAt(root.height, amV3)
    IN IF key > kMaxIndex \/ old.err # "" THEN Unread
       ELSE \E done \in {amRemove(root.node, root.height, key, amV3, reach - 1)} :
         IF miss \/ done.err # ""
         THEN /\ Leave(IF miss THEN root ELSE [root EXCEPT !.node = done.node],
                       IF miss THEN "kNotFound" ELSE done.err, key \in DOMAIN amMap, amMap)
              /\ UNCHANGED amTorn
         ELSE \E less \in {removed([root EXCEPT !.node = done.node, !.count = @ - 1], amV3, reach - 1)} :
              /\ Leave(less.root, less.err, key \in DOMAIN amMap, Without(amMap, key))
              /\ amTorn' = (amTorn \/ less.err # "")

ArrayFlush(puts) ==
  LET done == amFlush(amRoot.root.node, puts)
      root == [amRoot.root EXCEPT !.node = done.node]
      cid == [kind |-> "cid", root |-> encodeRoot(root)]
      ok == done.ok /\ done.puts > 0
  IN  /\ amRoot.kind = "root"
      /\ amRoot' = IF ok THEN cid ELSE InMemory(root)
      /\ amSaved' = IF ok THEN [is |-> TRUE, cid |-> cid, map |-> amMap, torn |-> amTorn]
                    ELSE amSaved
      /\ amTold' = TRUE
      /\ UNCHANGED <<amV3, amMap, amTorn, amHangs>>

\* A new Amt of the flushed root.
ArrayOpen ==
  /\ amSaved.is
  /\ amRoot' = amSaved.cid /\ amMap' = amSaved.map /\ amTorn' = amSaved.torn
  /\ amTold' = TRUE
  /\ UNCHANGED <<amV3, amSaved, amHangs>>

AmInit ==
  /\ amV3 \in BOOLEAN /\ amRoot = InMemory(NewRoot(amV3)) /\ amMap = Empty
  /\ amSaved = [is |-> FALSE, cid |-> InMemory(NewRoot(amV3)), map |-> Empty, torn |-> FALSE]
  /\ amTold = TRUE /\ amTorn = FALSE /\ amHangs = FALSE /\ amCalls = 0

AmNext ==
  /\ amCalls < AmMaxCalls /\ ~amHangs
  /\ amCalls' = amCalls + 1
  /\ \/ \E reach \in AmReaches :
          \/ \E key \in AmKeys : \/ \E value \in AmValues : ArraySet(key, value, reach)
                                 \/ ArrayRemove(key, reach)
                                 \/ ArrayGet(key, reach)
          \/ \E value \in AmValues : ArrayAppend(value, reach)
     \/ \E puts \in AmPuts : ArrayFlush(puts)
     \/ ArrayOpen

AmSpec == AmInit /\ [][AmNext]_amVars

---------------------------------------------------------------------------
(* Properties.                                                             *)

AmTypeOK ==
  /\ amRoot.kind \in {"root", "cid"} /\ amV3 \in BOOLEAN
  /\ DOMAIN amMap \subseteq AmKeys /\ amCalls \in 0..AmMaxCalls

\* A root flushed whole.
Written(root) == encodeRoot([root EXCEPT !.node = amFlush(@, 99).node])
BuiltArray(map, v3) ==
  FoldLeft(LAMBDA root, k :
             LET high == raised(root, k, v3) IN
             [high EXCEPT !.node = amSet(@, high.height, k, map[k], v3, 0).node,
                          !.count = @ + 1],
           NewRoot(v3), Ascending(DOMAIN map))

\* Whatever was set, appended, removed, flushed (in part), dropped and loaded
\* before, and wherever the store failed: every answer is the reference
\* array's; the count is how many values there are; visit meets them in
\* order.  In version 3 the root that flush writes depends on the values
\* alone, unless the store failed while a remove lowered the root.  What was
\* flushed is what AmtWalk meets.
AmtIsArray ==
  LET root == Root_(9).root
      seen == amVisit(root.node, root.height, 0, amV3)
      keys == Ascending(DOMAIN amMap)
      bag(list) == [v \in AmValues |-> Cardinality({i \in DOMAIN list : list[i] = v})]
      kept == Ascending(DOMAIN amSaved.map)
  IN  /\ amTold
      /\ root.count = Cardinality(DOMAIN amMap)
      /\ seen = [err |-> "", all |-> [i \in DOMAIN keys |-> <<keys[i], amMap[keys[i]]>>]]
      /\ amV3 /\ ~amTorn => Written(root) = Written(BuiltArray(amMap, amV3))
      /\ amSaved.is => bag(amtWalk(<<amSaved.cid.root.node>>))
                         = bag([i \in DOMAIN kept |-> amSaved.map[kept[i]]])

\* set returns, for every key up to kMaxIndex.
AmtSetReturns == ~amHangs
=============================================================================
