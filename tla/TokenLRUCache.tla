--------------------------- MODULE TokenLRUCache ---------------------------
(***************************************************************************)
(* CLRUCache<key, value> (src/src/tokens/tokentypes.h), the bounded        *)
(* metadata cache of the token engine.  A cache is a std::list of          *)
(* (key, value) pairs, most recently used first, and an unordered_map from *)
(* key to a list iterator.  List nodes have an identity here (Nodes), so   *)
(* that an iterator is a node and the copy constructor, which copies the   *)
(* map of iterators verbatim, can be expressed.  Each public method is one *)
(* step: the cache is used under cs_main.  Erase and splice unlink a node  *)
(* from whichever list holds it, which is what std::list does with an      *)
(* iterator of another list.                                               *)
(*                                                                         *)
(* recent and latest are history variables, not program state: the keys   *)
(* put and neither erased nor cleared, most recently used first, and the   *)
(* value last put for each key.  They state what an LRU cache promises.    *)
(***************************************************************************)
EXTENDS Integers, Sequences, SequencesExt, FiniteSets

CONSTANTS
    Caches,     \* CLRUCache objects
    Keys,       \* cache_key_t values
    Values,     \* cache_value_t values
    NodeCount,  \* list nodes the allocator can hand out (a bound)
    SizesIn,    \* max_size arguments of the constructor and SetSize
    NoNode,     \* the map has no entry for the key
    NoValue     \* no value was put for the key

Nodes == 1 .. NodeCount

VARIABLES
    list,       \* [Caches -> Seq(Nodes)]: cacheItemsList, front first
    item,       \* [Nodes -> key_value_pair_t]: what each node holds
    map,        \* [Caches -> [Keys -> Nodes \cup {NoNode}]]: cacheItemsMap
    maxSize,    \* [Caches -> Nat]
    recent,     \* history: [Caches -> Seq(Keys)]
    latest      \* history: [Caches -> [Keys -> Values \cup {NoValue}]]

vars == <<list, item, map, maxSize, recent, latest>>

Pairs == [key : Keys, val : Values]

\* Nodes in no list: what the allocator may hand out next, lowest first.
FreeNodes == Nodes \ UNION {ToSet(list[c]) : c \in Caches}
Fresh(n) == SubSeq(SetToSortSeq(FreeNodes, LAMBDA a, b : a < b), 1, n)

\* Unlink node n from whichever list holds it (list::erase, list::splice).
Unlink(l, n) == [c \in Caches |-> SelectSeq(l[c], LAMBDA m : m # n)]

Size(c) == Cardinality({k \in Keys : map[c][k] # NoNode})

Drop(s, k) == SelectSeq(s, LAMBDA x : x # k)

\* CLRUCache() (SetNull: maxSize 0) or CLRUCache(max_size): an empty cache.
\* What a node holds before it is allocated is never read.
Init ==
    /\ list = [c \in Caches |-> <<>>]
    /\ item = [n \in Nodes |-> CHOOSE p \in Pairs : TRUE]
    /\ map = [c \in Caches |-> [k \in Keys |-> NoNode]]
    /\ maxSize \in [Caches -> SizesIn \cup {0}]
    /\ recent = [c \in Caches |-> <<>>]
    /\ latest = [c \in Caches |-> [k \in Keys |-> NoValue]]

(***************************************************************************)
(* Put(key, value): push a fresh node to the front; if the key was mapped  *)
(* erase its old node; map the key to the new node; if the map is now     *)
(* larger than maxSize erase the back node and its key (one node only).    *)
(* The allocator must have a node left (NodeCount bounds the model).       *)
(***************************************************************************)
PutNoEraseOld(c, k, v) ==
    /\ FreeNodes # {}
    /\ LET n     == Fresh(1)[1]
           it    == [item EXCEPT ![n] = [key |-> k, val |-> v]]
           l1    == [list EXCEPT ![c] = <<n>> \o @]
           m1    == [map EXCEPT ![c][k] = n]
           over  == Cardinality({x \in Keys : m1[c][x] # NoNode}) > maxSize[c]
       IN /\ item' = it
          /\ list' = IF over THEN [l1 EXCEPT ![c] = Front(@)] ELSE l1
          /\ map' = IF over THEN [m1 EXCEPT ![c][it[Last(l1[c])].key] = NoNode] ELSE m1
    /\ recent' = [recent EXCEPT ![c] = <<k>> \o Drop(@, k)]
    /\ latest' = [latest EXCEPT ![c][k] = v]
    /\ UNCHANGED maxSize

PutCheckBeforeInsert(c, k, v) ==
    /\ FreeNodes # {}
    /\ LET n     == Fresh(1)[1]
           it    == [item EXCEPT ![n] = [key |-> k, val |-> v]]
           old   == map[c][k]
           l1    == [list EXCEPT ![c] = <<n>> \o @]
           l2    == IF old # NoNode THEN Unlink(l1, old) ELSE l1
           m1    == [map EXCEPT ![c][k] = n]
           over  == Cardinality({x \in Keys : map[c][x] # NoNode}) > maxSize[c]
       IN /\ item' = it
          /\ list' = IF over THEN [l2 EXCEPT ![c] = Front(@)] ELSE l2
          /\ map' = IF over THEN [m1 EXCEPT ![c][it[Last(l2[c])].key] = NoNode] ELSE m1
    /\ recent' = [recent EXCEPT ![c] = <<k>> \o Drop(@, k)]
    /\ latest' = [latest EXCEPT ![c][k] = v]
    /\ UNCHANGED maxSize

Put(c, k, v) ==
    /\ FreeNodes # {}
    /\ LET n     == Fresh(1)[1]
           it    == [item EXCEPT ![n] = [key |-> k, val |-> v]]
           old   == map[c][k]
           l1    == [list EXCEPT ![c] = <<n>> \o @]
           l2    == IF old # NoNode THEN Unlink(l1, old) ELSE l1
           m1    == [map EXCEPT ![c][k] = n]
           over  == Cardinality({x \in Keys : m1[c][x] # NoNode}) > maxSize[c]
       IN /\ item' = it
          /\ list' = IF over THEN [l2 EXCEPT ![c] = Front(@)] ELSE l2
          /\ map' = IF over THEN [m1 EXCEPT ![c][it[Last(l2[c])].key] = NoNode] ELSE m1
    /\ recent' = [recent EXCEPT ![c] = <<k>> \o Drop(@, k)]
    /\ latest' = [latest EXCEPT ![c][k] = v]
    /\ UNCHANGED maxSize

\* Erase(key): unlink the mapped node and erase the map entry.
Erase(c, k) ==
    /\ list' = IF map[c][k] # NoNode THEN Unlink(list, map[c][k]) ELSE list
    /\ map' = [map EXCEPT ![c][k] = NoNode]
    /\ recent' = [recent EXCEPT ![c] = Drop(@, k)]
    /\ UNCHANGED <<item, maxSize, latest>>

(***************************************************************************)
(* Get(key): throws range_error for an unmapped key (nothing changes);    *)
(* otherwise splices the mapped node to the front of this cache's list.   *)
(***************************************************************************)
GetHitNoSplice(c, k) ==
    /\ map[c][k] # NoNode
    /\ recent' = [recent EXCEPT ![c] = <<k>> \o Drop(@, k)]
    /\ UNCHANGED <<list, item, map, maxSize, latest>>

GetHit(c, k) ==
    /\ map[c][k] # NoNode
    /\ list' = LET n == map[c][k] IN [Unlink(list, n) EXCEPT ![c] = <<n>> \o @]
    /\ recent' = [recent EXCEPT ![c] = <<k>> \o Drop(@, k)]
    /\ UNCHANGED <<item, map, maxSize, latest>>

GetMiss(c, k) ==
    /\ map[c][k] = NoNode
    /\ UNCHANGED vars

Get(c, k) == GetHit(c, k) \/ GetMiss(c, k)

\* Clear(): empty the map and the list.
Clear(c) ==
    /\ list' = [list EXCEPT ![c] = <<>>]
    /\ map' = [map EXCEPT ![c] = [k \in Keys |-> NoNode]]
    /\ recent' = [recent EXCEPT ![c] = <<>>]
    /\ UNCHANGED <<item, maxSize, latest>>

\* SetNull(): maxSize = 0, then Clear().
SetNull(c) ==
    /\ maxSize' = [maxSize EXCEPT ![c] = 0]
    /\ list' = [list EXCEPT ![c] = <<>>]
    /\ map' = [map EXCEPT ![c] = [k \in Keys |-> NoNode]]
    /\ recent' = [recent EXCEPT ![c] = <<>>]
    /\ UNCHANGED <<item, latest>>

\* SetSize(size): maxSize = size, and nothing else.
SetSizeOffByOne(c, s) ==
    /\ maxSize' = [maxSize EXCEPT ![c] = s - 1]
    /\ UNCHANGED <<list, item, map, recent, latest>>

SetSize(c, s) ==
    /\ maxSize' = [maxSize EXCEPT ![c] = s]
    /\ UNCHANGED <<list, item, map, recent, latest>>

(***************************************************************************)
(* Copy(src, dst): dst = CLRUCache(src).  The list is copied into fresh    *)
(* nodes, the map of iterators and maxSize are copied as they are.  dst is *)
(* a newly constructed object, so it holds no nodes yet.                   *)
(***************************************************************************)
Copy(src, dst) ==
    /\ src # dst /\ list[dst] = <<>>
    /\ Len(list[src]) <= Cardinality(FreeNodes)
    /\ LET ns == Fresh(Len(list[src]))
       IN /\ item' = [n \in Nodes |->
                        IF \E i \in 1 .. Len(ns) : ns[i] = n
                        THEN item[list[src][CHOOSE i \in 1 .. Len(ns) : ns[i] = n]]
                        ELSE item[n]]
          /\ list' = [list EXCEPT ![dst] = ns]
    /\ map' = [map EXCEPT ![dst] = map[src]]
    /\ maxSize' = [maxSize EXCEPT ![dst] = maxSize[src]]
    /\ recent' = [recent EXCEPT ![dst] = recent[src]]
    /\ latest' = [latest EXCEPT ![dst] = latest[src]]

Next ==
    \E c \in Caches :
        \/ \E k \in Keys, v \in Values : Put(c, k, v)
        \/ \E k \in Keys : Erase(c, k) \/ Get(c, k)
        \/ Clear(c) \/ SetNull(c)
        \/ \E s \in SizesIn : SetSize(c, s)

Spec == Init /\ [][Next]_vars

\* A cache object is copy-constructed from another (CLRUCache(const CLRUCache&)).
NextWithCopy == Next \/ \E src, dst \in Caches : Copy(src, dst)

SpecWithCopy == Init /\ [][NextWithCopy]_vars

TypeOK ==
    /\ list \in [Caches -> Seq(Nodes)]
    /\ item \in [Nodes -> Pairs]
    /\ map \in [Caches -> [Keys -> Nodes \cup {NoNode}]]
    /\ maxSize \in [Caches -> Nat]

(***************************************************************************)
(* MapListInSync (spec section 4.8): every key in a cache's map indexes a  *)
(* node of that cache's own list holding that key, every node of the list  *)
(* is indexed by its key, and no node is in the list twice.  Put's erase   *)
(* of the replaced node and its eviction of the back node must each keep  *)
(* the two containers in step.                                            *)
(***************************************************************************)
MapListInSync ==
    \A c \in Caches :
        /\ IsInjective(list[c])
        /\ \A k \in Keys : map[c][k] # NoNode =>
               map[c][k] \in ToSet(list[c]) /\ item[map[c][k]].key = k
        /\ \A n \in ToSet(list[c]) : map[c][item[n].key] = n

(***************************************************************************)
(* CachedKeysAreMostRecent: the cache holds, front to back, exactly the    *)
(* most recently put or got keys that were not erased or cleared since,   *)
(* each with the value last put for it.  So an eviction always drops the  *)
(* least recently used key, Get refreshes a key's recency, and a Put of   *)
(* an existing key replaces its value.                                    *)
(***************************************************************************)
CachedKeysAreMostRecent ==
    \A c \in Caches :
        LET n == Len(list[c])
        IN /\ n <= Len(recent[c])
           /\ \A i \in 1 .. n : /\ item[list[c][i]].key = recent[c][i]
                              /\ item[list[c][i]].val = latest[c][recent[c][i]]

(***************************************************************************)
(* CacheNeverGrowsPastMax: no method makes a cache larger than both its    *)
(* maxSize and its size before the call.  SetSize lowers maxSize without  *)
(* evicting, so a cache can be over-full; then each Put of a new key must *)
(* evict exactly one entry (the size test comes after the insertion) and  *)
(* the cache stays at its size until Erase, Clear or SetNull shrink it.   *)
(***************************************************************************)
CacheNeverGrowsPastMax ==
    [][\A c \in Caches :
          Size(c)' <= IF maxSize'[c] > Size(c) THEN maxSize'[c] ELSE Size(c)]_vars

=============================================================================
