-------------------------- MODULE IblockCacheProofs --------------------------
(***************************************************************************)
(* Proofs about IblockCache, for any number of blocks, prediction tables,  *)
(* places remembered and blocks reclaimed, and any code that keeps to      *)
(* CodeAssumption: its lists agree, its links lead to blocks that know     *)
(* them, and what is executed is what is mapped.                           *)
(*                                                                         *)
(* The argument.  Structure is ListsAgree with its types, and with the     *)
(* paths of free blocks empty, so that a block that is allocated has no    *)
(* links.  A link is right (LinkOK) if the block it leads to is in use, is *)
(* the one for the place, can be reached from the block that has the link, *)
(* is of the same address space in the user's pages, and knows the place.  *)
(* Since it knows the place, freeing it with its pointers invalidated      *)
(* leaves no link to it (InvalidatedLinks).  Reclaim and the invalidation  *)
(* of a page free one block after the other that way (EachOK, by induction *)
(* over the list that each has at its start); the invalidation of all      *)
(* blocks cuts no link, and leaves no block that could have one.  A link   *)
(* is made while it is the only one not right (LinksOK with a place        *)
(* excepted).  CodeKept says that a block holds what a fetch at its key    *)
(* gives, which the invalidations keep true when pages change.             *)
(***************************************************************************)
EXTENDS IblockCache, TLAPS, FiniteSetTheorems, SequenceTheorems, WellFoundedInduction

-----------------------------------------------------------------------------
(* The lists.                                                              *)

\* The sequence list holds each element of S once, and nothing else.
Lists(list, S) == list \in Seq(S) /\ IsInjective(list) /\ ToSet(list) = S

\* What that means of its places.
LEMMA ListFacts ==
  ASSUME NEW list, NEW S, Lists(list, S)
  PROVE  /\ Len(list) \in Nat /\ DOMAIN list = 1 .. Len(list)
         /\ \A i \in 1 .. Len(list) : list[i] \in S
         /\ \A x \in S : \E i \in 1 .. Len(list) : list[i] = x
         /\ \A i, j \in 1 .. Len(list) : list[i] = list[j] => i = j
<1>1. list \in Seq(S) /\ Len(list) \in Nat /\ DOMAIN list = 1 .. Len(list)
  BY DEF Lists
<1>2. \A i \in 1 .. Len(list) : list[i] \in S
  BY <1>1
<1>3. \A x \in S : \E i \in 1 .. Len(list) : list[i] = x
  BY <1>1 DEF Lists, ToSet
<1>4. \A i, j \in 1 .. Len(list) : list[i] = list[j] => i = j
  BY <1>1 DEF Lists, IsInjective
<1> QED BY <1>1, <1>2, <1>3, <1>4

\* And the other way round.
LEMMA ListIs ==
  ASSUME NEW T, NEW list \in Seq(T), NEW S,
         \A i \in 1 .. Len(list) : list[i] \in S,
         \A x \in S : \E i \in 1 .. Len(list) : list[i] = x,
         \A i, j \in 1 .. Len(list) : list[i] = list[j] => i = j
  PROVE  Lists(list, S)
<1>1. Len(list) \in Nat /\ DOMAIN list = 1 .. Len(list) /\ list \in [1 .. Len(list) -> T]
  OBVIOUS
<1>2. list \in [1 .. Len(list) -> S]
  BY <1>1
<1>3. list \in Seq(S)
  BY <1>1, <1>2, SeqDef
<1>4. IsInjective(list)
  BY <1>1 DEF IsInjective
<1>5. ToSet(list) = S
  <2>1. \A x \in ToSet(list) : x \in S
    BY <1>1 DEF ToSet
  <2>2. \A x \in S : x \in ToSet(list)
    BY <1>1 DEF ToSet
  <2> QED BY <2>1, <2>2
<1> QED BY <1>3, <1>4, <1>5 DEF Lists

\* The empty list, and only it, lists nothing.
LEMMA ListEmpty ==
  /\ Lists(<<>>, {})
  /\ \A list, S : Lists(list, S) => (list = <<>> <=> S = {})
<1>1. Lists(<<>>, {})
  <2>1. PICK none : none = <<>> /\ none \in Seq({}) /\ Len(none) = 0
    BY EmptySeq
  <2>2. \A i \in 1 .. Len(none) : FALSE
    BY <2>1
  <2>3. Lists(none, {})
    BY <2>1, <2>2, ListIs
  <2> QED BY <2>1, <2>3
<1>2. ASSUME NEW list, NEW S, Lists(list, S)
      PROVE  list = <<>> <=> S = {}
  <2>1. /\ list \in Seq(S) /\ Len(list) \in Nat
        /\ \A i \in 1 .. Len(list) : list[i] \in S
        /\ \A x \in S : \E i \in 1 .. Len(list) : list[i] = x
    BY <1>2, ListFacts DEF Lists
  <2>2. list = <<>> => Len(list) = 0
    OBVIOUS
  <2>3. list # <<>> => Len(list) \in Nat \ {0}
    BY <2>1, EmptySeq
  <2>4. Len(list) \in Nat \ {0} => 1 \in 1 .. Len(list)
    OBVIOUS
  <2> QED BY <2>1, <2>2, <2>3, <2>4
<1> QED BY <1>1, <1>2

\* InsertHeadList of an element that was not on the list.
LEMMA ListPush ==
  ASSUME NEW list, NEW S, Lists(list, S), NEW x, x \notin S
  PROVE  /\ Lists(<<x>> \o list, S \cup {x}) /\ (<<x>> \o list)[1] = x
         /\ Len(<<x>> \o list) = Len(list) + 1 /\ <<x>> \o list # <<>>
<1> DEFINE long == <<x>> \o list   T == S \cup {x}
<1>0. /\ Len(list) \in Nat
      /\ \A i \in 1 .. Len(list) : list[i] \in S
      /\ \A y \in S : \E i \in 1 .. Len(list) : list[i] = y
      /\ \A i, j \in 1 .. Len(list) : list[i] = list[j] => i = j
  BY ListFacts
<1>1. list \in Seq(T) /\ <<x>> \in Seq(T) /\ Len(<<x>>) = 1 /\ <<x>>[1] = x
  <2>1. list \in Seq(S)
    BY DEF Lists
  <2>2. list \in Seq(T)
    BY <2>1, SeqMonotonic
  <2> QED BY <2>2
<1>2. /\ long \in Seq(T) /\ Len(long) = 1 + Len(list)
      /\ \A i \in 1 .. 1 + Len(list) : long[i] = IF i <= 1 THEN <<x>>[i] ELSE list[i - 1]
  BY <1>1, ConcatProperties
<1>3. long[1] = x /\ \A i \in 1 .. Len(list) : long[i + 1] = list[i]
  BY <1>0, <1>1, <1>2
<1> HIDE DEF long
<1>4. \A i \in 1 .. Len(long) : i = 1 \/ (i - 1 \in 1 .. Len(list) /\ long[i] = list[i - 1])
  BY <1>0, <1>2
<1>5. \A i \in 1 .. Len(long) : long[i] \in T
  BY <1>0, <1>3, <1>4
<1>6. \A y \in T : \E i \in 1 .. Len(long) : long[i] = y
  <2>1. 1 \in 1 .. Len(long)
    BY <1>0, <1>2
  <2>2. ASSUME NEW y \in S PROVE \E i \in 1 .. Len(long) : long[i] = y
    <3>1. PICK i \in 1 .. Len(list) : list[i] = y
      BY <1>0
    <3>2. i + 1 \in 1 .. Len(long) /\ long[i + 1] = y
      BY <1>0, <1>2, <1>3, <3>1
    <3> QED BY <3>2
  <2> QED BY <1>3, <2>1, <2>2
<1>7. ASSUME NEW i \in 1 .. Len(long), NEW j \in 1 .. Len(long), long[i] = long[j]
      PROVE  i = j
  <2>1. CASE i = 1 /\ j = 1
    BY <2>1
  <2>2. CASE i = 1 /\ j # 1
    BY <1>0, <1>3, <1>4, <1>7, <2>2
  <2>3. CASE i # 1 /\ j = 1
    BY <1>0, <1>3, <1>4, <1>7, <2>3
  <2>4. CASE i # 1 /\ j # 1
    <3>1. i - 1 = j - 1
      BY <1>0, <1>4, <1>7, <2>4
    <3> QED BY <1>2, <1>0, <3>1
  <2> QED BY <2>1, <2>2, <2>3, <2>4
<1>8. Lists(long, T)
  BY <1>2, <1>5, <1>6, <1>7, ListIs
<1>9. Len(long) # 0 /\ Len(<<>>) = 0
  BY <1>0, <1>2
<1>10. long # <<>>
  BY <1>9
<1>11. Len(long) = Len(list) + 1
  BY <1>0, <1>2
<1> QED BY <1>3, <1>8, <1>10, <1>11 DEF long

\* A list without the element at place k.
LEMMA ListWithout ==
  ASSUME NEW list, NEW S, Lists(list, S), NEW k \in 1 .. Len(list), NEW rest \in Seq(S),
         Len(rest) = Len(list) - 1,
         \A i \in 1 .. Len(rest) : rest[i] = IF i < k THEN list[i] ELSE list[i + 1]
  PROVE  Lists(rest, S \ {list[k]})
<1>0. /\ Len(list) \in Nat /\ Len(rest) \in Nat
      /\ \A i \in 1 .. Len(list) : list[i] \in S
      /\ \A y \in S : \E i \in 1 .. Len(list) : list[i] = y
      /\ \A i, j \in 1 .. Len(list) : list[i] = list[j] => i = j
  BY ListFacts
<1> DEFINE from(i) == IF i < k THEN i ELSE i + 1
<1>1. \A i \in 1 .. Len(rest) : from(i) \in 1 .. Len(list) /\ from(i) # k /\ rest[i] = list[from(i)]
  BY <1>0
<1>2. \A i, j \in 1 .. Len(rest) : from(i) = from(j) => i = j
  BY <1>0
<1>3. \A j \in 1 .. Len(list) : j # k => \E i \in 1 .. Len(rest) : from(i) = j
  <2> TAKE j \in 1 .. Len(list)
  <2>1. CASE j < k
    <3>1. j \in 1 .. Len(rest) /\ from(j) = j
      BY <1>0, <2>1
    <3> QED BY <3>1
  <2>2. CASE j > k
    <3>1. j - 1 \in 1 .. Len(rest) /\ from(j - 1) = j
      BY <1>0, <2>2
    <3> QED BY <3>1
  <2> QED BY <1>0, <2>1, <2>2
<1> HIDE DEF from
<1>4. ASSUME NEW i \in 1 .. Len(rest) PROVE rest[i] \in S \ {list[k]}
  <2>1. PICK n : n = from(i)
    OBVIOUS
  <2>2. n \in 1 .. Len(list) /\ n # k /\ rest[i] = list[n]
    BY <1>1, <2>1
  <2>3. list[n] \in S /\ list[n] # list[k]
    BY <1>0, <2>2
  <2> QED BY <2>2, <2>3
<1>5. \A y \in S \ {list[k]} : \E i \in 1 .. Len(rest) : rest[i] = y
  <2> TAKE y \in S \ {list[k]}
  <2>1. PICK j \in 1 .. Len(list) : list[j] = y
    BY <1>0
  <2>2. PICK i \in 1 .. Len(rest) : from(i) = j
    BY <1>3, <2>1
  <2> QED BY <1>1, <2>1, <2>2
<1>6. ASSUME NEW i \in 1 .. Len(rest), NEW j \in 1 .. Len(rest), rest[i] = rest[j]
      PROVE  i = j
  <2>1. PICK n, m : n = from(i) /\ m = from(j)
    OBVIOUS
  <2>2. /\ n \in 1 .. Len(list) /\ rest[i] = list[n]
        /\ m \in 1 .. Len(list) /\ rest[j] = list[m]
    BY <1>1, <2>1
  <2>3. n = m
    BY <1>0, <1>6, <2>2
  <2> QED BY <1>2, <2>1, <2>3
<1> QED BY <1>4, <1>5, <1>6, ListIs

\* RemoveHeadList.
LEMMA ListPop ==
  ASSUME NEW list, NEW S, Lists(list, S), list # <<>>
  PROVE  list[1] \in S /\ Lists(Tail(list), S \ {list[1]})
<1>1. list \in Seq(S) /\ Len(list) \in Nat \ {0}
  BY EmptySeq DEF Lists
<1>2. /\ Tail(list) \in Seq(S) /\ Len(Tail(list)) = Len(list) - 1
      /\ \A i \in 1 .. Len(Tail(list)) : Tail(list)[i] = list[i + 1]
  BY <1>1, HeadTailProperties
<1>3. 1 \in 1 .. Len(list)
  BY <1>1
<1>4. \A i \in 1 .. Len(Tail(list)) :
        Tail(list)[i] = IF i < 1 THEN list[i] ELSE list[i + 1]
  BY <1>2
<1>5. Lists(Tail(list), S \ {list[1]})
  BY <1>2, <1>3, <1>4, ListWithout
<1> QED BY <1>1, <1>3, <1>5

\* RemoveEntryList.
LEMMA ListUnlink ==
  ASSUME NEW list, NEW S, Lists(list, S), NEW x \in S
  PROVE  Lists(Unlink(list, x), S \ {x}) /\ Len(Unlink(list, x)) = Len(list) - 1
<1>0. /\ Len(list) \in Nat /\ DOMAIN list = 1 .. Len(list) /\ list \in Seq(S)
      /\ \A i \in 1 .. Len(list) : list[i] \in S
      /\ \E i \in 1 .. Len(list) : list[i] = x
  BY ListFacts DEF Lists
<1> DEFINE k == CHOOSE i \in DOMAIN list : list[i] = x
<1>1. k \in 1 .. Len(list) /\ list[k] = x
  BY <1>0
<1> DEFINE head == SubSeq(list, 1, k - 1)   tail == SubSeq(list, k + 1, Len(list))
           rest == head \o tail
<1>2. Unlink(list, x) = rest
  BY DEF Unlink, RemoveAt
<1> HIDE DEF k
<1>3. /\ head \in Seq(S) /\ Len(head) = k - 1
      /\ \A i \in 1 .. k - 1 : head[i] = list[i]
  <2>1. \A i \in 1 .. k - 1 : list[i] \in S
    BY <1>0, <1>1
  <2>2. /\ head \in Seq(S) /\ Len(head) = IF 1 <= k - 1 THEN (k - 1) - 1 + 1 ELSE 0
        /\ \A i \in 1 .. (k - 1) - 1 + 1 : head[i] = list[1 + i - 1]
    BY <1>0, <1>1, <2>1, SubSeqProperties
  <2> HIDE DEF head
  <2>3. Len(head) = k - 1
    BY <1>0, <1>1, <2>2
  <2>4. \A i \in 1 .. k - 1 : head[i] = list[i]
    <3> TAKE i \in 1 .. k - 1
    <3>1. i \in 1 .. (k - 1) - 1 + 1 /\ 1 + i - 1 = i
      BY <1>0, <1>1
    <3> QED BY <2>2, <3>1
  <2> QED BY <2>2, <2>3, <2>4
<1>4. /\ tail \in Seq(S) /\ Len(tail) = Len(list) - k
      /\ \A i \in 1 .. Len(list) - k : tail[i] = list[k + i]
  <2>1. \A i \in k + 1 .. Len(list) : list[i] \in S
    BY <1>0, <1>1
  <2>2. /\ tail \in Seq(S)
        /\ Len(tail) = IF k + 1 <= Len(list) THEN Len(list) - (k + 1) + 1 ELSE 0
        /\ \A i \in 1 .. Len(list) - (k + 1) + 1 : tail[i] = list[(k + 1) + i - 1]
    BY <1>0, <1>1, <2>1, SubSeqProperties
  <2> HIDE DEF tail
  <2>3. Len(tail) = Len(list) - k
    <3>1. Len(tail) = IF k + 1 <= Len(list) THEN Len(list) - (k + 1) + 1 ELSE 0
      BY <2>2
    <3>2. k \in Int /\ Len(list) \in Int /\ k <= Len(list)
      BY <1>0, <1>1
    <3> HIDE DEF tail
    <3> QED BY <3>1, <3>2
  <2>4. \A i \in 1 .. Len(list) - k : tail[i] = list[k + i]
    <3> TAKE i \in 1 .. Len(list) - k
    <3>1. i \in 1 .. Len(list) - (k + 1) + 1 /\ (k + 1) + i - 1 = k + i
      BY <1>0, <1>1
    <3> QED BY <2>2, <3>1
  <2> QED BY <2>2, <2>3, <2>4
<1> HIDE DEF head, tail
<1>5. /\ rest \in Seq(S) /\ Len(rest) = Len(head) + Len(tail)
      /\ \A i \in 1 .. Len(head) + Len(tail) :
           rest[i] = IF i <= Len(head) THEN head[i] ELSE tail[i - Len(head)]
  BY <1>3, <1>4, ConcatProperties
<1> HIDE DEF rest
<1>6. Len(rest) = Len(list) - 1
  BY <1>0, <1>1, <1>3, <1>4, <1>5
<1>7. ASSUME NEW i \in 1 .. Len(rest)
      PROVE  rest[i] = IF i < k THEN list[i] ELSE list[i + 1]
  <2>1. CASE i < k
    BY <1>0, <1>1, <1>3, <1>4, <1>5, <2>1
  <2>2. CASE ~(i < k)
    <3>1. i - (k - 1) \in 1 .. Len(list) - k /\ ~(i <= k - 1) /\ k + (i - (k - 1)) = i + 1
      BY <1>0, <1>1, <1>6, <2>2
    <3>2. rest[i] = tail[i - (k - 1)]
      BY <1>0, <1>1, <1>3, <1>4, <1>5, <1>6, <3>1
    <3>3. tail[i - (k - 1)] = list[k + (i - (k - 1))]
      BY <1>4, <3>1
    <3> QED BY <2>2, <3>1, <3>2, <3>3
  <2> QED BY <2>1, <2>2
<1>8. Lists(rest, S \ {x})
  BY <1>0, <1>1, <1>5, <1>6, <1>7, ListWithout
<1> QED BY <1>2, <1>6, <1>8

\* SetToSeqs has the lists of a finite set.
LEMMA ListOfSeqs ==
  ASSUME NEW S, IsFiniteSet(S), NEW list
  PROVE  list \in SetToSeqs(S) <=> Lists(list, S)
<1>0. Cardinality(S) \in Nat /\ ExistsBijection(1 .. Cardinality(S), S)
  BY FS_CardinalityType
<1> DEFINE N == Cardinality(S)
<1>a. IsFiniteSet(1 .. N) /\ Cardinality(1 .. N) = N
  BY <1>0, FS_Interval
<1>1. ASSUME list \in SetToSeqs(S) PROVE Lists(list, S)
  <2>1. list \in [1 .. N -> S] /\ \A i, j \in 1 .. N : i # j => list[i] # list[j]
    BY <1>1 DEF SetToSeqs
  <2>2. list \in Seq(S) /\ Len(list) = N /\ DOMAIN list = 1 .. N
    BY <1>0, <2>1
  <2>3. list \in Injection(1 .. N, S)
    BY <2>1 DEF Injection, IsInjective
  <2>4. list \in Surjection(1 .. N, S)
    BY <1>a, <2>3, FS_Injection
  <2>5. \A x \in S : \E i \in 1 .. N : list[i] = x
    BY <2>4 DEF Surjection
  <2> QED BY <2>1, <2>2, <2>5, ListIs
<1>2. ASSUME Lists(list, S) PROVE list \in SetToSeqs(S)
  <2>1. /\ Len(list) \in Nat /\ DOMAIN list = 1 .. Len(list) /\ list \in Seq(S)
        /\ \A i \in 1 .. Len(list) : list[i] \in S
        /\ \A x \in S : \E i \in 1 .. Len(list) : list[i] = x
        /\ \A i, j \in 1 .. Len(list) : list[i] = list[j] => i = j
    BY <1>2, ListFacts DEF Lists
  <2>2. list \in [1 .. Len(list) -> S]
    BY <2>1
  <2>3. list \in Bijection(1 .. Len(list), S)
    BY <2>1, <2>2 DEF Bijection, Injection, Surjection, IsInjective
  <2>4. ExistsBijection(1 .. Len(list), S)
    BY <2>3 DEF ExistsBijection
  <2>5. IsFiniteSet(1 .. Len(list)) /\ Cardinality(1 .. Len(list)) = Len(list)
    <3>1. 1 \in Int /\ Len(list) \in Int
      BY <2>1
    <3>2. /\ IsFiniteSet(1 .. Len(list))
          /\ Cardinality(1 .. Len(list)) = IF 1 > Len(list) THEN 0 ELSE Len(list) - 1 + 1
      BY <3>1, FS_Interval
    <3> QED BY <2>1, <3>2
  <2>6. Cardinality(S) = Len(list)
    BY <2>4, <2>5, FS_Bijection
  <2> QED BY <2>1, <2>2, <2>6 DEF SetToSeqs
<1> QED BY <1>1, <1>2
-----------------------------------------------------------------------------
(* The cache and its structure.                                            *)

\* What a block can hold.
Fetches == {Decoded(code, pc) : code \in Images, pc \in Pcs}
Iblocks == [Pc : Pcs, Asid : Asids \cup {Null}, Insts : Fetches \cup {<<>>},
            PteKernel : BOOLEAN,
            CachedBy : [0 .. (CachedByMax - 1) -> Places \cup {Null}],
            CachedByFifoIndex : 0 .. (CachedByMax - 1), HasPtable : BOOLEAN]
Caches == [IblockFreeList : Seq(Blocks), IblockLruList : Seq(Blocks),
           PtableFreeList : Ptables \cup {Null}, VpageHash : SUBSET Vpns,
           iblock : [Blocks -> Iblocks],
           link : [Places -> Blocks \cup Ptables \cup {Null}],
           PtablePcs : [Ptables -> [Indices -> Pcs]],
           vpage : [Vpns -> [References : Int, IblockVpnList : Seq(Blocks)]]]

\* The parts of ListsAgree, for any cache, and that the places of a free block are empty.
BlocksListed(d) ==
  Lists(d.IblockLruList, Active(d)) /\ Lists(d.IblockFreeList, Blocks \ Active(d))
KeysDiffer(d) ==
  \A a, b \in Active(d) : d.iblock[a].Pc = d.iblock[b].Pc /\ d.iblock[a].Asid = d.iblock[b].Asid
                            => a = b
Used(d) == {Table(d, b) : b \in Owned(d)}
TablesListed(d) ==
  /\ \A b \in Owned(d) : Table(d, b) \in Ptables
  /\ \A a, b \in Owned(d) : Table(d, a) = Table(d, b) => a = b
  /\ \E free : Lists(free, Ptables \ Used(d)) /\ FreeTables(d, free)
InPage(d, v) == {b \in Active(d) : Vpn(d.iblock[b].Pc) = v}
PageListed(d, v) ==
  /\ Lists(d.vpage[v].IblockVpnList, InPage(d, v))
  /\ v \in d.VpageHash <=> d.vpage[v].IblockVpnList # <<>>
  /\ v \in d.VpageHash => d.vpage[v].References = Len(d.vpage[v].IblockVpnList)
Unlinked(d) == \A b \in Blocks \ Active(d), i \in Paths : d.link[Path(b, i)] = Null

Structure(d) ==
  /\ d \in Caches /\ BlocksListed(d) /\ KeysDiffer(d) /\ TablesListed(d)
  /\ \A v \in Vpns : PageListed(d, v)
  /\ Unlinked(d)

\* Places are told apart by what they belong to.
LEMMA PlacesApart ==
  /\ \A b \in Blocks, i \in Paths : Path(b, i) \in Places
  /\ \A t \in Ptables, i \in Indices : Entry(t, i) \in Places
  /\ \A p \in Places : \/ \E b \in Blocks, i \in Paths : p = Path(b, i)
                       \/ \E t \in Ptables, i \in Indices : p = Entry(t, i)
  /\ \A a, b, i, j : Path(a, i) = Path(b, j) => a = b /\ i = j
  /\ \A a, b, i, j : Entry(a, i) = Entry(b, j) => a = b /\ i = j
  /\ \A a, b, i, j : Path(a, i) # Entry(b, j)
  /\ 0 \in Indices /\ PathTrue \in Paths /\ PathFalse \in Paths
  /\ Null \notin Places /\ Null \notin Blocks /\ Null \notin Ptables
  /\ \A b \in Blocks : b \notin Ptables
<1>1. 0 \in Indices /\ PathTrue \in Paths /\ PathFalse \in Paths
  BY SizeAssumption DEF Indices, Paths
<1>2. \A a, b, i, j : Path(a, i) = Path(b, j) => a = b /\ i = j
  BY DEF Path
<1>3. \A a, b, i, j : Entry(a, i) = Entry(b, j) => a = b /\ i = j
  BY DEF Entry
<1>4. \A a, b, i, j : Path(a, i) # Entry(b, j)
  BY DEF Path, Entry
<1>5. /\ \A b \in Blocks, i \in Paths : Path(b, i) \in Places
      /\ \A t \in Ptables, i \in Indices : Entry(t, i) \in Places
      /\ \A p \in Places : \/ \E b \in Blocks, i \in Paths : p = Path(b, i)
                           \/ \E t \in Ptables, i \in Indices : p = Entry(t, i)
  BY DEF Places
<1>6. /\ Null \notin Places /\ Null \notin Blocks /\ Null \notin Ptables
      /\ \A b \in Blocks : b \notin Ptables
  BY SizeAssumption
<1> QED BY <1>1, <1>2, <1>3, <1>4, <1>5, <1>6

\* Active blocks are blocks, and own tables by their records.
LEMMA ActiveBlocks ==
  ASSUME NEW d \in Caches
  PROVE  Active(d) \subseteq Blocks /\ Owned(d) \subseteq Active(d)
<1>1. d.IblockLruList \in Seq(Blocks)
  BY DEF Caches
<1>2. \A i \in DOMAIN d.IblockLruList : d.IblockLruList[i] \in Blocks
  BY <1>1
<1> QED BY <1>2 DEF Active, ToSet, Owned

\* A block that holds nothing.
LEMMA NoBlockTyped == NoBlock \in Iblocks /\ NoPcs \in [Indices -> Pcs] /\ NoBlock.HasPtable = FALSE
<1>1. 0 \in Pcs
  BY CodeAssumption DEF Vector
<1>2. 0 \in 0 .. (CachedByMax - 1)
  BY SizeAssumption
<1> QED BY <1>1, <1>2 DEF NoBlock, Iblocks, NoPcs

\* Cutting links to blocks changes the links only, and none that leads to a table.
LEMMA CutFields ==
  ASSUME NEW d \in Caches, NEW places, NEW e, e = Cut(d, places)
  PROVE  /\ e \in Caches
         /\ e.IblockFreeList = d.IblockFreeList /\ e.IblockLruList = d.IblockLruList
         /\ e.PtableFreeList = d.PtableFreeList /\ e.VpageHash = d.VpageHash
         /\ e.iblock = d.iblock /\ e.PtablePcs = d.PtablePcs /\ e.vpage = d.vpage
         /\ \A p \in Places : e.link[p] = IF p \in places THEN Null ELSE d.link[p]
<1> DEFINE link == [p \in Places |-> IF p \in places THEN Null ELSE d.link[p]]
<1>1. e = [d EXCEPT !.link = link]
  BY DEF Cut
<1>2. link \in [Places -> Blocks \cup Ptables \cup {Null}]
  BY DEF Caches
<1>3. \A p \in Places : link[p] = IF p \in places THEN Null ELSE d.link[p]
  OBVIOUS
<1> HIDE DEF link
<1>4. e \in Caches
  BY <1>1, <1>2 DEF Caches
<1>5. e.link = link
  BY <1>1 DEF Caches
<1> QED BY <1>1, <1>3, <1>4, <1>5 DEF Caches

\* e is d when block b of page v has moved to the free list, field by field.
Moved(d, b, v, e) ==
  /\ e \in Caches /\ v \in Vpns
  /\ e.IblockLruList = Unlink(d.IblockLruList, b)
  /\ e.IblockFreeList = <<b>> \o d.IblockFreeList
  /\ e.PtableFreeList = d.PtableFreeList /\ e.PtablePcs = d.PtablePcs
  /\ e.iblock = [d.iblock EXCEPT ![b] = NoBlock]
  /\ e.vpage[v].IblockVpnList = Unlink(d.vpage[v].IblockVpnList, b)
  /\ e.vpage[v].References = d.vpage[v].References - 1
  /\ \A w \in Vpns \ {v} : e.vpage[w] = d.vpage[w]
  /\ e.VpageHash = IF d.vpage[v].References = 1 THEN d.VpageHash \ {v} ELSE d.VpageHash
  /\ \A p \in Places : e.link[p] = IF \E i \in Paths : p = Path(b, i) THEN Null ELSE d.link[p]

\* This is what moving it does.
LEMMA MoveFields ==
  ASSUME NEW d, Structure(d), NEW b \in Active(d), NEW e, e = MoveToFree(d, b),
         NEW v, v = Vpn(d.iblock[b].Pc)
  PROVE  Moved(d, b, v, e)
<1> DEFINE page == [References |-> d.vpage[v].References - 1,
                    IblockVpnList |-> Unlink(d.vpage[v].IblockVpnList, b)]
           link == [p \in Places |-> IF \E i \in Paths : p = Path(b, i) THEN Null ELSE d.link[p]]
           hash == IF d.vpage[v].References = 1 THEN d.VpageHash \ {v} ELSE d.VpageHash
           lru == Unlink(d.IblockLruList, b)
           free == <<b>> \o d.IblockFreeList
<1>1. d \in Caches /\ b \in Blocks
  BY ActiveBlocks DEF Structure
<1>2. d.iblock[b] \in Iblocks
  BY <1>1 DEF Caches
<1>3. d.iblock[b].Pc \in Pcs
  BY <1>2 DEF Iblocks
<1>4. v \in Vpns
  BY <1>3 DEF Vpns
<1>5. d.vpage \in [Vpns -> [References : Int, IblockVpnList : Seq(Blocks)]]
  BY <1>1 DEF Caches
<1>6. lru \in Seq(Blocks)
  <2>1. Lists(d.IblockLruList, Active(d))
    BY DEF Structure, BlocksListed
  <2>2. lru \in Seq(Active(d) \ {b})
    BY <2>1, ListUnlink DEF Lists
  <2> QED BY <1>1, <2>2, ActiveBlocks, SeqMonotonic
<1>7. free \in Seq(Blocks)
  <2>1. d.IblockFreeList \in Seq(Blocks) /\ <<b>> \in Seq(Blocks)
    BY <1>1 DEF Caches
  <2> QED BY <2>1, ConcatProperties
<1>8. page.IblockVpnList \in Seq(Blocks)
  <2>1. Lists(d.vpage[v].IblockVpnList, InPage(d, v)) /\ b \in InPage(d, v)
    BY <1>4 DEF Structure, PageListed, InPage
  <2>2. Unlink(d.vpage[v].IblockVpnList, b) \in Seq(InPage(d, v) \ {b})
    BY <2>1, ListUnlink DEF Lists
  <2>3. InPage(d, v) \ {b} \subseteq Blocks
    BY <1>1, ActiveBlocks DEF InPage
  <2> QED BY <2>2, <2>3, SeqMonotonic
<1>9. d.vpage[v].References \in Int /\ page.References \in Int
  BY <1>4, <1>5
<1>10. link \in [Places -> Blocks \cup Ptables \cup {Null}]
  BY <1>1 DEF Caches
<1>11. hash \in SUBSET Vpns
  BY <1>1 DEF Caches
<1>12. DOMAIN d.vpage = Vpns
  BY <1>5
<1>13. LeaveVpage(d, b) = [d EXCEPT !.vpage = [d.vpage EXCEPT ![v] = page], !.VpageHash = hash]
  BY <1>1, <1>4, <1>12 DEF LeaveVpage, Caches
<1>14. e = [LeaveVpage(d, b) EXCEPT
              !.IblockLruList = Unlink(@, b), !.IblockFreeList = <<b>> \o @,
              !.iblock[b] = NoBlock, !.link = link]
  BY DEF MoveToFree
<1>15. page \in [References : Int, IblockVpnList : Seq(Blocks)]
  BY <1>8, <1>9
<1>16. [d.vpage EXCEPT ![v] = page] \in [Vpns -> [References : Int, IblockVpnList : Seq(Blocks)]]
  BY <1>5, <1>15
<1>17. [d.iblock EXCEPT ![b] = NoBlock] \in [Blocks -> Iblocks]
  BY <1>1, NoBlockTyped DEF Caches
<1>p. /\ page.IblockVpnList = Unlink(d.vpage[v].IblockVpnList, b)
      /\ page.References = d.vpage[v].References - 1
  OBVIOUS
<1>l. \A p \in Places : link[p] = IF \E i \in Paths : p = Path(b, i) THEN Null ELSE d.link[p]
  OBVIOUS
<1> HIDE DEF page, link, hash
<1>18. e = [IblockFreeList |-> free, IblockLruList |-> lru,
            PtableFreeList |-> d.PtableFreeList, VpageHash |-> hash,
            iblock |-> [d.iblock EXCEPT ![b] = NoBlock], link |-> link,
            PtablePcs |-> d.PtablePcs, vpage |-> [d.vpage EXCEPT ![v] = page]]
  <2>1. PICK f : f = LeaveVpage(d, b)
    OBVIOUS
  <2>2. f = [IblockFreeList |-> d.IblockFreeList, IblockLruList |-> d.IblockLruList,
             PtableFreeList |-> d.PtableFreeList, VpageHash |-> hash,
             iblock |-> d.iblock, link |-> d.link,
             PtablePcs |-> d.PtablePcs, vpage |-> [d.vpage EXCEPT ![v] = page]]
    BY <1>1, <1>13, <2>1 DEF Caches
  <2>3. e = [f EXCEPT !.IblockLruList = Unlink(@, b), !.IblockFreeList = <<b>> \o @,
                      !.iblock[b] = NoBlock, !.link = link]
    BY <1>14, <2>1
  <2> QED BY <2>2, <2>3
<1> HIDE DEF free, lru
<1>19. e \in Caches
  BY <1>1, <1>6, <1>7, <1>10, <1>11, <1>16, <1>17, <1>18 DEF Caches
<1>20. /\ e.vpage = [d.vpage EXCEPT ![v] = page]
       /\ e.iblock = [d.iblock EXCEPT ![b] = NoBlock]
       /\ e.link = link /\ e.VpageHash = hash
       /\ e.IblockLruList = lru /\ e.IblockFreeList = free
       /\ e.PtableFreeList = d.PtableFreeList /\ e.PtablePcs = d.PtablePcs
  BY <1>18
<1>21. e.vpage[v] = page /\ \A w \in Vpns \ {v} : e.vpage[w] = d.vpage[w]
  BY <1>4, <1>5, <1>20
<1> QED BY <1>4, <1>19, <1>20, <1>21, <1>p, <1>l DEF Moved, hash, lru, free
-----------------------------------------------------------------------------
(* Cutting links and freeing blocks.                                       *)

\* e is d without the blocks of gone: the others are as they were, but that some of their
\* links may be cut.
Freed(d, e, gone) ==
  /\ Active(e) = Active(d) \ gone
  /\ \A a \in Active(e) :
       /\ e.iblock[a] = d.iblock[a] /\ Out(e, a) = Out(d, a)
       /\ d.iblock[a].HasPtable => Table(e, a) = Table(d, a)
       /\ \A p \in Out(d, a) : e.link[p] \in {d.link[p], Null} /\ PlacePc(e, p) = PlacePc(d, p)

\* First some blocks, then others.
LEMMA FreedThen ==
  ASSUME NEW d, NEW e, NEW f, NEW S, NEW T, Freed(d, e, S), Freed(e, f, T)
  PROVE  Freed(d, f, S \cup T)
<1>1. Active(f) = Active(d) \ (S \cup T)
  BY DEF Freed
<1>2. ASSUME NEW a \in Active(f)
      PROVE  /\ f.iblock[a] = d.iblock[a] /\ Out(f, a) = Out(d, a)
             /\ d.iblock[a].HasPtable => Table(f, a) = Table(d, a)
             /\ \A p \in Out(d, a) : f.link[p] \in {d.link[p], Null} /\ PlacePc(f, p) = PlacePc(d, p)
  <2>1. a \in Active(e)
    BY DEF Freed
  <2>2. /\ e.iblock[a] = d.iblock[a] /\ Out(e, a) = Out(d, a)
        /\ d.iblock[a].HasPtable => Table(e, a) = Table(d, a)
        /\ \A p \in Out(d, a) : e.link[p] \in {d.link[p], Null} /\ PlacePc(e, p) = PlacePc(d, p)
    BY <2>1 DEF Freed
  <2>3. /\ f.iblock[a] = e.iblock[a] /\ Out(f, a) = Out(e, a)
        /\ e.iblock[a].HasPtable => Table(f, a) = Table(e, a)
        /\ \A p \in Out(e, a) : f.link[p] \in {e.link[p], Null} /\ PlacePc(f, p) = PlacePc(e, p)
    BY DEF Freed
  <2> QED BY <2>2, <2>3
<1> QED BY <1>1, <1>2 DEF Freed

\* The places where a block has links.
LEMMA OutPlaces ==
  ASSUME NEW d, Structure(d), NEW b \in Active(d)
  PROVE  /\ b \in Blocks /\ Out(d, b) \subseteq Places
         /\ d.iblock[b].HasPtable => Table(d, b) \in Ptables /\ b \in Owned(d)
<1>1. b \in Blocks
  BY ActiveBlocks DEF Structure
<1>2. d.iblock[b].HasPtable => Table(d, b) \in Ptables /\ b \in Owned(d)
  BY DEF Structure, TablesListed, Owned
<1>3. Out(d, b) \subseteq Places
  BY <1>1, <1>2, PlacesApart DEF Out
<1> QED BY <1>1, <1>2, <1>3

\* Where the links of a block lead, from its record and the table it owns.
LEMMA PlacePcs ==
  ASSUME NEW d, NEW e, NEW b, Out(e, b) = Out(d, b),
         e.iblock[b].Pc = d.iblock[b].Pc, e.iblock[b].Insts = d.iblock[b].Insts,
         d.iblock[b].HasPtable => e.PtablePcs[Table(d, b)] = d.PtablePcs[Table(d, b)],
         NEW p \in Out(d, b)
  PROVE  PlacePc(e, p) = PlacePc(d, p)
<1>1. CASE d.iblock[b].HasPtable
  <2>1. PICK i \in Indices : p = Entry(Table(d, b), i)
    BY <1>1 DEF Out
  <2>2. p[1] = "ptable" /\ p[2] = Table(d, b)
    BY <2>1 DEF Entry
  <2> QED BY <1>1, <2>2 DEF PlacePc
<1>2. CASE ~d.iblock[b].HasPtable
  <2>1. PICK i \in Paths : p = Path(b, i)
    BY <1>2 DEF Out
  <2>2. p[1] = "path" /\ p[2] = b
    BY <2>1 DEF Path
  <2> QED BY <2>2 DEF PlacePc, PathPc
<1> QED BY <1>1, <1>2

\* Cutting links to blocks keeps the structure.
LEMMA CutOK ==
  ASSUME NEW d, Structure(d), NEW places, \A p \in places : p \in Places /\ d.link[p] \in Blocks,
         NEW e, e = Cut(d, places)
  PROVE  Structure(e) /\ Freed(d, e, {})
<1>1. /\ e \in Caches
      /\ e.IblockFreeList = d.IblockFreeList /\ e.IblockLruList = d.IblockLruList
      /\ e.PtableFreeList = d.PtableFreeList /\ e.VpageHash = d.VpageHash
      /\ e.iblock = d.iblock /\ e.PtablePcs = d.PtablePcs /\ e.vpage = d.vpage
      /\ \A p \in Places : e.link[p] = IF p \in places THEN Null ELSE d.link[p]
  BY CutFields DEF Structure
<1>2. Active(e) = Active(d) /\ Owned(e) = Owned(d)
  BY <1>1 DEF Active, Owned
<1>3. \A p \in Places : d.link[p] \notin Blocks => e.link[p] = d.link[p]
  BY <1>1
<1>4. \A b \in Owned(d) : b \in Active(d) /\ b \in Blocks /\ Table(d, b) \in Ptables
  BY ActiveBlocks DEF Structure, TablesListed
<1>5. \A b \in Owned(d) : Table(e, b) = Table(d, b)
  BY <1>3, <1>4, PlacesApart DEF Table
<1>6. Used(e) = Used(d)
  BY <1>2, <1>5 DEF Used
<1>7. TablesListed(e)
  <2>1. PICK free : Lists(free, Ptables \ Used(d)) /\ FreeTables(d, free)
    BY DEF Structure, TablesListed
  <2>2. /\ Len(free) \in Nat /\ DOMAIN free = 1 .. Len(free)
        /\ \A n \in 1 .. Len(free) : free[n] \in Ptables
    BY <2>1, ListFacts
  <2>3. \A n \in DOMAIN free : e.link[Entry(free[n], 0)] = d.link[Entry(free[n], 0)]
    <3> TAKE n \in DOMAIN free
    <3>1. Entry(free[n], 0) \in Places
      BY <2>2, PlacesApart
    <3>2. d.link[Entry(free[n], 0)] = IF n < Len(free) THEN free[n + 1] ELSE Null
      BY <2>1 DEF FreeTables
    <3>3. n < Len(free) => free[n + 1] \in Ptables
      BY <2>2
    <3>4. d.link[Entry(free[n], 0)] \notin Blocks
      BY <3>2, <3>3, PlacesApart
    <3> QED BY <1>3, <3>1, <3>4
  <2>4. FreeTables(e, free)
    BY <1>1, <2>1, <2>3 DEF FreeTables
  <2> QED BY <1>2, <1>4, <1>5, <1>6, <2>1, <2>4 DEF Structure, TablesListed
<1>8. BlocksListed(e) /\ KeysDiffer(e) /\ \A v \in Vpns : PageListed(e, v)
  <2>1. BlocksListed(e)
    BY <1>1, <1>2 DEF Structure, BlocksListed
  <2>2. KeysDiffer(e)
    BY <1>1, <1>2 DEF Structure, KeysDiffer
  <2>3. ASSUME NEW v \in Vpns PROVE PageListed(e, v)
    <3>1. InPage(e, v) = InPage(d, v)
      BY <1>1, <1>2 DEF InPage
    <3>2. PageListed(d, v)
      BY DEF Structure
    <3> QED BY <1>1, <3>1, <3>2 DEF PageListed
  <2> QED BY <2>1, <2>2, <2>3
<1>9. Unlinked(e)
  <2> SUFFICES ASSUME NEW b \in Blocks \ Active(e), NEW i \in Paths
               PROVE  e.link[Path(b, i)] = Null
    BY DEF Unlinked
  <2>1. d.link[Path(b, i)] = Null
    BY <1>2 DEF Structure, Unlinked
  <2> QED BY <1>3, <2>1, PlacesApart
<1>10. Structure(e)
  BY <1>1, <1>7, <1>8, <1>9 DEF Structure
<1>11. ASSUME NEW a \in Active(e)
       PROVE  /\ e.iblock[a] = d.iblock[a] /\ Out(e, a) = Out(d, a)
              /\ d.iblock[a].HasPtable => Table(e, a) = Table(d, a)
              /\ \A p \in Out(d, a) : e.link[p] \in {d.link[p], Null} /\ PlacePc(e, p) = PlacePc(d, p)
  <2>1. a \in Active(d) /\ e.iblock[a] = d.iblock[a]
    BY <1>1, <1>2
  <2>2. d.iblock[a].HasPtable => Table(e, a) = Table(d, a)
    BY <1>5, <2>1, OutPlaces
  <2>3. Out(e, a) = Out(d, a)
    BY <2>1, <2>2 DEF Out
  <2>4. ASSUME NEW p \in Out(d, a)
        PROVE  e.link[p] \in {d.link[p], Null} /\ PlacePc(e, p) = PlacePc(d, p)
    <3>1. p \in Places
      BY <2>1, OutPlaces
    <3>2. PlacePc(e, p) = PlacePc(d, p)
      BY <1>1, <2>1, <2>3, PlacePcs
    <3> QED BY <1>1, <3>1, <3>2
  <2> QED BY <2>1, <2>2, <2>3, <2>4
<1> QED BY <1>2, <1>10, <1>11 DEF Freed

\* The places that know a block and lead to it.
LEMMA LinkedFromPlaces ==
  ASSUME NEW d \in Caches, NEW b \in Blocks, NEW indices,
         indices \subseteq 0 .. (CachedByMax - 1)
  PROVE  \A p \in LinkedFrom(d, b, indices) : p \in Places /\ d.link[p] \in Blocks
<1>1. d.iblock[b].CachedBy \in [0 .. (CachedByMax - 1) -> Places \cup {Null}]
  BY DEF Caches, Iblocks
<1> QED BY <1>1 DEF LinkedFrom

\* A block that moves to the free list: all but the tables.
LEMMA MoveOK ==
  ASSUME NEW d, Structure(d), NEW b \in Active(d), NEW e, e = MoveToFree(d, b)
  PROVE  /\ e \in Caches /\ Active(e) = Active(d) \ {b}
         /\ BlocksListed(e) /\ KeysDiffer(e) /\ Unlinked(e)
         /\ \A v \in Vpns : PageListed(e, v)
<1>0. PICK v : v = Vpn(d.iblock[b].Pc)
  OBVIOUS
<1>m. Moved(d, b, v, e)
  BY <1>0, MoveFields
<1>1. /\ e \in Caches /\ v \in Vpns
      /\ e.IblockLruList = Unlink(d.IblockLruList, b)
      /\ e.IblockFreeList = <<b>> \o d.IblockFreeList
      /\ e.iblock = [d.iblock EXCEPT ![b] = NoBlock]
      /\ e.vpage[v].IblockVpnList = Unlink(d.vpage[v].IblockVpnList, b)
      /\ e.vpage[v].References = d.vpage[v].References - 1
      /\ \A w \in Vpns \ {v} : e.vpage[w] = d.vpage[w]
      /\ e.VpageHash = IF d.vpage[v].References = 1 THEN d.VpageHash \ {v} ELSE d.VpageHash
      /\ \A p \in Places : e.link[p] = IF \E i \in Paths : p = Path(b, i) THEN Null ELSE d.link[p]
  BY <1>m DEF Moved
<1>2. /\ d \in Caches /\ b \in Blocks /\ Active(d) \subseteq Blocks
      /\ Lists(d.IblockLruList, Active(d)) /\ Lists(d.IblockFreeList, Blocks \ Active(d))
  BY ActiveBlocks DEF Structure, BlocksListed
<1>3. Lists(e.IblockLruList, Active(d) \ {b})
  BY <1>1, <1>2, ListUnlink
<1>4. Active(e) = Active(d) \ {b}
  BY <1>3 DEF Active, Lists
<1>5. Lists(e.IblockFreeList, (Blocks \ Active(d)) \cup {b})
  BY <1>1, <1>2, ListPush
<1>6. (Blocks \ Active(d)) \cup {b} = Blocks \ Active(e)
  BY <1>2, <1>4
<1>7. BlocksListed(e)
  BY <1>3, <1>4, <1>5, <1>6 DEF BlocksListed
<1>8. \A a \in Active(e) : e.iblock[a] = d.iblock[a] /\ a \in Active(d) /\ a # b
  BY <1>1, <1>2, <1>4 DEF Caches
<1>9. KeysDiffer(e)
  BY <1>8 DEF Structure, KeysDiffer
<1>10. Unlinked(e)
  <2> SUFFICES ASSUME NEW a \in Blocks \ Active(e), NEW i \in Paths
               PROVE  e.link[Path(a, i)] = Null
    BY DEF Unlinked
  <2>1. Path(a, i) \in Places
    BY PlacesApart
  <2>2. a # b => d.link[Path(a, i)] = Null
    BY <1>4 DEF Structure, Unlinked
  <2> QED BY <1>1, <2>1, <2>2
<1>11. ASSUME NEW w \in Vpns PROVE PageListed(e, w)
  <2>0. PageListed(d, w)
    BY DEF Structure
  <2>1. CASE w # v
    <3>1. InPage(e, w) = InPage(d, w)
      BY <1>0, <1>4, <1>8, <2>1 DEF InPage
    <3>2. e.vpage[w] = d.vpage[w] /\ (w \in e.VpageHash <=> w \in d.VpageHash)
      BY <1>1, <2>1
    <3> QED BY <2>0, <3>1, <3>2 DEF PageListed
  <2>2. CASE w = v
    <3> DEFINE list == d.vpage[v].IblockVpnList   rest == Unlink(list, b)
    <3>1. Lists(list, InPage(d, v)) /\ b \in InPage(d, v)
      BY <1>0, <1>1, <2>0, <2>2 DEF PageListed, InPage
    <3>2. Lists(rest, InPage(d, v) \ {b}) /\ Len(rest) = Len(list) - 1
      BY <3>1, ListUnlink
    <3>3. InPage(d, v) \ {b} = InPage(e, v)
      BY <1>4, <1>8 DEF InPage
    <3> HIDE DEF rest
    <3>4. Len(list) \in Nat /\ Len(rest) \in Nat /\ (rest = <<>> <=> Len(rest) = 0)
      <4>1. Len(list) \in Nat /\ Len(rest) \in Nat /\ rest \in Seq(InPage(e, v))
        BY <3>1, <3>2, <3>3, ListFacts DEF Lists
      <4>2. rest # <<>> => Len(rest) \in Nat \ {0}
        BY <4>1, EmptySeq
      <4>3. rest = <<>> => Len(rest) = 0
        OBVIOUS
      <4> QED BY <4>1, <4>2, <4>3
    <3>5. list # <<>>
      BY <3>1, ListEmpty
    <3>6. v \in d.VpageHash /\ d.vpage[v].References = Len(list)
      BY <2>0, <2>2, <3>5 DEF PageListed
    <3> HIDE DEF list
    <3>7. v \in e.VpageHash <=> rest # <<>>
      BY <1>1, <3>2, <3>4, <3>6
    <3>8. e.vpage[v].References = Len(rest) /\ e.vpage[v].IblockVpnList = rest
      BY <1>1, <3>2, <3>6 DEF rest, list
    <3> QED BY <2>2, <3>2, <3>3, <3>7, <3>8 DEF PageListed
  <2> QED BY <2>1, <2>2
<1> QED BY <1>1, <1>4, <1>7, <1>9, <1>10, <1>11

\* The fields of the cache when table t is freed.
LEMMA FreePtableFields ==
  ASSUME NEW d \in Caches, NEW t \in Ptables, NEW e, e = FreePtable(d, t)
  PROVE  /\ e \in Caches
         /\ e.IblockFreeList = d.IblockFreeList /\ e.IblockLruList = d.IblockLruList
         /\ e.PtableFreeList = t /\ e.VpageHash = d.VpageHash
         /\ e.iblock = d.iblock /\ e.vpage = d.vpage
         /\ \A u \in Ptables \ {t} : e.PtablePcs[u] = d.PtablePcs[u]
         /\ e.link[Entry(t, 0)] = d.PtableFreeList
         /\ \A p \in Places : (\A i \in Indices : p # Entry(t, i)) => e.link[p] = d.link[p]
<1> DEFINE link == [p \in Places |->
              IF p = Entry(t, 0) THEN d.PtableFreeList
              ELSE IF \E i \in Indices : p = Entry(t, i) THEN Null ELSE d.link[p]]
<1>1. link \in [Places -> Blocks \cup Ptables \cup {Null}]
  BY DEF Caches
<1>2. link[Entry(t, 0)] = d.PtableFreeList
  BY PlacesApart
<1>3. \A p \in Places : (\A i \in Indices : p # Entry(t, i)) => link[p] = d.link[p]
  BY PlacesApart
<1>4. e = [d EXCEPT !.link = link, !.PtablePcs[t] = NoPcs, !.PtableFreeList = t]
  BY DEF FreePtable
<1> HIDE DEF link
<1>5. e = [IblockFreeList |-> d.IblockFreeList, IblockLruList |-> d.IblockLruList,
           PtableFreeList |-> t, VpageHash |-> d.VpageHash, iblock |-> d.iblock, link |-> link,
           PtablePcs |-> [d.PtablePcs EXCEPT ![t] = NoPcs], vpage |-> d.vpage]
  BY <1>4 DEF Caches
<1>6. /\ [d.PtablePcs EXCEPT ![t] = NoPcs] \in [Ptables -> [Indices -> Pcs]]
      /\ \A u \in Ptables \ {t} : [d.PtablePcs EXCEPT ![t] = NoPcs][u] = d.PtablePcs[u]
  BY NoBlockTyped DEF Caches
<1>7. e \in Caches
  BY <1>1, <1>5, <1>6 DEF Caches
<1> QED BY <1>2, <1>3, <1>5, <1>6, <1>7

\* XrFreeIblock keeps the structure, with one block less.
LEMMA FreeOK ==
  ASSUME NEW d, Structure(d), NEW b \in Active(d), NEW e, e = FreeIblock(d, b)
  PROVE  Structure(e) /\ Freed(d, e, {b})
<1> DEFINE m == MoveToFree(d, b)
<1>1. /\ m \in Caches /\ Active(m) = Active(d) \ {b}
      /\ BlocksListed(m) /\ KeysDiffer(m) /\ Unlinked(m)
      /\ \A v \in Vpns : PageListed(m, v)
  BY MoveOK
<1>2. /\ m.PtableFreeList = d.PtableFreeList /\ m.PtablePcs = d.PtablePcs
      /\ m.iblock = [d.iblock EXCEPT ![b] = NoBlock]
      /\ \A p \in Places : m.link[p] = IF \E i \in Paths : p = Path(b, i) THEN Null ELSE d.link[p]
  <2>1. PICK v : v = Vpn(d.iblock[b].Pc)
    OBVIOUS
  <2>2. Moved(d, b, v, m)
    BY <2>1, MoveFields
  <2> HIDE DEF m
  <2> QED BY <2>2 DEF Moved
<1> HIDE DEF m
<1>3. d \in Caches /\ b \in Blocks /\ Active(d) \subseteq Blocks
  BY ActiveBlocks DEF Structure
<1>4. \A a \in Active(m) : m.iblock[a] = d.iblock[a] /\ a \in Active(d) /\ a # b
  BY <1>1, <1>2, <1>3 DEF Caches
<1>5. Owned(m) = Owned(d) \ {b}
  BY <1>1, <1>4 DEF Owned
<1>6. \A t \in Ptables, i \in Indices : m.link[Entry(t, i)] = d.link[Entry(t, i)]
  BY <1>2, PlacesApart
<1>7. \A a \in Blocks \ {b}, i \in Paths : m.link[Path(a, i)] = d.link[Path(a, i)]
  BY <1>2, PlacesApart
<1>8. \A a \in Owned(m) : Table(m, a) = Table(d, a) /\ a \in Owned(d) /\ a # b
  BY <1>3, <1>5, <1>7, PlacesApart, ActiveBlocks DEF Table
<1>9. /\ \A a \in Owned(d) : Table(d, a) \in Ptables
      /\ \A a1, a2 \in Owned(d) : Table(d, a1) = Table(d, a2) => a1 = a2
  BY DEF Structure, TablesListed
<1>10. PICK free : Lists(free, Ptables \ Used(d)) /\ FreeTables(d, free)
  BY DEF Structure, TablesListed
<1>11. /\ Len(free) \in Nat /\ DOMAIN free = 1 .. Len(free)
       /\ \A n \in 1 .. Len(free) : free[n] \in Ptables \ Used(d)
  BY <1>10, ListFacts
<1>12. /\ d.PtableFreeList = IF free = <<>> THEN Null ELSE free[1]
       /\ \A n \in DOMAIN free :
            d.link[Entry(free[n], 0)] = IF n < Len(free) THEN free[n + 1] ELSE Null
  BY <1>10 DEF FreeTables
<1>13. CASE ~d.iblock[b].HasPtable
  <2>1. e = m
    BY <1>13 DEF FreeIblock, m
  <2>2. Owned(m) = Owned(d)
    BY <1>5, <1>13 DEF Owned
  <2>3. Used(m) = Used(d)
    BY <1>8, <2>2 DEF Used
  <2>4. FreeTables(m, free)
    BY <1>2, <1>6, <1>11, <1>12, PlacesApart DEF FreeTables
  <2>5. TablesListed(m)
    BY <1>8, <1>9, <1>10, <2>3, <2>4 DEF TablesListed
  <2>6. Structure(m)
    BY <1>1, <2>5 DEF Structure
  <2>7. ASSUME NEW a \in Active(m)
        PROVE  /\ m.iblock[a] = d.iblock[a] /\ Out(m, a) = Out(d, a)
               /\ d.iblock[a].HasPtable => Table(m, a) = Table(d, a)
               /\ \A p \in Out(d, a) : m.link[p] \in {d.link[p], Null} /\ PlacePc(m, p) = PlacePc(d, p)
    <3>1. m.iblock[a] = d.iblock[a] /\ a \in Active(d)
      BY <1>4
    <3>2. d.iblock[a].HasPtable => Table(m, a) = Table(d, a)
      BY <1>8, <3>1 DEF Owned
    <3>3. Out(m, a) = Out(d, a)
      BY <3>1, <3>2 DEF Out
    <3>4. \A p \in Out(d, a) : PlacePc(m, p) = PlacePc(d, p)
      BY <1>2, <3>1, <3>3, PlacePcs
    <3>5. \A p \in Out(d, a) : m.link[p] \in {d.link[p], Null}
      BY <1>2, <3>1, OutPlaces
    <3> QED BY <3>1, <3>2, <3>3, <3>4, <3>5
  <2> QED BY <1>1, <2>1, <2>6, <2>7 DEF Freed
<1>14. CASE d.iblock[b].HasPtable
  <2> DEFINE t == Table(d, b)
  <2>1. b \in Owned(d) /\ t \in Ptables /\ t \in Used(d)
    BY <1>9, <1>14 DEF Owned, Used
  <2>2. e = FreePtable(m, t)
    BY <1>14 DEF FreeIblock, m
  <2> HIDE DEF t
  <2>3. /\ e \in Caches
        /\ e.IblockFreeList = m.IblockFreeList /\ e.IblockLruList = m.IblockLruList
        /\ e.PtableFreeList = t /\ e.VpageHash = m.VpageHash
        /\ e.iblock = m.iblock /\ e.vpage = m.vpage
        /\ \A u \in Ptables \ {t} : e.PtablePcs[u] = m.PtablePcs[u]
        /\ e.link[Entry(t, 0)] = m.PtableFreeList
        /\ \A p \in Places : (\A i \in Indices : p # Entry(t, i)) => e.link[p] = m.link[p]
    BY <1>1, <2>1, <2>2, FreePtableFields
  <2>4. Active(e) = Active(m) /\ Owned(e) = Owned(m)
    BY <2>3 DEF Active, Owned
  <2>5. \A a \in Blocks, i \in Paths : e.link[Path(a, i)] = m.link[Path(a, i)]
    BY <2>3, PlacesApart
  <2>6. \A u \in Ptables \ {t}, i \in Indices : e.link[Entry(u, i)] = d.link[Entry(u, i)]
    BY <1>6, <2>3, PlacesApart
  <2>7. \A a \in Owned(e) : Table(e, a) = Table(d, a) /\ a \in Owned(d) /\ a # b
    BY <1>8, <2>4, <2>5, <1>3, PlacesApart, ActiveBlocks DEF Table
  <2>8. Used(e) = Used(d) \ {t}
    <3>1. Owned(e) = Owned(d) \ {b}
      BY <1>5, <2>4
    <3>2. \A a \in Owned(d) \ {b} : Table(d, a) # t
      BY <1>9, <2>1 DEF t
    <3>3. \A u \in Used(e) : u \in Used(d) \ {t}
      BY <2>7, <3>1, <3>2 DEF Used
    <3>4. \A u \in Used(d) \ {t} : u \in Used(e)
      BY <2>7, <3>1 DEF Used, t
    <3> QED BY <3>3, <3>4
  <2> DEFINE long == <<t>> \o free
  <2>9. /\ Lists(long, (Ptables \ Used(d)) \cup {t}) /\ long[1] = t /\ long # <<>>
        /\ Len(long) = Len(free) + 1
    BY <1>10, <2>1, ListPush
  <2>10. (Ptables \ Used(d)) \cup {t} = Ptables \ Used(e)
    BY <2>1, <2>8
  <2>11. \A n \in 1 .. Len(free) : long[n + 1] = free[n]
    BY <1>11
  <2>12. DOMAIN long = 1 .. Len(long)
    BY <2>9, ListFacts
  <2> HIDE DEF long
  <2>13. FreeTables(e, long)
    <3>1. e.PtableFreeList = IF long = <<>> THEN Null ELSE long[1]
      BY <2>3, <2>9
    <3>2. ASSUME NEW n \in DOMAIN long
          PROVE  e.link[Entry(long[n], 0)] = IF n < Len(long) THEN long[n + 1] ELSE Null
      <4>1. CASE n = 1
        <5>1. e.link[Entry(long[n], 0)] = d.PtableFreeList
          BY <1>2, <2>3, <2>9, <4>1
        <5>2. CASE free = <<>>
          <6>1. Len(free) = 0
            BY <5>2
          <6> QED BY <1>12, <2>9, <4>1, <5>1, <5>2, <6>1
        <5>3. CASE free # <<>>
          <6>1. Len(free) \in Nat \ {0}
            BY <1>10, <5>3, EmptySeq DEF Lists
          <6>2. long[2] = free[1]
            BY <2>11, <6>1
          <6> QED BY <1>12, <2>9, <4>1, <5>1, <5>3, <6>1, <6>2
        <5> QED BY <5>2, <5>3
      <4>2. CASE n # 1
        <5>1. PICK k \in 1 .. Len(free) : n = k + 1
          <6>1. n - 1 \in 1 .. Len(free) /\ n = (n - 1) + 1
            BY <1>11, <2>9, <2>12, <4>2
          <6> QED BY <6>1
        <5>2. long[n] = free[k] /\ free[k] \in Ptables /\ free[k] # t
          BY <1>11, <2>1, <2>11, <5>1
        <5>3. e.link[Entry(long[n], 0)] = IF k < Len(free) THEN free[k + 1] ELSE Null
          BY <1>11, <1>12, <2>6, <5>2, PlacesApart
        <5>4. k < Len(free) => long[n + 1] = free[k + 1]
          BY <1>11, <2>11, <5>1
        <5> QED BY <1>11, <2>9, <5>1, <5>3, <5>4
      <4> QED BY <4>1, <4>2
    <3> QED BY <3>1, <3>2 DEF FreeTables
  <2>14. TablesListed(e)
    BY <1>9, <2>7, <2>9, <2>10, <2>13 DEF TablesListed
  <2>15. BlocksListed(e) /\ KeysDiffer(e) /\ Unlinked(e)
    BY <1>1, <2>3, <2>4, <2>5 DEF BlocksListed, KeysDiffer, Unlinked
  <2>16. ASSUME NEW v \in Vpns PROVE PageListed(e, v)
    <3>1. InPage(e, v) = InPage(m, v)
      BY <2>3, <2>4 DEF InPage
    <3> QED BY <1>1, <2>3, <3>1 DEF PageListed
  <2>17. Structure(e)
    BY <2>3, <2>14, <2>15, <2>16 DEF Structure
  <2>18. ASSUME NEW a \in Active(e)
         PROVE  /\ e.iblock[a] = d.iblock[a] /\ Out(e, a) = Out(d, a)
                /\ d.iblock[a].HasPtable => Table(e, a) = Table(d, a)
                /\ \A p \in Out(d, a) : e.link[p] \in {d.link[p], Null} /\ PlacePc(e, p) = PlacePc(d, p)
    <3>1. e.iblock[a] = d.iblock[a] /\ a \in Active(d) /\ a # b /\ a \in Blocks
      BY <1>3, <1>4, <2>3, <2>4
    <3>2. d.iblock[a].HasPtable => /\ Table(e, a) = Table(d, a) /\ Table(d, a) \in Ptables
                                   /\ Table(d, a) # t
      <4>1. d.iblock[a].HasPtable => a \in Owned(e) /\ a \in Owned(d)
        BY <3>1 DEF Owned
      <4> QED BY <1>9, <2>1, <2>7, <3>1, <4>1 DEF t
    <3>3. Out(e, a) = Out(d, a)
      BY <3>1, <3>2 DEF Out
    <3>4. d.iblock[a].HasPtable => e.PtablePcs[Table(d, a)] = d.PtablePcs[Table(d, a)]
      BY <1>2, <2>3, <3>2
    <3>5. \A p \in Out(d, a) : PlacePc(e, p) = PlacePc(d, p)
      BY <3>1, <3>3, <3>4, PlacePcs
    <3>6. ASSUME NEW p \in Out(d, a) PROVE e.link[p] \in {d.link[p], Null}
      <4>1. CASE d.iblock[a].HasPtable
        BY <2>6, <3>2, <3>6, <4>1 DEF Out
      <4>2. CASE ~d.iblock[a].HasPtable
        BY <1>7, <2>5, <3>1, <3>6, <4>2 DEF Out
      <4> QED BY <4>1, <4>2
    <3> QED BY <3>1, <3>2, <3>3, <3>5, <3>6
  <2> QED BY <1>1, <2>4, <2>17, <2>18 DEF Freed
<1> QED BY <1>13, <1>14

-----------------------------------------------------------------------------
(* The loops.                                                              *)

\* Where the link at place p of block b leads: a block that is in the cache, that starts
\* where control would go, in the same address space if b is not the kernel's, and that
\* knows p.
LinkOK(d, b, p) ==
  /\ d.link[p] \in Active(d)
  /\ d.iblock[d.link[p]].Pc = PlacePc(d, p)
  /\ d.iblock[d.link[p]].Pc \in Reach(d.iblock[b].Pc)
  /\ Vpn(d.iblock[b].Pc) \notin Kernel =>
       /\ Vpn(d.iblock[d.link[p]].Pc) \notin Kernel
       /\ d.iblock[d.link[p]].Asid = d.iblock[b].Asid
  /\ \E i \in 0 .. (CachedByMax - 1) : d.iblock[d.link[p]].CachedBy[i] = p

\* All links do, but perhaps the one at place x, which is about to be made.
LinksOK(d, x) ==
  \A b \in Active(d) : \A p \in Out(d, b) : p # x /\ d.link[p] # Null => LinkOK(d, b, p)

\* A non-empty set of numbers has a least one.
LEMMA LeastNumber ==
  ASSUME NEW S \in SUBSET Nat, S # {}
  PROVE  \E n \in S : \A m \in S : n <= m
<1> DEFINE Less == {ss \in Nat \X Nat : ss[1] < ss[2]}
<1>1. Less = OpToRel(<, Nat)
  BY Zenon DEF OpToRel
<1>2. IsWellFoundedOn(Less, Nat)
  BY <1>1, NatLessThanWellFounded, Zenon
<1>3. PICK n \in S : \A m \in S : <<m, n>> \notin Less
  <2> HIDE DEF Less
  <2> QED BY <1>2, WFMin
<1>4. \A m \in S : ~(m < n)
  BY <1>3
<1>5. \A m \in S : n <= m
  BY <1>4
<1> QED BY <1>5

\* The recursion of FreeEach has a solution.
Solves(f, N, d, list, hazard, cutting) ==
  f = [n \in 0 .. N |-> IF n = 0 THEN d ELSE FreeNext(f[n - 1], list[n], hazard, cutting)]

\* For every length of the list, since each step is defined from the one before.
LEMMA SolutionExists ==
  ASSUME NEW d, NEW list, NEW hazard, NEW cutting, NEW N \in Nat
  PROVE  \E f : Solves(f, N, d, list, hazard, cutting)
<1> DEFINE Bad == {n \in Nat : ~\E f : Solves(f, n, d, list, hazard, cutting)}
<1>1. SUFFICES ASSUME Bad # {} PROVE FALSE
  OBVIOUS
<1>2. PICK n \in Bad : \A m \in Bad : n <= m
  BY <1>1, LeastNumber
<1>3. n \in Nat /\ ~\E f : Solves(f, n, d, list, hazard, cutting)
  BY <1>2
<1>4. CASE n = 0
  <2>1. PICK f : f = [k \in 0 .. 0 |-> d]
    OBVIOUS
  <2>2. f = [k \in 0 .. 0 |-> IF k = 0 THEN d ELSE FreeNext(f[k - 1], list[k], hazard, cutting)]
    BY <2>1
  <2>3. Solves(f, 0, d, list, hazard, cutting)
    BY <2>2 DEF Solves
  <2> QED BY <1>3, <1>4, <2>3
<1>5. CASE n # 0
  <2>1. n - 1 \in Nat /\ n - 1 \notin Bad
    BY <1>2, <1>3, <1>5
  <2>2. PICK g : Solves(g, n - 1, d, list, hazard, cutting)
    BY <2>1
  <2>3. PICK next : next = FreeNext(g[n - 1], list[n], hazard, cutting)
    OBVIOUS
  <2>4. PICK f : f = [k \in 0 .. n |-> IF k = n THEN next ELSE g[k]]
    OBVIOUS
  <2>5. \A k \in 0 .. (n - 1) :
          /\ f[k] = g[k]
          /\ g[k] = IF k = 0 THEN d ELSE FreeNext(g[k - 1], list[k], hazard, cutting)
    <3>1. \A k \in 0 .. (n - 1) : k \in 0 .. n /\ k # n
      BY <1>3
    <3>2. g = [k \in 0 .. (n - 1) |->
                 IF k = 0 THEN d ELSE FreeNext(g[k - 1], list[k], hazard, cutting)]
      BY <2>2 DEF Solves
    <3> QED BY <2>4, <3>1, <3>2
  <2>6. ASSUME NEW k \in 0 .. n
        PROVE  f[k] = IF k = 0 THEN d ELSE FreeNext(f[k - 1], list[k], hazard, cutting)
    <3>1. CASE k = n
      <4>1. f[k] = next /\ f[k - 1] = g[k - 1] /\ k # 0
        BY <1>3, <1>5, <2>4, <2>5, <3>1
      <4> QED BY <2>3, <3>1, <4>1
    <3>2. CASE k = 0
      BY <1>3, <1>5, <2>5, <3>2
    <3>3. CASE k # n /\ k # 0
      <4>1. k \in 0 .. (n - 1) /\ k - 1 \in 0 .. (n - 1)
        BY <1>3, <3>3
      <4> QED BY <2>5, <3>3, <4>1
    <3> QED BY <3>1, <3>2, <3>3
  <2>7. Solves(f, n, d, list, hazard, cutting)
    <3>1. DOMAIN f = 0 .. n /\ f = [k \in 0 .. n |-> f[k]]
      BY <2>4
    <3>2. [k \in 0 .. n |-> f[k]]
            = [k \in 0 .. n |-> IF k = 0 THEN d ELSE FreeNext(f[k - 1], list[k], hazard, cutting)]
      BY <2>6
    <3> QED BY <3>1, <3>2 DEF Solves
  <2> QED BY <1>3, <2>7
<1> QED BY <1>4, <1>5

\* What is left after no step.
LEMMA FreedNone ==
  ASSUME NEW d
  PROVE  Freed(d, d, {})
BY DEF Freed

\* A block is freed after its pointers are invalidated: the links that led to it are cut.
LEMMA InvalidatedLinks ==
  ASSUME NEW d, Structure(d), NEW b \in Active(d), NEW m, m = InvalidatePointers(d, b)
  PROVE  /\ Structure(m) /\ Freed(d, m, {})
         /\ \A x, a : a \in Active(d) /\ LinksOK(d, x) =>
              \A p \in Out(d, a) : p # x => m.link[p] # b
<1>1. d \in Caches /\ b \in Blocks
  BY ActiveBlocks DEF Structure
<1>2. PICK places : places = LinkedFrom(d, b, DOMAIN d.iblock[b].CachedBy)
  OBVIOUS
<1>3. d.iblock[b].CachedBy \in [0 .. (CachedByMax - 1) -> Places \cup {Null}]
  BY <1>1 DEF Caches, Iblocks
<1>4. DOMAIN d.iblock[b].CachedBy = 0 .. (CachedByMax - 1)
  BY <1>3
<1>5. \A p \in places : p \in Places /\ d.link[p] \in Blocks
  BY <1>1, <1>2, <1>4, LinkedFromPlaces
<1>6. m = Cut(d, places)
  BY <1>2 DEF InvalidatePointers
<1>7. Structure(m) /\ Freed(d, m, {})
  BY <1>5, <1>6, CutOK
<1>8. \A p \in Places : m.link[p] = IF p \in places THEN Null ELSE d.link[p]
  BY <1>1, <1>6, CutFields
<1>9. ASSUME NEW x, NEW a \in Active(d), LinksOK(d, x), NEW p \in Out(d, a), p # x
      PROVE  m.link[p] # b
  <2>1. p \in Places
    BY OutPlaces
  <2>2. SUFFICES ASSUME m.link[p] = b PROVE FALSE
    OBVIOUS
  <2>3. p \notin places /\ d.link[p] = b /\ b # Null
    BY <1>1, <1>8, <2>1, <2>2, PlacesApart
  <2>4. LinkOK(d, a, p)
    BY <1>9, <2>3 DEF LinksOK
  <2>5. PICK i \in 0 .. (CachedByMax - 1) : d.iblock[b].CachedBy[i] = p
    BY <2>3, <2>4 DEF LinkOK
  <2>6. p \in places
    BY <1>2, <1>4, <2>1, <2>3, <2>5, PlacesApart DEF LinkedFrom
  <2> QED BY <2>3, <2>6
<1> QED BY <1>7, <1>9

\* The links that are left lead to blocks that are left.
LEMMA LinksLeft ==
  ASSUME NEW d, NEW e, NEW gone, Structure(d), Structure(e), Freed(d, e, gone), NEW x, LinksOK(d, x),
         \A a \in Active(e) : \A p \in Out(e, a) : p # x => e.link[p] \notin gone
  PROVE  LinksOK(e, x)
<1> SUFFICES ASSUME NEW a \in Active(e), NEW p \in Out(e, a), p # x, e.link[p] # Null
             PROVE  LinkOK(e, a, p)
  BY DEF LinksOK
<1>1. /\ a \in Active(d) /\ e.iblock[a] = d.iblock[a] /\ p \in Out(d, a)
      /\ e.link[p] = d.link[p] /\ PlacePc(e, p) = PlacePc(d, p)
  BY DEF Freed
<1>2. LinkOK(d, a, p)
  BY <1>1 DEF LinksOK
<1>3. d.link[p] \in Active(e) /\ e.iblock[d.link[p]] = d.iblock[d.link[p]]
  BY <1>1, <1>2 DEF LinkOK, Freed
<1> QED BY <1>1, <1>2, <1>3 DEF LinkOK

\* One step of a loop.
LEMMA StepOK ==
  ASSUME NEW d, Structure(d), NEW b \in Active(d), NEW hazard, NEW cutting \in BOOLEAN,
         NEW e, e = FreeNext(d, b, hazard, cutting)
  PROVE  /\ Structure(e) /\ Freed(d, e, {b} \ {hazard})
         /\ \A x : cutting /\ LinksOK(d, x) => LinksOK(e, x)
<1>1. CASE b = hazard
  <2>1. e = d /\ {b} \ {hazard} = {}
    BY <1>1 DEF FreeNext
  <2> QED BY <2>1, FreedNone
<1>2. CASE b # hazard /\ ~cutting
  <2>1. e = FreeIblock(d, b) /\ {b} \ {hazard} = {b}
    BY <1>2 DEF FreeNext
  <2> QED BY <1>2, <2>1, FreeOK
<1>3. CASE b # hazard /\ cutting
  <2>1. PICK m : m = InvalidatePointers(d, b)
    OBVIOUS
  <2>2. e = FreeIblock(m, b) /\ {b} \ {hazard} = {b}
    BY <1>3, <2>1 DEF FreeNext
  <2>3. /\ Structure(m) /\ Freed(d, m, {})
        /\ \A x, a : a \in Active(d) /\ LinksOK(d, x) =>
             \A p \in Out(d, a) : p # x => m.link[p] # b
    BY <2>1, InvalidatedLinks
  <2>4. b \in Active(m)
    BY <2>3 DEF Freed
  <2>5. Structure(e) /\ Freed(m, e, {b})
    BY <2>2, <2>3, <2>4, FreeOK
  <2>6. Freed(d, e, {b})
    <3>1. {} \cup {b} = {b}
      OBVIOUS
    <3> QED BY <2>3, <2>5, <3>1, FreedThen
  <2>7. ASSUME NEW x, LinksOK(d, x) PROVE LinksOK(e, x)
    <3>1. ASSUME NEW a \in Active(e), NEW p \in Out(e, a), p # x PROVE e.link[p] \notin {b}
      <4>1. a \in Active(m) /\ Out(e, a) = Out(m, a) /\ e.link[p] \in {m.link[p], Null}
        BY <2>5, <3>1 DEF Freed
      <4>2. a \in Active(d) /\ Out(m, a) = Out(d, a)
        BY <2>3, <4>1 DEF Freed
      <4>3. m.link[p] # b
        BY <2>3, <2>7, <3>1, <4>1, <4>2
      <4>4. b # Null
        BY OutPlaces, PlacesApart
      <4> QED BY <4>1, <4>3, <4>4
    <3> QED BY <2>5, <2>6, <2>7, <3>1, LinksLeft
  <2> QED BY <2>2, <2>5, <2>6, <2>7
<1> QED BY <1>1, <1>2, <1>3

\* A loop frees the blocks of its list, but hazard.
LEMMA EachOK ==
  ASSUME NEW d, Structure(d), NEW list \in Seq(Active(d)), IsInjective(list),
         NEW hazard, NEW cutting \in BOOLEAN, NEW e, e = FreeEach(d, list, hazard, cutting)
  PROVE  /\ Structure(e) /\ Freed(d, e, ToSet(list) \ {hazard})
         /\ \A x : cutting /\ LinksOK(d, x) => LinksOK(e, x)
<1>0. /\ Len(list) \in Nat /\ DOMAIN list = 1 .. Len(list)
      /\ \A i \in 1 .. Len(list) : list[i] \in Active(d)
      /\ \A i, j \in 1 .. Len(list) : list[i] = list[j] => i = j
  BY DEF IsInjective
<1> DEFINE g == CHOOSE f : Solves(f, Len(list), d, list, hazard, cutting)
<1>1. Solves(g, Len(list), d, list, hazard, cutting)
  BY <1>0, SolutionExists
<1>2. e = g[Len(list)]
  BY DEF FreeEach, Solves
<1> HIDE DEF g
<1>3. g[0] = d /\ \A n \in 1 .. Len(list) : g[n] = FreeNext(g[n - 1], list[n], hazard, cutting)
  <2>1. g = [n \in 0 .. Len(list) |->
               IF n = 0 THEN d ELSE FreeNext(g[n - 1], list[n], hazard, cutting)]
    BY <1>1 DEF Solves
  <2>2. 0 \in 0 .. Len(list) /\ \A n \in 1 .. Len(list) : n \in 0 .. Len(list) /\ n # 0
    BY <1>0
  <2> QED BY <2>1, <2>2
<1> DEFINE first(n) == {list[i] : i \in 1 .. n}
           OK(n) == /\ Structure(g[n]) /\ Freed(d, g[n], first(n) \ {hazard})
                    /\ \A x : cutting /\ LinksOK(d, x) => LinksOK(g[n], x)
           Bad == {n \in 0 .. Len(list) : ~OK(n)}
<1>4. OK(0)
  <2>1. first(0) \ {hazard} = {}
    OBVIOUS
  <2>2. Structure(g[0]) /\ Freed(d, g[0], {}) /\ \A x : LinksOK(d, x) => LinksOK(g[0], x)
    BY <1>3, FreedNone
  <2> HIDE DEF first
  <2> QED BY <2>1, <2>2
<1>5. ASSUME NEW n \in 1 .. Len(list), OK(n - 1) PROVE OK(n)
  <2>1. PICK b : b = list[n]
    OBVIOUS
  <2>2. b \in Active(d) /\ b \notin first(n - 1) /\ first(n) = first(n - 1) \cup {b}
    <3>1. b \in Active(d)
      BY <1>0, <2>1
    <3>2. b \notin first(n - 1)
      BY <1>0, <2>1
    <3>3. 1 .. n = (1 .. (n - 1)) \cup {n}
      OBVIOUS
    <3>4. first(n) = first(n - 1) \cup {b}
      BY <2>1, <3>3
    <3> QED BY <3>1, <3>2, <3>4
  <2> HIDE DEF first
  <2>3. PICK f : f = g[n - 1]
    OBVIOUS
  <2>4. /\ Structure(f) /\ Freed(d, f, first(n - 1) \ {hazard})
        /\ \A x : cutting /\ LinksOK(d, x) => LinksOK(f, x)
    BY <1>5, <2>3
  <2>5. b \in Active(f)
    BY <2>2, <2>4 DEF Freed
  <2>6. PICK h : h = g[n] /\ h = FreeNext(f, b, hazard, cutting)
    BY <1>3, <2>1, <2>3
  <2>7. /\ Structure(h) /\ Freed(f, h, {b} \ {hazard})
        /\ \A x : cutting /\ LinksOK(f, x) => LinksOK(h, x)
    BY <2>4, <2>5, <2>6, StepOK
  <2>8. (first(n - 1) \ {hazard}) \cup ({b} \ {hazard}) = first(n) \ {hazard}
    BY <2>2
  <2>9. Freed(d, h, first(n) \ {hazard})
    BY <2>4, <2>7, <2>8, FreedThen
  <2> QED BY <2>4, <2>6, <2>7, <2>9
<1>6. OK(Len(list))
  <2> HIDE DEF OK
  <2>1. SUFFICES ASSUME Bad # {} PROVE FALSE
    BY <1>0
  <2>2. Bad \in SUBSET Nat
    BY <1>0
  <2>3. PICK n \in Bad : \A m \in Bad : n <= m
    BY <2>1, <2>2, LeastNumber
  <2>4. n \in 0 .. Len(list) /\ ~OK(n) /\ n # 0
    BY <1>4, <2>3
  <2>5. n \in 1 .. Len(list) /\ n - 1 \in 0 .. Len(list) /\ ~(n <= n - 1)
    BY <1>0, <2>4
  <2>6. n - 1 \notin Bad
    BY <2>3, <2>5
  <2>7. OK(n - 1)
    BY <2>5, <2>6
  <2> QED BY <1>5, <2>4, <2>5, <2>7
<1>7. first(Len(list)) = ToSet(list)
  BY <1>0 DEF ToSet
<1> HIDE DEF first
<1> QED BY <1>2, <1>6, <1>7

-----------------------------------------------------------------------------
(* Allocation.                                                             *)

\* XrPopulateIblockList frees a block, whatever the hazard is.
LEMMA PopulateOK ==
  ASSUME NEW d, Structure(d), d.IblockFreeList = <<>>, NEW hazard,
         NEW e, e = PopulateIblockList(d, hazard)
  PROVE  /\ Structure(e) /\ e.IblockFreeList # <<>>
         /\ \E gone : Freed(d, e, gone) /\ hazard \notin gone
         /\ \A x : LinksOK(d, x) => LinksOK(e, x)
<1> DEFINE lru == d.IblockLruList   back == Reverse(lru)   list == SubSeq(back, 1, Reclaim)
<1>1. Lists(lru, Active(d)) /\ Lists(d.IblockFreeList, Blocks \ Active(d)) /\ Active(d) \subseteq Blocks
  BY ActiveBlocks DEF Structure, BlocksListed
<1>2. Active(d) = Blocks
  <2>1. Blocks \ Active(d) = {}
    BY <1>1, ListEmpty
  <2> QED BY <1>1, <2>1
<1>3. /\ Len(lru) \in Nat /\ lru \in Seq(Active(d))
      /\ \A i \in 1 .. Len(lru) : lru[i] \in Active(d)
      /\ \A i, j \in 1 .. Len(lru) : lru[i] = lru[j] => i = j
  BY <1>1, ListFacts DEF Lists
<1>4. Len(lru) = Cardinality(Blocks)
  <2>1. lru \in SetToSeqs(Blocks)
    BY <1>1, <1>2, ListOfSeqs, SizeAssumption
  <2>2. DOMAIN lru = 1 .. Cardinality(Blocks) /\ Cardinality(Blocks) \in Nat
    BY <2>1, FS_CardinalityType, SizeAssumption DEF SetToSeqs
  <2>3. lru \in Seq(Blocks)
    BY <1>2, <1>3
  <2> QED BY <2>2, <2>3
<1>5. Reclaim \in Nat /\ 2 <= Reclaim /\ Reclaim <= Len(lru)
  <2>1. Cardinality(Blocks) \in Nat
    BY FS_CardinalityType, SizeAssumption
  <2> QED BY <1>4, <2>1, SizeAssumption
<1>6. \A i \in 1 .. Reclaim : back[i] = lru[(Len(lru) - i) + 1] /\ (Len(lru) - i) + 1 \in 1 .. Len(lru)
  <2> TAKE i \in 1 .. Reclaim
  <2>1. i \in 1 .. Len(lru) /\ (Len(lru) - i) + 1 \in 1 .. Len(lru)
    BY <1>3, <1>5
  <2>2. back = [n \in 1 .. Len(lru) |-> lru[(Len(lru) - n) + 1]]
    BY DEF Reverse
  <2> HIDE DEF back, lru
  <2> QED BY <2>1, <2>2
<1> HIDE DEF lru, back
<1>7. /\ list \in Seq(Active(d)) /\ Len(list) = Reclaim
      /\ \A i \in 1 .. Reclaim : list[i] = back[i]
  <2>1. \A i \in 1 .. Reclaim : back[i] \in Active(d)
    BY <1>3, <1>6
  <2>2. /\ list \in Seq(Active(d))
        /\ Len(list) = IF 1 <= Reclaim THEN Reclaim - 1 + 1 ELSE 0
        /\ \A i \in 1 .. Reclaim - 1 + 1 : list[i] = back[1 + i - 1]
    BY <1>5, <2>1, SubSeqProperties
  <2> HIDE DEF list
  <2>3. Len(list) = Reclaim
    BY <1>5, <2>2
  <2>4. \A i \in 1 .. Reclaim : list[i] = back[i]
    <3> TAKE i \in 1 .. Reclaim
    <3>1. i \in 1 .. Reclaim - 1 + 1 /\ 1 + i - 1 = i
      BY <1>5
    <3> QED BY <2>2, <3>1
  <2> QED BY <2>2, <2>3, <2>4
<1>8. e = FreeEach(d, list, hazard, TRUE)
  BY DEF PopulateIblockList, list, back, lru
<1> HIDE DEF list
<1>9. ASSUME NEW i \in 1 .. Reclaim, NEW j \in 1 .. Reclaim, list[i] = list[j] PROVE i = j
  <2>1. PICK n, m : n = (Len(lru) - i) + 1 /\ m = (Len(lru) - j) + 1
    OBVIOUS
  <2>2. /\ n \in 1 .. Len(lru) /\ back[i] = lru[n]
        /\ m \in 1 .. Len(lru) /\ back[j] = lru[m]
    BY <1>6, <2>1
  <2>3. back[i] = back[j]
    BY <1>7, <1>9
  <2>4. n = m
    BY <1>3, <2>2, <2>3
  <2> QED BY <1>3, <2>1, <2>4
<1>10. IsInjective(list)
  BY <1>7, <1>9 DEF IsInjective
<1>11. /\ Structure(e) /\ Freed(d, e, ToSet(list) \ {hazard})
       /\ \A x : LinksOK(d, x) => LinksOK(e, x)
  BY <1>7, <1>8, <1>10, EachOK
<1>12. \E b \in ToSet(list) : b # hazard
  <2>1. 1 \in DOMAIN list /\ 2 \in DOMAIN list
    BY <1>5, <1>7
  <2>2. list[1] # list[2]
    BY <1>5, <1>9
  <2>3. list[1] \in ToSet(list) /\ list[2] \in ToSet(list)
    BY <2>1 DEF ToSet
  <2>4. list[1] # hazard \/ list[2] # hazard
    BY <2>2
  <2> QED BY <2>3, <2>4
<1>13. PICK b \in ToSet(list) : b # hazard
  BY <1>12
<1>14. b \in Blocks \ Active(e)
  BY <1>2, <1>7, <1>11, <1>13 DEF Freed, ToSet
<1>15. e.IblockFreeList # <<>>
  <2>1. Lists(e.IblockFreeList, Blocks \ Active(e))
    BY <1>11 DEF Structure, BlocksListed
  <2> QED BY <1>14, <2>1, ListEmpty
<1> QED BY <1>11, <1>15

\* g is e with the free block b in use, holding rec.
Inserted(e, b, rec, g) ==
  /\ g \in Caches
  /\ g.IblockFreeList = Tail(e.IblockFreeList) /\ g.IblockLruList = <<b>> \o e.IblockLruList
  /\ g.PtableFreeList = e.PtableFreeList /\ g.PtablePcs = e.PtablePcs
  /\ g.link = e.link /\ g.iblock = [e.iblock EXCEPT ![b] = rec]
  /\ g.VpageHash = e.VpageHash \cup {Vpn(rec.Pc)}
  /\ g.vpage[Vpn(rec.Pc)] =
       [References |-> IF Vpn(rec.Pc) \in e.VpageHash THEN e.vpage[Vpn(rec.Pc)].References + 1 ELSE 1,
        IblockVpnList |-> <<b>> \o e.vpage[Vpn(rec.Pc)].IblockVpnList]
  /\ \A v \in Vpns \ {Vpn(rec.Pc)} : g.vpage[v] = e.vpage[v]

\* What XrAllocateIblock and XrInsertIblockInVpage do.
LEMMA InsertFields ==
  ASSUME NEW e, Structure(e), e.IblockFreeList # <<>>, NEW b, b = e.IblockFreeList[1],
         NEW rec \in Iblocks,
         NEW f, f = [e EXCEPT !.IblockFreeList = Tail(@), !.IblockLruList = <<b>> \o @,
                              !.iblock[b] = rec],
         NEW g, g = InsertIblockInVpage(f, b, rec.Pc)
  PROVE  /\ Inserted(e, b, rec, g) /\ b \in Blocks \ Active(e)
         /\ Lists(Tail(e.IblockFreeList), (Blocks \ Active(e)) \ {b})
<1>1. e \in Caches /\ Lists(e.IblockFreeList, Blocks \ Active(e))
  BY DEF Structure, BlocksListed
<1>2. b \in Blocks \ Active(e) /\ Lists(Tail(e.IblockFreeList), (Blocks \ Active(e)) \ {b})
  BY <1>1, ListPop
<1>3. Tail(e.IblockFreeList) \in Seq(Blocks)
  <2>1. Tail(e.IblockFreeList) \in Seq((Blocks \ Active(e)) \ {b})
    BY <1>2 DEF Lists
  <2> QED BY <2>1, SeqMonotonic
<1>4. <<b>> \o e.IblockLruList \in Seq(Blocks)
  <2>1. e.IblockLruList \in Seq(Blocks) /\ <<b>> \in Seq(Blocks)
    BY <1>1, <1>2 DEF Caches
  <2> QED BY <2>1, ConcatProperties
<1>5. PICK v : v = Vpn(rec.Pc)
  OBVIOUS
<1>6. rec.Pc \in Pcs /\ v \in Vpns
  BY <1>5 DEF Iblocks, Vpns
<1>7. e.vpage \in [Vpns -> [References : Int, IblockVpnList : Seq(Blocks)]] /\ e.VpageHash \subseteq Vpns
  BY <1>1 DEF Caches
<1> DEFINE page == [References |-> IF v \in e.VpageHash THEN e.vpage[v].References + 1 ELSE 1,
                    IblockVpnList |-> <<b>> \o e.vpage[v].IblockVpnList]
<1>8. page \in [References : Int, IblockVpnList : Seq(Blocks)]
  <2>1. e.vpage[v].References \in Int /\ e.vpage[v].IblockVpnList \in Seq(Blocks) /\ <<b>> \in Seq(Blocks)
    BY <1>2, <1>6, <1>7
  <2>2. <<b>> \o e.vpage[v].IblockVpnList \in Seq(Blocks)
    BY <2>1, ConcatProperties
  <2> QED BY <2>1, <2>2
<1> DEFINE free == Tail(e.IblockFreeList)   lru == <<b>> \o e.IblockLruList
<1>9. f = [IblockFreeList |-> free, IblockLruList |-> lru,
           PtableFreeList |-> e.PtableFreeList, VpageHash |-> e.VpageHash,
           iblock |-> [e.iblock EXCEPT ![b] = rec], link |-> e.link,
           PtablePcs |-> e.PtablePcs, vpage |-> e.vpage]
  BY <1>1 DEF Caches
<1> HIDE DEF free, lru
<1>10. f.vpage = e.vpage /\ f.VpageHash = e.VpageHash
  BY <1>9
<1>p. page = [References |-> IF Vpn(rec.Pc) \in e.VpageHash THEN e.vpage[Vpn(rec.Pc)].References + 1 ELSE 1,
              IblockVpnList |-> <<b>> \o e.vpage[Vpn(rec.Pc)].IblockVpnList]
  BY <1>5
<1>11. PICK hash, pages : hash = e.VpageHash \cup {v} /\ pages = [e.vpage EXCEPT ![v] = page]
  OBVIOUS
<1>g. g = [f EXCEPT !.VpageHash = hash, !.vpage = pages]
  BY <1>5, <1>6, <1>7, <1>9, <1>10, <1>11 DEF InsertIblockInVpage
<1> HIDE DEF page
<1>i. PICK blocks : blocks = [e.iblock EXCEPT ![b] = rec]
  OBVIOUS
<1>12. g = [IblockFreeList |-> free, IblockLruList |-> lru,
            PtableFreeList |-> e.PtableFreeList, VpageHash |-> hash,
            iblock |-> blocks, link |-> e.link,
            PtablePcs |-> e.PtablePcs, vpage |-> pages]
  <2>1. f = [IblockFreeList |-> free, IblockLruList |-> lru,
             PtableFreeList |-> e.PtableFreeList, VpageHash |-> e.VpageHash,
             iblock |-> blocks, link |-> e.link,
             PtablePcs |-> e.PtablePcs, vpage |-> e.vpage]
    BY <1>9, <1>i
  <2> QED BY ONLY <1>g, <2>1
<1>13. /\ pages \in [Vpns -> [References : Int, IblockVpnList : Seq(Blocks)]]
       /\ pages[v] = page
       /\ \A w \in Vpns \ {v} : pages[w] = e.vpage[w]
  BY <1>6, <1>7, <1>8, <1>11
<1>14. blocks \in [Blocks -> Iblocks] /\ hash \in SUBSET Vpns
  BY <1>1, <1>2, <1>6, <1>7, <1>11, <1>i DEF Caches
<1>15. g \in Caches
  <2>1. free \in Seq(Blocks) /\ lru \in Seq(Blocks)
    BY <1>3, <1>4 DEF free, lru
  <2> QED BY <1>1, <1>12, <1>13, <1>14, <2>1 DEF Caches
<1>16. /\ g.IblockFreeList = free /\ g.IblockLruList = lru
       /\ g.PtableFreeList = e.PtableFreeList /\ g.PtablePcs = e.PtablePcs
       /\ g.link = e.link /\ g.iblock = blocks /\ g.VpageHash = hash /\ g.vpage = pages
  BY <1>12
<1>17. g.vpage[v] = page /\ \A w \in Vpns \ {v} : g.vpage[w] = e.vpage[w]
  BY <1>13, <1>16
<1>18. Inserted(e, b, rec, g)
  BY <1>5, <1>11, <1>15, <1>16, <1>17, <1>i, <1>p DEF Inserted, free, lru
<1> QED BY <1>2, <1>18

\* No block is found by pc in address space a.
KeyFree(e, pc, a) == \A b \in Active(e) : ~(e.iblock[b].Pc = pc /\ e.iblock[b].Asid = a)

\* g is e with one block more.
Added(e, b, rec, g) ==
  /\ Structure(g) /\ Active(g) = Active(e) \cup {b} /\ g.IblockLruList[1] = b
  /\ g.iblock[b] = rec /\ \A a \in Active(e) : g.iblock[a] = e.iblock[a]
  /\ \A x : LinksOK(e, x) => LinksOK(g, x)

\* A block in use that has no table, at a key that no block had.
LEMMA InsertOK ==
  ASSUME NEW e, Structure(e), NEW b \in Blocks \ Active(e),
         Lists(Tail(e.IblockFreeList), (Blocks \ Active(e)) \ {b}),
         NEW rec \in Iblocks, rec.HasPtable = FALSE,
         KeyFree(e, rec.Pc, rec.Asid), NEW g, Inserted(e, b, rec, g)
  PROVE  Added(e, b, rec, g)
<1>1. /\ e \in Caches /\ Lists(e.IblockLruList, Active(e)) /\ Active(e) \subseteq Blocks
      /\ Lists(e.IblockFreeList, Blocks \ Active(e))
  BY ActiveBlocks DEF Structure, BlocksListed
<1>2. Lists(g.IblockLruList, Active(e) \cup {b}) /\ g.IblockLruList[1] = b
  BY <1>1, ListPush DEF Inserted
<1>3. Active(g) = Active(e) \cup {b}
  BY <1>2 DEF Active, Lists
<1>4. BlocksListed(g)
  <2>1. (Blocks \ Active(e)) \ {b} = Blocks \ Active(g)
    BY <1>3
  <2> QED BY <1>2, <1>3, <2>1 DEF BlocksListed, Inserted
<1>5. g.iblock[b] = rec /\ \A a \in Active(e) : g.iblock[a] = e.iblock[a]
  BY <1>1 DEF Inserted, Caches
<1>6. KeysDiffer(g)
  BY <1>3, <1>5 DEF KeysDiffer, Structure, KeyFree
<1>7. Owned(g) = Owned(e)
  BY <1>3, <1>5 DEF Owned
<1>8. g.link = e.link /\ g.PtableFreeList = e.PtableFreeList /\ g.PtablePcs = e.PtablePcs
  BY DEF Inserted
<1>9. \A a : Table(g, a) = Table(e, a)
  BY <1>8 DEF Table
<1>10. Used(g) = Used(e)
  BY <1>7, <1>9 DEF Used
<1>11. TablesListed(g)
  <2>1. PICK free : Lists(free, Ptables \ Used(e)) /\ FreeTables(e, free)
    BY DEF Structure, TablesListed
  <2>2. FreeTables(g, free)
    BY <1>8, <2>1 DEF FreeTables
  <2> QED BY <1>7, <1>9, <1>10, <2>1, <2>2 DEF Structure, TablesListed
<1>12. Unlinked(g)
  BY <1>3, <1>8 DEF Structure, Unlinked
<1>13. ASSUME NEW v \in Vpns PROVE PageListed(g, v)
  <2>1. PageListed(e, v)
    BY DEF Structure
  <2>2. CASE v # Vpn(rec.Pc)
    <3>1. InPage(g, v) = InPage(e, v)
      BY <1>3, <1>5, <2>2 DEF InPage
    <3>2. g.vpage[v] = e.vpage[v] /\ (v \in g.VpageHash <=> v \in e.VpageHash)
      BY <2>2 DEF Inserted
    <3> QED BY <2>1, <3>1, <3>2 DEF PageListed
  <2>3. CASE v = Vpn(rec.Pc)
    <3>1. InPage(g, v) = InPage(e, v) \cup {b} /\ b \notin InPage(e, v)
      BY <1>3, <1>5, <2>3 DEF InPage
    <3>2. PICK list : list = e.vpage[v].IblockVpnList
      OBVIOUS
    <3> DEFINE long == <<b>> \o list
    <3>3. Lists(list, InPage(e, v)) /\ Len(list) \in Nat
      BY <2>1, <3>2, ListFacts DEF PageListed
    <3>4. Lists(long, InPage(e, v) \cup {b}) /\ Len(long) = Len(list) + 1 /\ long # <<>>
      BY <3>1, <3>3, ListPush
    <3>5. /\ g.vpage[v].IblockVpnList = long /\ v \in g.VpageHash
          /\ g.vpage[v].References = IF v \in e.VpageHash THEN e.vpage[v].References + 1 ELSE 1
      <4>1. /\ g.VpageHash = e.VpageHash \cup {v}
            /\ g.vpage[v] = [References |-> IF v \in e.VpageHash THEN e.vpage[v].References + 1 ELSE 1,
                             IblockVpnList |-> long]
        BY <2>3, <3>2 DEF Inserted
      <4> QED BY ONLY <4>1
    <3> HIDE DEF long
    <3>6. v \in e.VpageHash => e.vpage[v].References = Len(list)
      BY <2>1, <3>2 DEF PageListed
    <3>7. v \notin e.VpageHash => Len(list) = 0
      <4>1. v \notin e.VpageHash => list = <<>>
        BY <2>1, <3>2 DEF PageListed
      <4>2. list = <<>> => Len(list) = 0
        OBVIOUS
      <4> QED BY <4>1, <4>2
    <3>8. g.vpage[v].References = Len(long)
      BY <3>3, <3>4, <3>5, <3>6, <3>7
    <3> QED BY <3>1, <3>4, <3>5, <3>8 DEF PageListed
  <2> QED BY <2>2, <2>3
<1>14. Structure(g)
  BY <1>4, <1>6, <1>11, <1>12, <1>13 DEF Structure, Inserted
<1>15. ASSUME NEW x, LinksOK(e, x) PROVE LinksOK(g, x)
  <2> SUFFICES ASSUME NEW a \in Active(g), NEW p \in Out(g, a), p # x, g.link[p] # Null
               PROVE  LinkOK(g, a, p)
    BY DEF LinksOK
  <2>1. a # b
    <3> SUFFICES ASSUME a = b PROVE FALSE
      OBVIOUS
    <3>1. PICK i \in Paths : p = Path(b, i)
      BY <1>5 DEF Out
    <3>2. e.link[p] = Null
      BY <3>1 DEF Structure, Unlinked
    <3> QED BY <1>8, <3>2
  <2>2. a \in Active(e) /\ g.iblock[a] = e.iblock[a]
    BY <1>3, <1>5, <2>1
  <2>3. Out(g, a) = Out(e, a)
    <3>1. Table(g, a) = Table(e, a)
      BY <1>9
    <3> QED BY <2>2, <3>1 DEF Out
  <2>4. PlacePc(g, p) = PlacePc(e, p)
    BY <1>8, <2>2, <2>3, PlacePcs
  <2>5. LinkOK(e, a, p)
    BY <1>8, <1>15, <2>2, <2>3 DEF LinksOK
  <2>6. e.link[p] \in Active(e) /\ g.iblock[e.link[p]] = e.iblock[e.link[p]]
    BY <1>5, <2>5 DEF LinkOK
  <2> QED BY <1>3, <1>8, <2>2, <2>4, <2>5, <2>6 DEF LinkOK
<1> QED BY <1>2, <1>3, <1>5, <1>14, <1>15 DEF Added

\* The images of the address spaces.
ImagesTyped(im) ==
  /\ im \in [Asids -> [Vpns -> Images]]
  /\ \A v \in Vpns \cap Kernel : \A a, b \in Asids : im[a][v] = im[b][v]

\* A block holds what a fetch at its key gives, and has a table only if it ends in JALR.
Filled(r, im) ==
  /\ r.Asid \in Asids /\ r.Insts = Decoded(im[r.Asid][Vpn(r.Pc)], r.Pc)
  /\ r.PteKernel = (Vpn(r.Pc) \in Kernel)
  /\ r.HasPtable => Last(r.Insts).op = "jalr"

\* A block for pc that is made on demand: the structure and the links are kept, and so are
\* the hazard, its links and what it holds.
LEMMA NewOK ==
  ASSUME NEW d, Structure(d), NEW pc \in Pcs, asid \in Asids, ImagesTyped(image),
         Lookup(d, pc) = {}, NEW hazard, hazard = Null \/ hazard \in Active(d),
         NEW g, g = NewIblock(d, hazard, pc), NEW b, b = g.IblockLruList[1]
  PROVE  /\ Structure(g) /\ b \in Active(g)
         /\ \A x : LinksOK(d, x) => LinksOK(g, x)
         /\ g.iblock[b].Pc = pc /\ g.iblock[b].Asid = asid /\ Filled(g.iblock[b], image)
         /\ \A a \in Active(g) \ {b} : a \in Active(d) /\ g.iblock[a] = d.iblock[a]
         /\ hazard # Null =>
              /\ hazard \in Active(g) /\ g.iblock[hazard] = d.iblock[hazard]
              /\ Out(g, hazard) = Out(d, hazard)
              /\ \A p \in Out(d, hazard) : PlacePc(g, p) = PlacePc(d, p)
<1>1. PICK e : e = IF d.IblockFreeList = <<>> THEN PopulateIblockList(d, hazard) ELSE d
  OBVIOUS
<1>2. /\ Structure(e) /\ e.IblockFreeList # <<>>
      /\ \E gone : Freed(d, e, gone) /\ hazard \notin gone
      /\ \A x : LinksOK(d, x) => LinksOK(e, x)
  <2>1. CASE d.IblockFreeList = <<>>
    <3>1. e = PopulateIblockList(d, hazard)
      BY <1>1, <2>1
    <3> QED BY <2>1, <3>1, PopulateOK
  <2>2. CASE d.IblockFreeList # <<>>
    BY <1>1, <2>2, FreedNone
  <2> QED BY <2>1, <2>2
<1>3. PICK gone : Freed(d, e, gone) /\ hazard \notin gone
  BY <1>2
<1>4. PICK n : n = e.IblockFreeList[1]
  OBVIOUS
<1>r. PICK rec : rec = [NoBlock EXCEPT !.Pc = pc, !.Asid = asid,
                                       !.Insts = Decoded(image[asid][Vpn(pc)], pc),
                                       !.PteKernel = Vpn(pc) \in Kernel]
  OBVIOUS
<1>5. rec.Pc = pc /\ rec.Asid = asid /\ rec.HasPtable = FALSE /\ Filled(rec, image)
  BY <1>r DEF NoBlock, Filled
<1>6. rec \in Iblocks
  <2>1. Vpn(pc) \in Vpns
    BY DEF Vpns
  <2>2. image[asid][Vpn(pc)] \in Images
    BY <2>1 DEF ImagesTyped
  <2>3. Decoded(image[asid][Vpn(pc)], pc) \in Fetches
    BY <2>2 DEF Fetches
  <2>4. (Vpn(pc) \in Kernel) \in BOOLEAN
    OBVIOUS
  <2> QED BY <1>r, <2>3, <2>4, NoBlockTyped DEF Iblocks
<1>7. PICK f : f = [e EXCEPT !.IblockFreeList = Tail(@), !.IblockLruList = <<n>> \o @,
                             !.iblock[n] = rec]
  OBVIOUS
<1>8. g = InsertIblockInVpage(f, n, pc)
  BY <1>1, <1>4, <1>7, <1>r DEF NewIblock
<1>9. /\ Inserted(e, n, rec, g) /\ n \in Blocks \ Active(e)
      /\ Lists(Tail(e.IblockFreeList), (Blocks \ Active(e)) \ {n})
  BY <1>2, <1>4, <1>5, <1>6, <1>7, <1>8, InsertFields
<1>10. \A a \in Active(e) : a \in Active(d) /\ e.iblock[a] = d.iblock[a]
  BY <1>3 DEF Freed
<1>11. KeyFree(e, rec.Pc, rec.Asid)
  BY <1>5, <1>10 DEF Lookup, KeyFree
<1>a. Added(e, n, rec, g)
  BY <1>2, <1>5, <1>6, <1>9, <1>11, InsertOK
<1>12. /\ Structure(g) /\ Active(g) = Active(e) \cup {n} /\ g.IblockLruList[1] = n
       /\ g.iblock[n] = rec /\ \A a \in Active(e) : g.iblock[a] = e.iblock[a]
       /\ \A x : LinksOK(e, x) => LinksOK(g, x)
  BY <1>a DEF Added
<1>13. ASSUME hazard # Null
       PROVE  /\ hazard \in Active(g) /\ g.iblock[hazard] = d.iblock[hazard]
              /\ Out(g, hazard) = Out(d, hazard)
              /\ \A p \in Out(d, hazard) : PlacePc(g, p) = PlacePc(d, p)
  <2>1. hazard \in Active(e)
    BY <1>3, <1>13 DEF Freed
  <2>2. /\ e.iblock[hazard] = d.iblock[hazard] /\ Out(e, hazard) = Out(d, hazard)
        /\ \A p \in Out(d, hazard) : PlacePc(e, p) = PlacePc(d, p)
    BY <1>3, <2>1 DEF Freed
  <2>3. g.link = e.link /\ g.PtablePcs = e.PtablePcs
    BY <1>9 DEF Inserted
  <2>4. Table(g, hazard) = Table(e, hazard)
    BY <2>3 DEF Table
  <2>5. hazard \in Active(g) /\ g.iblock[hazard] = e.iblock[hazard]
    BY <1>12, <2>1
  <2>6. Out(g, hazard) = Out(e, hazard)
    BY <2>4, <2>5 DEF Out
  <2>7. \A p \in Out(e, hazard) : PlacePc(g, p) = PlacePc(e, p)
    BY <2>3, <2>5, <2>6, PlacePcs
  <2> QED BY <2>2, <2>5, <2>6, <2>7
<1>14. b = n
  BY <1>12
<1> QED BY <1>2, <1>5, <1>10, <1>12, <1>13, <1>14

\* e is d but for links, and for who knows them.
Alike(d, e) ==
  /\ Active(e) = Active(d)
  /\ \A a \in Active(d) :
       /\ e.iblock[a].Pc = d.iblock[a].Pc /\ e.iblock[a].Asid = d.iblock[a].Asid
       /\ e.iblock[a].Insts = d.iblock[a].Insts /\ e.iblock[a].PteKernel = d.iblock[a].PteKernel

\* A change of the links and records of blocks that are and stay in use.
LEMMA AlikeOK ==
  ASSUME NEW d, Structure(d), NEW e \in Caches, Alike(d, e),
         e.IblockFreeList = d.IblockFreeList, e.IblockLruList = d.IblockLruList,
         e.VpageHash = d.VpageHash, e.vpage = d.vpage,
         TablesListed(e),
         \A a \in Blocks \ Active(d), i \in Paths : e.link[Path(a, i)] = d.link[Path(a, i)]
  PROVE  Structure(e)
<1>1. BlocksListed(e)
  BY DEF Structure, BlocksListed, Alike
<1>2. KeysDiffer(e)
  BY DEF Structure, KeysDiffer, Alike
<1>3. Unlinked(e)
  BY DEF Structure, Unlinked, Alike
<1>4. ASSUME NEW v \in Vpns PROVE PageListed(e, v)
  <2>1. InPage(e, v) = InPage(d, v)
    BY DEF InPage, Alike
  <2> QED BY <2>1 DEF Structure, PageListed
<1> QED BY <1>1, <1>2, <1>3, <1>4 DEF Structure

\* Tables that stay where they are, on the free list and in the hands of blocks.
LEMMA TablesKept ==
  ASSUME NEW d, Structure(d), NEW e, Owned(e) = Owned(d),
         \A a \in Owned(d) : e.link[Path(a, PathTrue)] = d.link[Path(a, PathTrue)],
         \A t \in Ptables \ Used(d) : e.link[Entry(t, 0)] = d.link[Entry(t, 0)],
         e.PtableFreeList = d.PtableFreeList
  PROVE  TablesListed(e) /\ \A a \in Owned(d) : Table(e, a) = Table(d, a)
<1>1. \A a \in Owned(d) : Table(e, a) = Table(d, a)
  BY DEF Table
<1>2. Used(e) = Used(d)
  BY <1>1 DEF Used
<1>3. PICK free : Lists(free, Ptables \ Used(d)) /\ FreeTables(d, free)
  BY DEF Structure, TablesListed
<1>4. \A n \in DOMAIN free : free[n] \in Ptables \ Used(d)
  BY <1>3, ListFacts
<1>5. FreeTables(e, free)
  BY <1>3, <1>4 DEF FreeTables
<1> QED BY <1>1, <1>2, <1>3, <1>5 DEF Structure, TablesListed

\* e is d with a link at p to block b, which knows p at index of CachedBy.
Linked(d, b, p, index, e) ==
  /\ e \in Caches
  /\ e.IblockFreeList = d.IblockFreeList /\ e.IblockLruList = d.IblockLruList
  /\ e.PtableFreeList = d.PtableFreeList /\ e.VpageHash = d.VpageHash
  /\ e.PtablePcs = d.PtablePcs /\ e.vpage = d.vpage
  /\ \A a \in Blocks \ {b} : e.iblock[a] = d.iblock[a]
  /\ e.iblock[b].Pc = d.iblock[b].Pc /\ e.iblock[b].Asid = d.iblock[b].Asid
  /\ e.iblock[b].Insts = d.iblock[b].Insts /\ e.iblock[b].PteKernel = d.iblock[b].PteKernel
  /\ e.iblock[b].HasPtable = d.iblock[b].HasPtable
  /\ index \in 0 .. (CachedByMax - 1)
  /\ e.iblock[b].CachedBy[index] = p
  /\ \A i \in 0 .. (CachedByMax - 1) : i # index => e.iblock[b].CachedBy[i] = d.iblock[b].CachedBy[i]
  /\ e.link[p] = b
  /\ \A q \in Places : q # p => e.link[q] = IF q \in LinkedFrom(d, b, {index}) THEN Null ELSE d.link[q]

\* This is what XrCreateCachedPointerToBlock does.
LEMMA CreateFields ==
  ASSUME NEW d \in Caches, NEW b \in Blocks, NEW p \in Places, NEW index,
         index = d.iblock[b].CachedByFifoIndex, NEW e, e = CreateCachedPointer(d, b, p)
  PROVE  Linked(d, b, p, index, e)
<1>1. d.iblock[b] \in Iblocks
  BY DEF Caches
<1>2. index \in 0 .. (CachedByMax - 1)
  BY <1>1 DEF Iblocks
<1>3. PICK places : places = LinkedFrom(d, b, {index})
  OBVIOUS
<1>4. PICK m : m = Cut(d, places)
  OBVIOUS
<1>5. /\ m \in Caches
      /\ m.IblockFreeList = d.IblockFreeList /\ m.IblockLruList = d.IblockLruList
      /\ m.PtableFreeList = d.PtableFreeList /\ m.VpageHash = d.VpageHash
      /\ m.iblock = d.iblock /\ m.PtablePcs = d.PtablePcs /\ m.vpage = d.vpage
      /\ \A q \in Places : m.link[q] = IF q \in places THEN Null ELSE d.link[q]
  BY <1>4, CutFields
<1>6. PICK old : old = d.iblock[b]
  OBVIOUS
<1>7. PICK rec : rec = [old EXCEPT !.CachedByFifoIndex = (index + 1) % CachedByMax, !.CachedBy[index] = p]
  OBVIOUS
<1>8. /\ rec.Pc = old.Pc /\ rec.Asid = old.Asid /\ rec.Insts = old.Insts
      /\ rec.PteKernel = old.PteKernel /\ rec.HasPtable = old.HasPtable
      /\ rec.CachedBy = [old.CachedBy EXCEPT ![index] = p]
      /\ rec.CachedByFifoIndex = (index + 1) % CachedByMax
      /\ DOMAIN rec = DOMAIN old
  BY <1>1, <1>6, <1>7 DEF Iblocks
<1>9. old.CachedBy \in [0 .. (CachedByMax - 1) -> Places \cup {Null}]
  BY <1>1, <1>6 DEF Iblocks
<1>10. [old.CachedBy EXCEPT ![index] = p] \in [0 .. (CachedByMax - 1) -> Places \cup {Null}]
  BY <1>9
<1>11. (index + 1) % CachedByMax \in 0 .. (CachedByMax - 1)
  BY <1>2, SizeAssumption
<1>12. rec \in Iblocks
  <2>1. rec = [Pc |-> old.Pc, Asid |-> old.Asid, Insts |-> old.Insts, PteKernel |-> old.PteKernel,
               CachedBy |-> [old.CachedBy EXCEPT ![index] = p],
               CachedByFifoIndex |-> (index + 1) % CachedByMax,
               HasPtable |-> old.HasPtable]
    BY <1>1, <1>6, <1>7 DEF Iblocks
  <2> QED BY <1>1, <1>6, <1>10, <1>11, <2>1 DEF Iblocks
<1>13. PICK link, blocks : link = [m.link EXCEPT ![p] = b] /\ blocks = [d.iblock EXCEPT ![b] = rec]
  OBVIOUS
<1>14. e = [m EXCEPT !.link[p] = b,
                     !.iblock[b] = [@ EXCEPT !.CachedByFifoIndex = (index + 1) % CachedByMax,
                                             !.CachedBy[index] = p]]
  BY <1>3, <1>4 DEF CreateCachedPointer
<1>15. e = [IblockFreeList |-> d.IblockFreeList, IblockLruList |-> d.IblockLruList,
            PtableFreeList |-> d.PtableFreeList, VpageHash |-> d.VpageHash,
            iblock |-> blocks, link |-> link, PtablePcs |-> d.PtablePcs, vpage |-> d.vpage]
  <2>1. m = [IblockFreeList |-> d.IblockFreeList, IblockLruList |-> d.IblockLruList,
             PtableFreeList |-> d.PtableFreeList, VpageHash |-> d.VpageHash,
             iblock |-> d.iblock, link |-> m.link, PtablePcs |-> d.PtablePcs, vpage |-> d.vpage]
    BY <1>5 DEF Caches
  <2>2. PICK l : l = [m EXCEPT !.link[p] = b]
    OBVIOUS
  <2>3. l = [IblockFreeList |-> d.IblockFreeList, IblockLruList |-> d.IblockLruList,
             PtableFreeList |-> d.PtableFreeList, VpageHash |-> d.VpageHash,
             iblock |-> d.iblock, link |-> link, PtablePcs |-> d.PtablePcs, vpage |-> d.vpage]
    <3>1. l = [m EXCEPT !.link = link]
      BY <1>13, <2>2
    <3> QED BY ONLY <2>1, <3>1
  <2>4. m.iblock[b] = old
    BY <1>5, <1>6
  <2>5. e = [l EXCEPT !.iblock = [l.iblock EXCEPT ![b] = rec]]
    BY ONLY <1>7, <1>14, <2>2, <2>4
  <2> QED BY ONLY <1>13, <2>3, <2>5
<1>16. link \in [Places -> Blocks \cup Ptables \cup {Null}] /\ link[p] = b
       /\ \A q \in Places : q # p => link[q] = m.link[q]
  BY <1>5, <1>13 DEF Caches
<1>17. blocks \in [Blocks -> Iblocks] /\ blocks[b] = rec
       /\ \A a \in Blocks \ {b} : blocks[a] = d.iblock[a]
  BY <1>12, <1>13 DEF Caches
<1>18. e \in Caches
  BY <1>15, <1>16, <1>17 DEF Caches
<1>19. /\ e.IblockFreeList = d.IblockFreeList /\ e.IblockLruList = d.IblockLruList
       /\ e.PtableFreeList = d.PtableFreeList /\ e.VpageHash = d.VpageHash
       /\ e.PtablePcs = d.PtablePcs /\ e.vpage = d.vpage
       /\ e.iblock = blocks /\ e.link = link
  BY <1>15
<1>20. rec.CachedBy[index] = p /\ \A i \in 0 .. (CachedByMax - 1) : i # index => rec.CachedBy[i] = old.CachedBy[i]
  BY <1>2, <1>8, <1>9
<1>21. /\ \A a \in Blocks \ {b} : e.iblock[a] = d.iblock[a]
       /\ e.iblock[b].Pc = d.iblock[b].Pc /\ e.iblock[b].Asid = d.iblock[b].Asid
       /\ e.iblock[b].Insts = d.iblock[b].Insts /\ e.iblock[b].PteKernel = d.iblock[b].PteKernel
       /\ e.iblock[b].HasPtable = d.iblock[b].HasPtable
       /\ e.iblock[b].CachedBy[index] = p
       /\ \A i \in 0 .. (CachedByMax - 1) : i # index => e.iblock[b].CachedBy[i] = d.iblock[b].CachedBy[i]
  BY <1>6, <1>8, <1>17, <1>19, <1>20
<1>22. /\ e.link[p] = b
       /\ \A q \in Places : q # p => e.link[q] = IF q \in places THEN Null ELSE d.link[q]
  BY <1>5, <1>16, <1>19
<1> QED BY <1>2, <1>3, <1>18, <1>19, <1>21, <1>22 DEF Linked

\* Where a link from h to b may lead.
Leads(d, h, b) ==
  /\ d.iblock[b].Pc \in Reach(d.iblock[h].Pc)
  /\ Vpn(d.iblock[h].Pc) \notin Kernel =>
       Vpn(d.iblock[b].Pc) \notin Kernel /\ d.iblock[b].Asid = d.iblock[h].Asid

\* XrCreateCachedPointerToBlock makes the one link that was missing.
LEMMA CreateOK ==
  ASSUME NEW d, Structure(d), NEW h \in Active(d), NEW p \in Out(d, h), LinksOK(d, p),
         NEW b \in Active(d), d.iblock[b].Pc = PlacePc(d, p), Leads(d, h, b),
         NEW e, e = CreateCachedPointer(d, b, p)
  PROVE  Structure(e) /\ LinksOK(e, Null) /\ Alike(d, e) /\ Owned(e) = Owned(d)
<1>1. d \in Caches /\ Active(d) \subseteq Blocks /\ b \in Blocks /\ h \in Blocks /\ p \in Places
  BY OutPlaces, ActiveBlocks DEF Structure
<1>2. PICK index : index = d.iblock[b].CachedByFifoIndex
  OBVIOUS
<1>3. Linked(d, b, p, index, e)
  BY <1>1, <1>2, CreateFields
<1>4. /\ e \in Caches
      /\ e.IblockFreeList = d.IblockFreeList /\ e.IblockLruList = d.IblockLruList
      /\ e.PtableFreeList = d.PtableFreeList /\ e.VpageHash = d.VpageHash
      /\ e.PtablePcs = d.PtablePcs /\ e.vpage = d.vpage
      /\ \A a \in Blocks \ {b} : e.iblock[a] = d.iblock[a]
      /\ e.iblock[b].Pc = d.iblock[b].Pc /\ e.iblock[b].Asid = d.iblock[b].Asid
      /\ e.iblock[b].Insts = d.iblock[b].Insts /\ e.iblock[b].PteKernel = d.iblock[b].PteKernel
      /\ e.iblock[b].HasPtable = d.iblock[b].HasPtable
      /\ index \in 0 .. (CachedByMax - 1)
      /\ e.iblock[b].CachedBy[index] = p
      /\ \A i \in 0 .. (CachedByMax - 1) : i # index => e.iblock[b].CachedBy[i] = d.iblock[b].CachedBy[i]
      /\ e.link[p] = b
      /\ \A q \in Places : q # p => e.link[q] = IF q \in LinkedFrom(d, b, {index}) THEN Null ELSE d.link[q]
  BY <1>3 DEF Linked
<1>5. Active(e) = Active(d)
  BY <1>4 DEF Active
<1>6. \A a \in Active(d) : e.iblock[a].HasPtable = d.iblock[a].HasPtable
  BY <1>1, <1>4
<1>7. Owned(e) = Owned(d)
  BY <1>5, <1>6 DEF Owned
<1>8. Alike(d, e)
  BY <1>1, <1>4, <1>5 DEF Alike
<1>9. \A q \in LinkedFrom(d, b, {index}) : d.link[q] \in Blocks
  <2>1. {index} \subseteq 0 .. (CachedByMax - 1)
    BY <1>4
  <2> QED BY <1>1, <2>1, LinkedFromPlaces
<1>10. \A q \in Places : q # p /\ d.link[q] \notin Blocks => e.link[q] = d.link[q]
  BY <1>4, <1>9
<1>11. ASSUME NEW a \in Owned(d)
       PROVE  e.link[Path(a, PathTrue)] = d.link[Path(a, PathTrue)]
  <2>1. a \in Blocks /\ Table(d, a) \in Ptables /\ d.iblock[a].HasPtable
    BY ActiveBlocks, <1>1 DEF Structure, TablesListed, Owned
  <2>2. Path(a, PathTrue) # p
    BY <2>1, PlacesApart DEF Out
  <2>3. Path(a, PathTrue) \in Places /\ d.link[Path(a, PathTrue)] \notin Blocks
    BY <2>1, PlacesApart DEF Table
  <2> QED BY <1>10, <2>2, <2>3
<1>12. ASSUME NEW t \in Ptables \ Used(d)
       PROVE  e.link[Entry(t, 0)] = d.link[Entry(t, 0)]
  <2>1. PICK free : Lists(free, Ptables \ Used(d)) /\ FreeTables(d, free)
    BY DEF Structure, TablesListed
  <2>2. /\ DOMAIN free = 1 .. Len(free) /\ Len(free) \in Nat
        /\ \A n \in 1 .. Len(free) : free[n] \in Ptables \ Used(d)
        /\ \E n \in 1 .. Len(free) : free[n] = t
    BY <2>1, ListFacts
  <2>3. PICK n \in 1 .. Len(free) : free[n] = t
    BY <2>2
  <2>4. d.link[Entry(t, 0)] = IF n < Len(free) THEN free[n + 1] ELSE Null
    BY <2>1, <2>2, <2>3 DEF FreeTables
  <2>5. n < Len(free) => free[n + 1] \in Ptables
    BY <2>2
  <2>6. d.link[Entry(t, 0)] \notin Blocks
    BY <2>4, <2>5, PlacesApart
  <2>7. Entry(t, 0) # p
    <3> SUFFICES ASSUME Entry(t, 0) = p PROVE FALSE
      OBVIOUS
    <3>1. d.iblock[h].HasPtable /\ t = Table(d, h)
      BY PlacesApart DEF Out
    <3>2. h \in Owned(d)
      BY <3>1 DEF Owned
    <3> QED BY <3>1, <3>2 DEF Used
  <2> QED BY <1>10, <2>6, <2>7, PlacesApart
<1>13. TablesListed(e) /\ \A a \in Owned(d) : Table(e, a) = Table(d, a)
  BY <1>4, <1>7, <1>11, <1>12, TablesKept
<1>14. ASSUME NEW a \in Blocks \ Active(d), NEW i \in Paths
       PROVE  e.link[Path(a, i)] = d.link[Path(a, i)]
  <2>1. d.link[Path(a, i)] = Null
    BY DEF Structure, Unlinked
  <2>2. Path(a, i) # p
    BY PlacesApart DEF Out
  <2> QED BY <1>10, <2>1, <2>2, PlacesApart
<1>15. Structure(e)
  BY <1>4, <1>8, <1>13, <1>14, AlikeOK
<1>16. ASSUME NEW a \in Active(d)
       PROVE  Out(e, a) = Out(d, a) /\ \A q \in Out(d, a) : PlacePc(e, q) = PlacePc(d, q)
  <2>1. d.iblock[a].HasPtable => Table(e, a) = Table(d, a)
    BY <1>13 DEF Owned
  <2>2. Out(e, a) = Out(d, a)
    BY <1>6, <2>1 DEF Out
  <2>3. e.iblock[a].Pc = d.iblock[a].Pc /\ e.iblock[a].Insts = d.iblock[a].Insts
    BY <1>8 DEF Alike
  <2>4. d.iblock[a].HasPtable => e.PtablePcs[Table(d, a)] = d.PtablePcs[Table(d, a)]
    BY <1>4
  <2>5. ASSUME NEW q \in Out(d, a) PROVE PlacePc(e, q) = PlacePc(d, q)
    BY <2>2, <2>3, <2>4, PlacePcs
  <2> QED BY <2>2, <2>5
<1>17. LinksOK(e, Null)
  <2> SUFFICES ASSUME NEW a \in Active(e), NEW q \in Out(e, a), e.link[q] # Null
               PROVE  LinkOK(e, a, q)
    BY DEF LinksOK
  <2>1. a \in Active(d) /\ q \in Out(d, a) /\ PlacePc(e, q) = PlacePc(d, q) /\ q \in Places
    BY <1>5, <1>16, OutPlaces
  <2>2. e.iblock[a].Pc = d.iblock[a].Pc /\ e.iblock[a].Asid = d.iblock[a].Asid
    BY <1>8, <2>1 DEF Alike
  <2>3. CASE q = p
    <3>1. a = h
      <4>1. CASE d.iblock[a].HasPtable /\ d.iblock[h].HasPtable
        <5>1. Table(d, a) = Table(d, h)
          BY <2>1, <2>3, <4>1, PlacesApart DEF Out
        <5> QED BY <2>1, <4>1, <5>1 DEF Structure, TablesListed, Owned
      <4>2. CASE ~(d.iblock[a].HasPtable /\ d.iblock[h].HasPtable)
        BY <2>1, <2>3, <4>2, PlacesApart DEF Out
      <4> QED BY <4>1, <4>2
    <3>2. e.iblock[h].Pc = d.iblock[h].Pc /\ e.iblock[h].Asid = d.iblock[h].Asid
      BY <2>2, <3>1
    <3> QED BY <1>4, <1>5, <2>1, <2>3, <3>1, <3>2 DEF LinkOK, Leads
  <2>4. CASE q # p
    <3>1. e.link[q] = d.link[q] /\ q \notin LinkedFrom(d, b, {index})
      BY <1>4, <2>1, <2>4
    <3>2. LinkOK(d, a, q)
      BY <2>1, <2>4, <3>1 DEF LinksOK
    <3>3. PICK to : to = d.link[q] /\ to \in Active(d)
      BY <3>2 DEF LinkOK
    <3>4. PICK i \in 0 .. (CachedByMax - 1) : d.iblock[to].CachedBy[i] = q
      BY <3>2, <3>3 DEF LinkOK
    <3>5. e.iblock[to].Pc = d.iblock[to].Pc /\ e.iblock[to].Asid = d.iblock[to].Asid
      BY <1>8, <3>3 DEF Alike
    <3>6. e.iblock[to].CachedBy[i] = q
      <4>1. CASE to # b
        BY <1>1, <1>4, <3>3, <3>4, <4>1
      <4>2. CASE to = b
        <5>1. i # index
          <6> SUFFICES ASSUME i = index PROVE FALSE
            OBVIOUS
          <6>1. q \in {d.iblock[b].CachedBy[n] : n \in {index}} /\ q # Null
            BY <2>1, <3>4, <4>2, PlacesApart
          <6>2. q \in LinkedFrom(d, b, {index})
            BY <3>3, <4>2, <6>1 DEF LinkedFrom
          <6> QED BY <3>1, <6>2
        <5> QED BY <1>4, <3>4, <4>2, <5>1
      <4> QED BY <4>1, <4>2
    <3> QED BY <1>5, <2>1, <2>2, <3>1, <3>2, <3>3, <3>5, <3>6 DEF LinkOK
  <2> QED BY <2>3, <2>4
<1> QED BY <1>7, <1>8, <1>15, <1>17

\* A table is free if a block in use has none.
LEMMA TableFree ==
  ASSUME NEW d, Structure(d), NEW b \in Active(d), ~d.iblock[b].HasPtable
  PROVE  Used(d) # Ptables
<1> SUFFICES ASSUME Used(d) = Ptables PROVE FALSE
  OBVIOUS
<1>1. Owned(d) \subseteq Blocks /\ b \in Blocks /\ b \notin Owned(d)
  BY ActiveBlocks DEF Structure, Owned
<1>2. IsFiniteSet(Owned(d)) /\ Cardinality(Owned(d)) <= Cardinality(Blocks)
      /\ (Cardinality(Blocks) = Cardinality(Owned(d)) => Blocks = Owned(d))
  BY <1>1, FS_Subset, SizeAssumption
<1>3. PICK f : f = [a \in Owned(d) |-> Table(d, a)]
  OBVIOUS
<1>4. f \in Surjection(Owned(d), Ptables)
  <2>1. \A a \in Owned(d) : Table(d, a) \in Ptables
    BY DEF Structure, TablesListed
  <2>2. f \in [Owned(d) -> Ptables]
    BY <1>3, <2>1
  <2>3. \A t \in Ptables : \E a \in Owned(d) : f[a] = t
    BY <1>3 DEF Used
  <2> QED BY <2>2, <2>3 DEF Surjection
<1>5. Cardinality(Ptables) <= Cardinality(Owned(d))
  BY <1>2, <1>4, FS_Surjection
<1>6. Cardinality(Owned(d)) \in Nat /\ Cardinality(Blocks) \in Nat
  BY <1>2, FS_CardinalityType, SizeAssumption
<1>7. Cardinality(Blocks) = Cardinality(Owned(d))
  BY <1>2, <1>5, <1>6, SizeAssumption
<1> QED BY <1>1, <1>2, <1>7

\* e is d with table t in the hands of block b.
Allocated(d, b, t, e) ==
  /\ e \in Caches
  /\ e.IblockFreeList = d.IblockFreeList /\ e.IblockLruList = d.IblockLruList
  /\ e.PtableFreeList = d.link[Entry(t, 0)] /\ e.VpageHash = d.VpageHash
  /\ e.PtablePcs = d.PtablePcs /\ e.vpage = d.vpage
  /\ e.iblock = [d.iblock EXCEPT ![b].HasPtable = TRUE]
  /\ e.link[Path(b, PathTrue)] = t
  /\ \A i \in Indices : e.link[Entry(t, i)] = Null
  /\ \A q \in Places : q # Path(b, PathTrue) /\ (\A i \in Indices : q # Entry(t, i)) => e.link[q] = d.link[q]

\* This is what XrAllocatePtable does.
LEMMA AllocateFields ==
  ASSUME NEW d \in Caches, NEW b \in Blocks, NEW t \in Ptables, t = d.PtableFreeList,
         d.link[Entry(t, 0)] \in Ptables \cup {Null}, NEW e, e = AllocatePtable(d, b)
  PROVE  Allocated(d, b, t, e)
<1>1. PICK link : link = [p \in Places |-> IF p = Path(b, PathTrue) THEN t
                                           ELSE IF \E i \in Indices : p = Entry(t, i) THEN Null
                                           ELSE d.link[p]]
  OBVIOUS
<1>2. link \in [Places -> Blocks \cup Ptables \cup {Null}]
  BY <1>1 DEF Caches
<1>3. /\ link[Path(b, PathTrue)] = t
      /\ \A i \in Indices : link[Entry(t, i)] = Null
      /\ \A q \in Places : q # Path(b, PathTrue) /\ (\A i \in Indices : q # Entry(t, i)) => link[q] = d.link[q]
  BY <1>1, PlacesApart
<1>4. PICK first, blocks : first = d.link[Entry(t, 0)] /\ blocks = [d.iblock EXCEPT ![b].HasPtable = TRUE]
  OBVIOUS
<1>5. e = [d EXCEPT !.PtableFreeList = first, !.link = link, !.iblock = blocks]
  BY <1>1, <1>4 DEF AllocatePtable, Caches
<1>6. e = [IblockFreeList |-> d.IblockFreeList, IblockLruList |-> d.IblockLruList,
           PtableFreeList |-> first, VpageHash |-> d.VpageHash, iblock |-> blocks, link |-> link,
           PtablePcs |-> d.PtablePcs, vpage |-> d.vpage]
  BY <1>5 DEF Caches
<1>7. blocks \in [Blocks -> Iblocks]
  <2>1. PICK rec : rec = [d.iblock[b] EXCEPT !.HasPtable = TRUE]
    OBVIOUS
  <2>2. d.iblock[b] \in Iblocks /\ d.iblock \in [Blocks -> Iblocks]
    BY DEF Caches
  <2>3. rec \in Iblocks
    BY <2>1, <2>2 DEF Iblocks
  <2>4. blocks = [d.iblock EXCEPT ![b] = rec]
    BY <1>4, <2>1
  <2> QED BY <2>2, <2>3, <2>4
<1>8. e \in Caches
  BY <1>2, <1>4, <1>6, <1>7 DEF Caches
<1>9. /\ e.IblockFreeList = d.IblockFreeList /\ e.IblockLruList = d.IblockLruList
      /\ e.PtableFreeList = first /\ e.VpageHash = d.VpageHash
      /\ e.PtablePcs = d.PtablePcs /\ e.vpage = d.vpage
      /\ e.iblock = blocks /\ e.link = link
  BY <1>6
<1> QED BY <1>3, <1>4, <1>8, <1>9 DEF Allocated

\* XrAllocatePtable finds a table, and the block has no links then.
LEMMA AllocateOK ==
  ASSUME NEW d, Structure(d), NEW b \in Active(d), ~d.iblock[b].HasPtable, LinksOK(d, Null),
         NEW e, e = AllocatePtable(d, b)
  PROVE  /\ Structure(e) /\ LinksOK(e, Null) /\ Alike(d, e)
         /\ e.iblock[b].HasPtable /\ Owned(e) = Owned(d) \cup {b}
<1>1. d \in Caches /\ Active(d) \subseteq Blocks /\ b \in Blocks
  BY ActiveBlocks DEF Structure
<1>2. PICK free : Lists(free, Ptables \ Used(d)) /\ FreeTables(d, free)
  BY DEF Structure, TablesListed
<1>3. /\ Len(free) \in Nat /\ DOMAIN free = 1 .. Len(free)
      /\ \A n \in 1 .. Len(free) : free[n] \in Ptables \ Used(d)
      /\ \A n, k \in 1 .. Len(free) : free[n] = free[k] => n = k
  BY <1>2, ListFacts
<1>4. Used(d) \subseteq Ptables /\ Ptables \ Used(d) # {}
  BY TableFree DEF Used, Structure, TablesListed
<1>5. free # <<>>
  BY <1>2, <1>4, ListEmpty
<1>6. Len(free) \in Nat \ {0}
  BY <1>2, <1>5, EmptySeq DEF Lists
<1>7. PICK t : t = free[1]
  OBVIOUS
<1>8. /\ t \in Ptables \ Used(d) /\ t = d.PtableFreeList
      /\ d.link[Entry(t, 0)] = IF 1 < Len(free) THEN free[2] ELSE Null
  BY <1>2, <1>3, <1>5, <1>6, <1>7 DEF FreeTables
<1>9. d.link[Entry(t, 0)] \in Ptables \cup {Null}
  BY <1>3, <1>8
<1>10. Allocated(d, b, t, e)
  BY <1>1, <1>8, <1>9, AllocateFields
<1>11. /\ e \in Caches
       /\ e.IblockFreeList = d.IblockFreeList /\ e.IblockLruList = d.IblockLruList
       /\ e.PtableFreeList = d.link[Entry(t, 0)] /\ e.VpageHash = d.VpageHash
       /\ e.PtablePcs = d.PtablePcs /\ e.vpage = d.vpage
       /\ e.iblock = [d.iblock EXCEPT ![b].HasPtable = TRUE]
       /\ e.link[Path(b, PathTrue)] = t
       /\ \A i \in Indices : e.link[Entry(t, i)] = Null
       /\ \A q \in Places : q # Path(b, PathTrue) /\ (\A i \in Indices : q # Entry(t, i)) => e.link[q] = d.link[q]
  BY <1>10 DEF Allocated
<1>12. /\ \A a \in Blocks \ {b} : e.iblock[a] = d.iblock[a]
       /\ e.iblock[b].HasPtable
       /\ e.iblock[b].Pc = d.iblock[b].Pc /\ e.iblock[b].Asid = d.iblock[b].Asid
       /\ e.iblock[b].Insts = d.iblock[b].Insts /\ e.iblock[b].PteKernel = d.iblock[b].PteKernel
       /\ e.iblock[b].CachedBy = d.iblock[b].CachedBy
  BY <1>1, <1>11 DEF Caches, Iblocks
<1>13. Active(e) = Active(d)
  BY <1>11 DEF Active
<1>14. Alike(d, e)
  BY <1>1, <1>12, <1>13 DEF Alike
<1>15. Owned(e) = Owned(d) \cup {b} /\ b \notin Owned(d) /\ Owned(d) \subseteq Blocks
  BY <1>1, <1>12, <1>13 DEF Owned
<1>16. Table(e, b) = t /\ \A a \in Owned(d) : Table(e, a) = Table(d, a)
  BY <1>1, <1>8, <1>11, <1>15, PlacesApart DEF Table
<1>17. Used(e) = Used(d) \cup {t}
  <2>1. \A u \in Used(e) : u \in Used(d) \cup {t}
    BY <1>15, <1>16 DEF Used
  <2>2. \A u \in Used(d) \cup {t} : u \in Used(e)
    BY <1>15, <1>16 DEF Used
  <2> QED BY <2>1, <2>2
<1> DEFINE rest == Tail(free)
<1>18. Lists(rest, Ptables \ Used(e))
  <2>1. Lists(rest, (Ptables \ Used(d)) \ {t})
    BY <1>2, <1>5, <1>7, ListPop
  <2>2. (Ptables \ Used(d)) \ {t} = Ptables \ Used(e)
    BY <1>17
  <2> QED BY <2>1, <2>2
<1>19. /\ Len(rest) = Len(free) - 1 /\ DOMAIN rest = 1 .. Len(rest)
       /\ \A n \in 1 .. Len(rest) : rest[n] = free[n + 1]
       /\ rest = <<>> <=> Len(rest) = 0
  <2>1. free \in Seq(Ptables \ Used(d))
    BY <1>2 DEF Lists
  <2>2. /\ rest \in Seq(Ptables \ Used(d)) /\ Len(rest) = Len(free) - 1
        /\ \A n \in 1 .. Len(rest) : rest[n] = free[n + 1]
    BY <1>5, <2>1, HeadTailProperties
  <2> HIDE DEF rest
  <2>3. rest # <<>> => Len(rest) \in Nat \ {0}
    BY <2>2, EmptySeq
  <2>4. rest = <<>> => Len(rest) = 0
    OBVIOUS
  <2>5. DOMAIN rest = 1 .. Len(rest)
    BY <2>2
  <2> QED BY <2>2, <2>3, <2>4, <2>5
<1> HIDE DEF rest
<1>20. FreeTables(e, rest)
  <2>1. e.PtableFreeList = IF rest = <<>> THEN Null ELSE rest[1]
    BY <1>3, <1>6, <1>8, <1>11, <1>19
  <2>2. ASSUME NEW n \in DOMAIN rest
        PROVE  e.link[Entry(rest[n], 0)] = IF n < Len(rest) THEN rest[n + 1] ELSE Null
    <3>1. n + 1 \in 1 .. Len(free) /\ rest[n] = free[n + 1] /\ n \in Nat
      BY <1>3, <1>19
    <3>2. free[n + 1] \in Ptables /\ free[n + 1] # t
      BY <1>3, <1>6, <1>7, <1>19, <3>1
    <3>3. e.link[Entry(rest[n], 0)] = d.link[Entry(free[n + 1], 0)]
      BY <1>11, <3>1, <3>2, PlacesApart
    <3>4. d.link[Entry(free[n + 1], 0)] = IF n + 1 < Len(free) THEN free[(n + 1) + 1] ELSE Null
      BY <1>2, <1>3, <3>1 DEF FreeTables
    <3>5. n < Len(rest) => rest[n + 1] = free[(n + 1) + 1] /\ n + 1 < Len(free)
      BY <1>3, <1>19, <3>1
    <3>6. ~(n < Len(rest)) => ~(n + 1 < Len(free))
      BY <1>3, <1>19, <3>1
    <3> QED BY <3>3, <3>4, <3>5, <3>6
  <2> QED BY <2>1, <2>2 DEF FreeTables
<1>21. TablesListed(e)
  <2>1. \A a \in Owned(d) : Table(d, a) \in Used(d) /\ Table(d, a) \in Ptables
    BY DEF Used, Structure, TablesListed
  <2>2. \A a \in Owned(e) : Table(e, a) \in Ptables
    BY <1>8, <1>15, <1>16, <2>1
  <2>3. \A a1, a2 \in Owned(e) : Table(e, a1) = Table(e, a2) => a1 = a2
    BY <1>8, <1>15, <1>16, <2>1 DEF Structure, TablesListed
  <2> QED BY <1>18, <1>20, <2>2, <2>3 DEF TablesListed
<1>22. ASSUME NEW a \in Blocks \ Active(d), NEW i \in Paths
       PROVE  e.link[Path(a, i)] = d.link[Path(a, i)]
  <2>1. Path(a, i) # Path(b, PathTrue)
    BY PlacesApart
  <2> QED BY <1>11, <2>1, PlacesApart
<1>23. Structure(e)
  BY <1>11, <1>14, <1>21, <1>22, AlikeOK
<1>24. LinksOK(e, Null)
  <2> SUFFICES ASSUME NEW a \in Active(e), NEW q \in Out(e, a), e.link[q] # Null
               PROVE  LinkOK(e, a, q)
    BY DEF LinksOK
  <2>1. a # b
    <3> SUFFICES ASSUME a = b PROVE FALSE
      OBVIOUS
    <3>1. PICK i \in Indices : q = Entry(t, i)
      BY <1>12, <1>16 DEF Out
    <3> QED BY <1>11, <3>1
  <2>2. a \in Active(d) /\ a \in Blocks /\ e.iblock[a] = d.iblock[a]
    BY <1>1, <1>12, <1>13, <2>1
  <2>3. d.iblock[a].HasPtable => a \in Owned(d) /\ Table(e, a) = Table(d, a)
    BY <1>16, <2>2 DEF Owned
  <2>4. Out(e, a) = Out(d, a)
    BY <2>2, <2>3 DEF Out
  <2>5. e.link[q] = d.link[q]
    <3>1. q \in Places
      BY <2>2, <2>4, OutPlaces
    <3>2. q # Path(b, PathTrue)
      BY <2>1, <2>4, PlacesApart DEF Out
    <3>3. \A i \in Indices : q # Entry(t, i)
      <4>1. q \in Out(d, a)
        BY <2>4
      <4>2. CASE d.iblock[a].HasPtable
        <5>1. PICK k \in Indices : q = Entry(Table(d, a), k)
          BY <4>1, <4>2 DEF Out
        <5>2. Table(d, a) # t
          BY <1>8, <2>3, <4>2 DEF Used
        <5> QED BY <5>1, <5>2, PlacesApart
      <4>3. CASE ~d.iblock[a].HasPtable
        <5>1. PICK k \in Paths : q = Path(a, k)
          BY <4>1, <4>3 DEF Out
        <5> QED BY <5>1, PlacesApart
      <4> QED BY <4>2, <4>3
    <3> QED BY <1>11, <3>1, <3>2, <3>3
  <2>6. LinkOK(d, a, q)
    <3>1. q \in Out(d, a) /\ q # Null /\ d.link[q] # Null
      BY <2>2, <2>4, <2>5, OutPlaces, PlacesApart
    <3> QED BY <2>2, <3>1 DEF LinksOK
  <2>7. PICK to : to = d.link[q] /\ to \in Active(d) /\ to \in Blocks
    BY <1>1, <2>6 DEF LinkOK
  <2>8. /\ e.iblock[to].Pc = d.iblock[to].Pc /\ e.iblock[to].Asid = d.iblock[to].Asid
        /\ e.iblock[to].CachedBy = d.iblock[to].CachedBy
    BY <1>12, <2>7
  <2>9. PlacePc(e, q) = PlacePc(d, q)
    <3>1. d.iblock[a].HasPtable => e.PtablePcs[Table(d, a)] = d.PtablePcs[Table(d, a)]
      BY <1>11
    <3>2. e.iblock[a].Pc = d.iblock[a].Pc /\ e.iblock[a].Insts = d.iblock[a].Insts
      BY <2>2
    <3>3. q \in Out(d, a)
      BY <2>4
    <3> QED BY <2>4, <3>1, <3>2, <3>3, PlacePcs
  <2> QED BY <1>13, <2>2, <2>5, <2>6, <2>7, <2>8, <2>9 DEF LinkOK
<1> QED BY <1>12, <1>14, <1>15, <1>23, <1>24

\* The key of an entry changes before the link there is made.
LEMMA PcsOK ==
  ASSUME NEW d, Structure(d), LinksOK(d, Null), NEW b \in Active(d), d.iblock[b].HasPtable,
         NEW t, t = Table(d, b), NEW index \in Indices, NEW pc \in Pcs,
         NEW e, e = [d EXCEPT !.PtablePcs[t][index] = pc]
  PROVE  /\ Structure(e) /\ LinksOK(e, Entry(t, index)) /\ Alike(d, e)
         /\ Active(e) = Active(d) /\ e.iblock = d.iblock /\ e.link = d.link
         /\ Out(e, b) = Out(d, b) /\ Entry(t, index) \in Out(e, b)
         /\ PlacePc(e, Entry(t, index)) = pc
<1>1. d \in Caches /\ t \in Ptables
  BY OutPlaces DEF Structure
<1>2. PICK row : row = [d.PtablePcs[t] EXCEPT ![index] = pc]
  OBVIOUS
<1>3. d.PtablePcs \in [Ptables -> [Indices -> Pcs]]
  BY <1>1 DEF Caches
<1>4. row \in [Indices -> Pcs] /\ row[index] = pc
      /\ \A i \in Indices : i # index => row[i] = d.PtablePcs[t][i]
  BY <1>1, <1>2, <1>3
<1>5. PICK pcs : pcs = [d.PtablePcs EXCEPT ![t] = row]
  OBVIOUS
<1>6. e = [d EXCEPT !.PtablePcs = pcs]
  BY <1>2, <1>5
<1>7. pcs \in [Ptables -> [Indices -> Pcs]] /\ pcs[t] = row
      /\ \A u \in Ptables \ {t} : pcs[u] = d.PtablePcs[u]
  BY <1>1, <1>3, <1>4, <1>5
<1>8. /\ e \in Caches
      /\ e.IblockFreeList = d.IblockFreeList /\ e.IblockLruList = d.IblockLruList
      /\ e.PtableFreeList = d.PtableFreeList /\ e.VpageHash = d.VpageHash
      /\ e.PtablePcs = pcs /\ e.vpage = d.vpage /\ e.iblock = d.iblock /\ e.link = d.link
  BY <1>1, <1>6, <1>7 DEF Caches
<1>9. Active(e) = Active(d) /\ Owned(e) = Owned(d)
  BY <1>8 DEF Active, Owned
<1>10. Alike(d, e)
  BY <1>8, <1>9 DEF Alike
<1>11. TablesListed(e)
  BY <1>8, <1>9, TablesKept
<1>12. Structure(e)
  BY <1>8, <1>10, <1>11, AlikeOK
<1>13. \A a : Table(e, a) = Table(d, a)
  BY <1>8 DEF Table
<1>14. \A a : Out(e, a) = Out(d, a)
  BY <1>8, <1>13 DEF Out
<1>15. Entry(t, index) \in Out(e, b)
  BY <1>14 DEF Out
<1>16. PlacePc(e, Entry(t, index)) = pc
  BY <1>4, <1>7, <1>8 DEF PlacePc, Entry
<1>17. LinksOK(e, Entry(t, index))
  <2> SUFFICES ASSUME NEW a \in Active(e), NEW q \in Out(e, a), q # Entry(t, index), e.link[q] # Null
               PROVE  LinkOK(e, a, q)
    BY DEF LinksOK
  <2>1. a \in Active(d) /\ q \in Out(d, a)
    BY <1>9, <1>14
  <2>2. LinkOK(d, a, q)
    <3>1. q # Null
      BY <2>1, OutPlaces, PlacesApart
    <3> QED BY <1>8, <2>1, <3>1 DEF LinksOK
  <2>3. PlacePc(e, q) = PlacePc(d, q)
    <3>1. CASE d.iblock[a].HasPtable
      <4>1. PICK i \in Indices : q = Entry(Table(d, a), i)
        BY <2>1, <3>1 DEF Out
      <4>2. q[1] = "ptable" /\ q[2] = Table(d, a) /\ q[3] = i
        BY <4>1 DEF Entry
      <4>3. Table(d, a) \in Ptables
        BY <2>1, <3>1, OutPlaces
      <4>4. Table(d, a) = t => i # index
        BY <4>1
      <4>5. pcs[Table(d, a)][i] = d.PtablePcs[Table(d, a)][i]
        BY <1>4, <1>7, <4>3, <4>4
      <4> QED BY <1>8, <4>2, <4>5 DEF PlacePc
    <3>2. CASE ~d.iblock[a].HasPtable
      <4>1. PICK i \in Paths : q = Path(a, i)
        BY <2>1, <3>2 DEF Out
      <4>2. q[1] = "path" /\ q[2] = a
        BY <4>1 DEF Path
      <4> QED BY <1>8, <4>2 DEF PlacePc, PathPc
    <3> QED BY <3>1, <3>2
  <2> QED BY <1>8, <1>9, <2>2, <2>3 DEF LinkOK
<1> QED BY <1>8, <1>9, <1>10, <1>12, <1>14, <1>15, <1>16, <1>17

-----------------------------------------------------------------------------
(* Invalidation.                                                           *)

\* Every block in use holds what a fetch at its key gives.
CodeKept(d, im) == \A b \in Active(d) : Filled(d.iblock[b], im)

\* The cache as it is between two steps.
CacheInv(d, im) == Structure(d) /\ LinksOK(d, Null) /\ CodeKept(d, im) /\ ImagesTyped(im)

\* XrInvalidateIblockCache leaves no block.
LEMMA InvalidateAllOK ==
  ASSUME NEW d, Structure(d), NEW e, e = InvalidateIblockCache(d)
  PROVE  Structure(e) /\ Active(e) = {}
<1>1. /\ d.IblockLruList \in Seq(Active(d)) /\ IsInjective(d.IblockLruList)
      /\ ToSet(d.IblockLruList) = Active(d)
  BY DEF Structure, BlocksListed, Lists
<1>2. e = FreeEach(d, d.IblockLruList, Null, FALSE)
  BY DEF InvalidateIblockCache
<1>3. Structure(e) /\ Freed(d, e, ToSet(d.IblockLruList) \ {Null})
  BY <1>1, <1>2, EachOK
<1>4. Null \notin Active(d)
  BY ActiveBlocks, PlacesApart DEF Structure
<1> QED BY <1>1, <1>3, <1>4 DEF Freed

\* After it the code may change.
LEMMA InvalidateOK ==
  ASSUME NEW d, Structure(d), NEW im, ImagesTyped(im), NEW new \in [Asids -> [Changing -> Images]],
         NEW im2, im2 = [a \in Asids |-> [v \in Vpns |-> IF v \in Changing THEN new[a][v] ELSE im[a][v]]],
         NEW e, e = InvalidateIblockCache(d)
  PROVE  CacheInv(e, im2)
<1>1. Structure(e) /\ Active(e) = {}
  BY InvalidateAllOK
<1>2. LinksOK(e, Null) /\ CodeKept(e, im2)
  BY <1>1 DEF LinksOK, CodeKept
<1>3. Changing \subseteq Vpns /\ Changing \cap Kernel = {}
  BY SizeAssumption
<1>4. ASSUME NEW a \in Asids
      PROVE  /\ im2[a] \in [Vpns -> Images]
             /\ \A v \in Vpns \cap Kernel : im2[a][v] = im[a][v]
  <2>1. im[a] \in [Vpns -> Images] /\ new[a] \in [Changing -> Images]
    BY DEF ImagesTyped
  <2>2. im2[a] = [v \in Vpns |-> IF v \in Changing THEN new[a][v] ELSE im[a][v]]
    OBVIOUS
  <2> QED BY <1>3, <2>1, <2>2
<1>5. ImagesTyped(im2)
  <2>1. im2 \in [Asids -> [Vpns -> Images]]
    BY <1>4
  <2>2. \A v \in Vpns \cap Kernel : \A a, b \in Asids : im2[a][v] = im2[b][v]
    BY <1>4 DEF ImagesTyped
  <2> QED BY <2>1, <2>2 DEF ImagesTyped
<1> QED BY <1>1, <1>2, <1>5 DEF CacheInv

\* XrInvalidateIblockCacheByVpn leaves no block of the page, and no link to one.
LEMMA InvalidateVpnOK ==
  ASSUME NEW d, Structure(d), LinksOK(d, Null), NEW v \in Vpns,
         NEW e, e = InvalidateIblockCacheByVpn(d, v)
  PROVE  Structure(e) /\ LinksOK(e, Null) /\ Freed(d, e, InPage(d, v))
<1>1. PICK list : list = d.vpage[v].IblockVpnList
  OBVIOUS
<1>2. /\ Lists(list, InPage(d, v))
      /\ v \in d.VpageHash <=> list # <<>>
  BY <1>1 DEF Structure, PageListed
<1>3. InPage(d, v) \subseteq Active(d) /\ Null \notin InPage(d, v)
  BY ActiveBlocks, PlacesApart DEF InPage, Structure
<1>4. CASE v \in d.VpageHash
  <2>1. e = FreeEach(d, list, Null, TRUE)
    BY <1>1, <1>4 DEF InvalidateIblockCacheByVpn
  <2>2. list \in Seq(Active(d)) /\ IsInjective(list) /\ ToSet(list) = InPage(d, v)
    BY <1>2, <1>3, SeqMonotonic DEF Lists
  <2>3. /\ Structure(e) /\ Freed(d, e, ToSet(list) \ {Null})
        /\ \A x : LinksOK(d, x) => LinksOK(e, x)
    BY <2>1, <2>2, EachOK
  <2>4. ToSet(list) \ {Null} = InPage(d, v)
    BY <1>3, <2>2
  <2> QED BY <2>3, <2>4
<1>5. CASE v \notin d.VpageHash
  <2>1. InPage(d, v) = {}
    BY <1>2, <1>5, ListEmpty
  <2>2. e = d
    BY <1>5 DEF InvalidateIblockCacheByVpn
  <2> QED BY <2>1, <2>2, FreedNone
<1> QED BY <1>4, <1>5

\* After it the code of the page may change.
LEMMA InvalidatePageOK ==
  ASSUME NEW d, NEW im, CacheInv(d, im), NEW v \in Changing, NEW new \in [Asids -> Images],
         NEW im2, im2 = [a \in Asids |-> [im[a] EXCEPT ![v] = new[a]]],
         NEW e, e = InvalidateIblockCacheByVpn(d, v)
  PROVE  CacheInv(e, im2)
<1>1. v \in Vpns /\ v \notin Kernel
  BY SizeAssumption
<1>2. Structure(e) /\ LinksOK(e, Null) /\ Freed(d, e, InPage(d, v))
  BY <1>1, InvalidateVpnOK DEF CacheInv
<1>3. im \in [Asids -> [Vpns -> Images]]
  BY DEF CacheInv, ImagesTyped
<1>4. im2 \in [Asids -> [Vpns -> Images]]
  BY <1>1, <1>3
<1>5. \A a \in Asids, w \in Vpns : w # v => im2[a][w] = im[a][w]
  BY <1>3
<1>6. \A w \in Vpns \cap Kernel : \A a, b \in Asids : im2[a][w] = im2[b][w]
  BY <1>1, <1>5 DEF CacheInv, ImagesTyped
<1>7. ASSUME NEW b \in Active(e) PROVE Filled(e.iblock[b], im2)
  <2>1. b \in Active(d) /\ b \notin InPage(d, v) /\ e.iblock[b] = d.iblock[b]
    BY <1>2 DEF Freed
  <2>2. b \in Blocks /\ d.iblock[b].Pc \in Pcs
    BY <2>1, ActiveBlocks DEF CacheInv, Structure, Caches, Iblocks
  <2>3. Vpn(d.iblock[b].Pc) \in Vpns /\ Vpn(d.iblock[b].Pc) # v
    BY <2>1, <2>2 DEF InPage, Vpns
  <2>4. Filled(d.iblock[b], im)
    BY <2>1 DEF CacheInv, CodeKept
  <2>5. PICK r, w : r = d.iblock[b] /\ w = Vpn(r.Pc) /\ w \in Vpns /\ w # v
    BY <2>3
  <2>6. Filled(r, im)
    BY <2>4, <2>5
  <2>7. im2[r.Asid][w] = im[r.Asid][w]
    BY <1>5, <2>5, <2>6 DEF Filled
  <2>8. Filled(r, im2)
    BY <2>5, <2>6, <2>7 DEF Filled
  <2> QED BY <2>1, <2>5, <2>8
<1> QED BY <1>2, <1>4, <1>6, <1>7 DEF CacheInv, CodeKept, ImagesTyped

-----------------------------------------------------------------------------
(* The invariant, and entering a block.                                    *)

\* Of the processor: the mode belongs to the page, and the block being executed is the one
\* at the program counter, of the user's address space.
Runs ==
  /\ Pc \in Pcs /\ asid \in Asids /\ user = (Vpn(Pc) \notin Kernel)
  /\ block \in Blocks \cup {Null}
  /\ block # Null =>
       /\ block \in Active(c) /\ c.iblock[block].Pc = Pc
       /\ user => c.iblock[block].Asid = asid

\* The inductive invariant.
IInv == CacheInv(c, image) /\ Runs

\* The blocks still hold what they should when only links and tables change.
LEMMA AlikeCode ==
  ASSUME NEW d, NEW im, CodeKept(d, im), NEW e, Alike(d, e),
         \A a \in Owned(e) : a \in Owned(d) \/ Last(d.iblock[a].Insts).op = "jalr"
  PROVE  CodeKept(e, im)
<1> SUFFICES ASSUME NEW a \in Active(e) PROVE Filled(e.iblock[a], im)
  BY DEF CodeKept
<1>1. /\ a \in Active(d)
      /\ e.iblock[a].Pc = d.iblock[a].Pc /\ e.iblock[a].Asid = d.iblock[a].Asid
      /\ e.iblock[a].Insts = d.iblock[a].Insts /\ e.iblock[a].PteKernel = d.iblock[a].PteKernel
  BY DEF Alike
<1>2. Filled(d.iblock[a], im)
  BY <1>1 DEF CodeKept
<1>3. e.iblock[a].HasPtable => Last(d.iblock[a].Insts).op = "jalr"
  BY <1>2 DEF Owned, Filled
<1> QED BY <1>1, <1>2, <1>3 DEF Filled

\* No link is at the place Null.
LEMMA LinksAnywhere ==
  ASSUME NEW d, Structure(d), LinksOK(d, Null), NEW x
  PROVE  LinksOK(d, x)
BY OutPlaces, PlacesApart DEF LinksOK

\* XrVectorException goes to the kernel.
LEMMA ExceptOK ==
  ASSUME CacheInv(c', image'), asid' \in Asids, Except
  PROVE  IInv'
BY CodeAssumption DEF IInv, Runs, Except

\* e is d with a block b for pc, and with what the hazard has.
Found(d, hazard, pc, e, b) ==
  /\ Structure(e) /\ CodeKept(e, image) /\ \A x : LinksOK(d, x) => LinksOK(e, x)
  /\ b \in Active(e) /\ e.iblock[b].Pc = pc /\ e.iblock[b].Asid = asid
  /\ user => Vpn(pc) \notin Kernel
  /\ hazard # Null =>
       /\ hazard \in Active(e) /\ e.iblock[hazard] = d.iblock[hazard]
       /\ Out(e, hazard) = Out(d, hazard)
       /\ \A p \in Out(d, hazard) : PlacePc(e, p) = PlacePc(d, p)

\* The cached block at pc, or a new one.
LEMMA FoundOK ==
  ASSUME NEW d, Structure(d), CodeKept(d, image), ImagesTyped(image), asid \in Asids,
         user \in BOOLEAN, NEW pc \in Pcs, MayExecute(d, pc),
         NEW hazard, hazard = Null \/ hazard \in Active(d),
         NEW cached, cached = Lookup(d, pc),
         NEW e, e = IF cached # {} THEN d ELSE NewIblock(d, hazard, pc),
         NEW b, b = IF cached # {} THEN CHOOSE x \in cached : TRUE ELSE e.IblockLruList[1]
  PROVE  Found(d, hazard, pc, e, b)
<1>1. CASE cached # {}
  <2>1. e = d /\ b \in cached
    BY <1>1
  <2>2. b \in Active(d) /\ d.iblock[b].Pc = pc /\ d.iblock[b].Asid = asid
    BY <2>1 DEF Lookup
  <2>3. ~(user /\ d.iblock[b].PteKernel)
    BY <1>1, <2>1 DEF MayExecute
  <2>4. d.iblock[b].PteKernel = (Vpn(pc) \in Kernel)
    BY <2>2 DEF CodeKept, Filled
  <2> QED BY <2>1, <2>2, <2>3, <2>4 DEF Found
<1>2. CASE cached = {}
  <2>1. e = NewIblock(d, hazard, pc) /\ b = e.IblockLruList[1] /\ Lookup(d, pc) = {}
    BY <1>2
  <2>2. /\ Structure(e) /\ b \in Active(e)
        /\ \A x : LinksOK(d, x) => LinksOK(e, x)
        /\ e.iblock[b].Pc = pc /\ e.iblock[b].Asid = asid /\ Filled(e.iblock[b], image)
        /\ \A a \in Active(e) \ {b} : a \in Active(d) /\ e.iblock[a] = d.iblock[a]
        /\ hazard # Null =>
              /\ hazard \in Active(e) /\ e.iblock[hazard] = d.iblock[hazard]
              /\ Out(e, hazard) = Out(d, hazard)
              /\ \A p \in Out(d, hazard) : PlacePc(e, p) = PlacePc(d, p)
    BY <2>1, NewOK
  <2>3. CodeKept(e, image)
    BY <2>2 DEF CodeKept
  <2>4. user => Vpn(pc) \notin Kernel
    BY <2>1 DEF MayExecute, Allowed
  <2> QED BY <2>2, <2>3, <2>4 DEF Found
<1> QED BY <1>1, <1>2

\* XrDecodeInstructions, and the link to the block.
LEMMA EnterOK ==
  ASSUME NEW d, Structure(d), CodeKept(d, image), ImagesTyped(image), asid \in Asids,
         user \in BOOLEAN, NEW pc \in Pcs, ~user => Vpn(pc) \in Kernel, MayExecute(d, pc),
         NEW hazard, hazard = Null \/ hazard \in Active(d), NEW place,
         LinksOK(d, place),
         place # Null =>
           /\ hazard \in Active(d) /\ place \in Out(d, hazard) /\ PlacePc(d, place) = pc
           /\ pc \in Reach(d.iblock[hazard].Pc)
           /\ Vpn(d.iblock[hazard].Pc) \notin Kernel => user /\ d.iblock[hazard].Asid = asid,
         Enter(d, hazard, pc, place)
  PROVE  IInv'
<1>1. PICK cached : cached = Lookup(d, pc)
  OBVIOUS
<1>2. PICK e : e = IF cached # {} THEN d ELSE NewIblock(d, hazard, pc)
  OBVIOUS
<1>3. PICK b : b = IF cached # {} THEN CHOOSE x \in cached : TRUE ELSE e.IblockLruList[1]
  OBVIOUS
<1>4. /\ c' = IF place = Null THEN e ELSE CreateCachedPointer(e, b, place)
      /\ block' \in {b} \cup (IF place = Null THEN {} ELSE {Null})
      /\ Pc' = pc /\ user' = user /\ asid' = asid /\ image' = image
  BY <1>1, <1>2, <1>3 DEF Enter
<1>f. Found(d, hazard, pc, e, b)
  BY <1>1, <1>2, <1>3, FoundOK
<1>5. /\ Structure(e) /\ CodeKept(e, image) /\ \A x : LinksOK(d, x) => LinksOK(e, x)
      /\ b \in Active(e) /\ e.iblock[b].Pc = pc /\ e.iblock[b].Asid = asid
      /\ user => Vpn(pc) \notin Kernel
      /\ hazard # Null =>
           /\ hazard \in Active(e) /\ e.iblock[hazard] = d.iblock[hazard]
           /\ Out(e, hazard) = Out(d, hazard)
           /\ \A p \in Out(d, hazard) : PlacePc(e, p) = PlacePc(d, p)
  BY <1>f DEF Found
<1>6. PICK g : g = c'
  OBVIOUS
<1>7. /\ Structure(g) /\ LinksOK(g, Null) /\ CodeKept(g, image)
      /\ b \in Active(g) /\ g.iblock[b].Pc = pc /\ g.iblock[b].Asid = asid
  <2>1. CASE place = Null
    BY <1>4, <1>5, <1>6, <2>1
  <2>2. CASE place # Null
    <3>1. g = CreateCachedPointer(e, b, place)
      BY <1>4, <1>6, <2>2
    <3>2. hazard # Null
      BY <2>2, ActiveBlocks, PlacesApart DEF Structure
    <3>3. hazard \in Active(e) /\ place \in Out(e, hazard) /\ e.iblock[b].Pc = PlacePc(e, place)
      BY <1>5, <2>2, <3>2
    <3>4. Leads(e, hazard, b)
      BY <1>5, <2>2, <3>2 DEF Leads
    <3>5. LinksOK(e, place)
      BY <1>5
    <3>6. Structure(g) /\ LinksOK(g, Null) /\ Alike(e, g) /\ Owned(g) = Owned(e)
      BY <1>5, <3>1, <3>3, <3>4, <3>5, CreateOK
    <3>7. CodeKept(g, image)
      BY <1>5, <3>6, AlikeCode
    <3>8. b \in Active(g) /\ g.iblock[b].Pc = pc /\ g.iblock[b].Asid = asid
      BY <1>5, <3>6 DEF Alike
    <3> QED BY <3>6, <3>7, <3>8
  <2> QED BY <2>1, <2>2
<1>8. CacheInv(c', image')
  BY <1>4, <1>6, <1>7 DEF CacheInv
<1>9. b \in Blocks
  BY <1>7, OutPlaces
<1>10. user = (Vpn(pc) \notin Kernel)
  BY <1>5
<1> QED BY <1>4, <1>6, <1>7, <1>8, <1>9, <1>10 DEF IInv, Runs

\* And if the mode may not execute it.
LEMMA EnterFails ==
  ASSUME NEW d, CacheInv(d, image), asid \in Asids, NEW pc, ~MayExecute(d, pc),
         NEW hazard, NEW place, Enter(d, hazard, pc, place)
  PROVE  IInv'
<1>1. c' = d /\ image' = image /\ asid' = asid /\ Except
  BY DEF Enter
<1> QED BY <1>1, ExceptOK

\* The block being executed, in the cache d.
At(d) ==
  /\ block \in Active(d) /\ d.iblock[block].Pc = Pc
  /\ user => d.iblock[block].Asid = asid
  /\ Pc \in Pcs /\ asid \in Asids /\ user = (Vpn(Pc) \notin Kernel)

\* Where control may go from a block.
LEMMA CodeReach ==
  ASSUME NEW d, CacheInv(d, image), NEW b \in Active(d), NEW pc, pc = d.iblock[b].Pc,
         NEW insts, insts = d.iblock[b].Insts, NEW last, last = Last(insts)
  PROVE  /\ last.op \in {"plain", "branch", "jump", "jalr"}
         /\ last.op \in {"plain", "branch"} => pc + Len(insts) \in Reach(pc)
         /\ last.op \in {"branch", "jump"} => last.target \in Reach(pc)
         /\ last.op = "jalr" => last.targets \subseteq Reach(pc)
<1>1. b \in Blocks /\ d \in Caches
  BY OutPlaces DEF CacheInv, Structure
<1>2. pc \in Pcs
  BY <1>1 DEF Caches, Iblocks
<1>3. PICK a : a = d.iblock[b].Asid
  OBVIOUS
<1>4. a \in Asids /\ insts = Decoded(image[a][Vpn(pc)], pc)
  BY <1>3 DEF CacheInv, CodeKept, Filled
<1>5. PICK code : code = image[a][Vpn(pc)] /\ code \in Images
  <2>1. Vpn(pc) \in Vpns
    BY <1>2 DEF Vpns
  <2> QED BY <1>4, <2>1 DEF CacheInv, ImagesTyped
<1>6. insts = Decoded(code, pc)
  BY <1>4, <1>5
<1> QED BY <1>2, <1>5, <1>6, CodeAssumption

\* A link is followed.
LEMMA DispatchOK ==
  ASSUME NEW d, CacheInv(d, image), At(d), NEW place \in Out(d, block), d.link[place] # Null,
         NEW pc, pc = PlacePc(d, place), Dispatch(d, pc, d.link[place])
  PROVE  IInv'
<1>1. PICK to : to = d.link[place]
  OBVIOUS
<1>2. place # Null
  BY OutPlaces, PlacesApart DEF CacheInv, At
<1>3. LinkOK(d, block, place)
  BY <1>2 DEF CacheInv, LinksOK, At
<1>4. /\ to \in Active(d) /\ d.iblock[to].Pc = pc /\ pc \in Reach(Pc)
      /\ Vpn(Pc) \notin Kernel => Vpn(pc) \notin Kernel /\ d.iblock[to].Asid = d.iblock[block].Asid
  BY <1>1, <1>3 DEF LinkOK, At
<1>5. /\ c' = d /\ Pc' = pc /\ block' \in {to, Null}
      /\ asid' = asid /\ user' = user /\ image' = image
  BY <1>1 DEF Dispatch
<1>6. pc \in Pcs /\ (Vpn(Pc) \in Kernel => Vpn(pc) \in Kernel)
  BY <1>4 DEF Reach
<1>7. to \in Blocks
  BY <1>4, OutPlaces DEF CacheInv
<1> QED BY <1>4, <1>5, <1>6, <1>7 DEF IInv, Runs, At

\* A link is followed, or made.
LEMMA FollowOK ==
  ASSUME NEW d, CacheInv(d, image), At(d), NEW place \in Out(d, block),
         NEW pc \in Reach(Pc), pc = PlacePc(d, place), Follow(d, pc, place)
  PROVE  IInv'
<1>1. CASE d.link[place] # Null
  BY <1>1, DispatchOK DEF Follow
<1>2. CASE d.link[place] = Null
  <2>1. Enter(d, block, pc, place)
    BY <1>2 DEF Follow
  <2>2. CASE ~MayExecute(d, pc)
    BY <2>1, <2>2, EnterFails DEF At
  <2>3. CASE MayExecute(d, pc)
    <3>1. LinksOK(d, place)
      BY LinksAnywhere DEF CacheInv
    <3>2. pc \in Pcs /\ user \in BOOLEAN /\ (~user => Vpn(pc) \in Kernel)
      BY DEF Reach, At
    <3>3. /\ block \in Active(d) /\ pc \in Reach(d.iblock[block].Pc)
          /\ Vpn(d.iblock[block].Pc) \notin Kernel => user /\ d.iblock[block].Asid = asid
      BY DEF At
    <3>4. Structure(d) /\ CodeKept(d, image) /\ ImagesTyped(image) /\ asid \in Asids
      BY DEF CacheInv, At
    <3> QED BY <2>1, <2>3, <3>1, <3>2, <3>3, <3>4, EnterOK
  <2> QED BY <2>2, <2>3
<1> QED BY <1>1, <1>2
-----------------------------------------------------------------------------
(* The actions.                                                            *)

\* XrExecuteBeq and the other branches, and jumps.
LEMMA BranchOK == IInv /\ Branch => IInv'
<1> SUFFICES ASSUME IInv, Branch PROVE IInv'
  OBVIOUS
<1>1. At(c) /\ CacheInv(c, image) /\ block # Null
  BY DEF Branch, IInv, Runs, At
<1>2. PICK insts, last : insts = c.iblock[block].Insts /\ last = Last(insts)
  OBVIOUS
<1>3. last.op # "jalr"
  BY <1>2 DEF Branch, Insts
<1>4. PICK path \in (IF last.op = "branch" THEN Paths ELSE {PathTrue}) :
         Follow(c, PathPc(c, block, path), Path(block, path))
  BY <1>2 DEF Branch, Insts
<1>5. ~c.iblock[block].HasPtable
  BY <1>1, <1>2, <1>3 DEF At, CacheInv, CodeKept, Filled
<1>6. path \in Paths
  BY <1>4, PlacesApart
<1>7. Path(block, path) \in Out(c, block)
  BY <1>5, <1>6 DEF Out
<1>8. PlacePc(c, Path(block, path)) = PathPc(c, block, path)
  BY DEF PlacePc, Path
<1>9. /\ last.op \in {"plain", "branch", "jump", "jalr"}
      /\ last.op \in {"plain", "branch"} => Pc + Len(insts) \in Reach(Pc)
      /\ last.op \in {"branch", "jump"} => last.target \in Reach(Pc)
  BY <1>1, <1>2, CodeReach DEF At
<1>10. PathPc(c, block, path) = IF path = PathFalse \/ last.op = "plain" THEN Pc + Len(insts)
                                ELSE last.target
  BY <1>1, <1>2 DEF PathPc, At
<1>11. path = PathFalse => last.op = "branch"
  BY <1>4 DEF PathFalse, PathTrue
<1>12. PathPc(c, block, path) \in Reach(Pc)
  BY <1>3, <1>9, <1>10, <1>11
<1> QED BY <1>1, <1>4, <1>7, <1>8, <1>12, FollowOK

\* XrExecuteJalr.
LEMMA JalrOK == IInv /\ Jalr => IInv'
<1> SUFFICES ASSUME IInv, Jalr PROVE IInv'
  OBVIOUS
<1>1. At(c) /\ CacheInv(c, image) /\ block # Null
  BY DEF Jalr, IInv, Runs, At
<1>2. PICK insts, last : insts = c.iblock[block].Insts /\ last = Last(insts)
  OBVIOUS
<1>3. last.op = "jalr"
  BY <1>2 DEF Jalr, Insts
<1>p. PICK pc \in Last(Insts(block)).targets :
        LET d == IF c.iblock[block].HasPtable THEN c ELSE AllocatePtable(c, block)
            t == Table(d, block)
            index == pc % Entries
            to == d.link[Entry(t, index)]
        IN  IF d.PtablePcs[t][index] = pc /\ to # Null THEN Dispatch(d, pc, to)
            ELSE IF MayExecute(d, pc)
                 THEN Enter([d EXCEPT !.PtablePcs[t][index] = pc], block, pc, Entry(t, index))
                 ELSE Enter(d, block, pc, Entry(t, index))
  BY DEF Jalr
<1>q. pc \in last.targets
  BY <1>2 DEF Insts
<1>d. PICK d : d = IF c.iblock[block].HasPtable THEN c ELSE AllocatePtable(c, block)
  OBVIOUS
<1>t. PICK t : t = Table(d, block)
  OBVIOUS
<1>i. PICK index : index = pc % Entries
  OBVIOUS
<1>o. PICK to : to = d.link[Entry(t, index)]
  OBVIOUS
<1>4. IF d.PtablePcs[t][index] = pc /\ to # Null THEN Dispatch(d, pc, to)
      ELSE IF MayExecute(d, pc)
           THEN Enter([d EXCEPT !.PtablePcs[t][index] = pc], block, pc, Entry(t, index))
           ELSE Enter(d, block, pc, Entry(t, index))
  BY ONLY <1>p, <1>d, <1>t, <1>i, <1>o
<1>5. pc \in Reach(Pc)
  BY <1>1, <1>2, <1>3, <1>q, CodeReach DEF At
<1>6. pc \in Pcs /\ pc \in Nat /\ (~user => Vpn(pc) \in Kernel) /\ user \in BOOLEAN
  BY <1>1, <1>5, SizeAssumption DEF Reach, At
<1>7. index \in Indices
  BY <1>i, <1>6, SizeAssumption DEF Indices
<1>8. CacheInv(d, image) /\ At(d) /\ d.iblock[block].HasPtable
  <2>1. CASE c.iblock[block].HasPtable
    BY <1>1, <1>d, <2>1
  <2>2. CASE ~c.iblock[block].HasPtable
    <3>1. d = AllocatePtable(c, block)
      BY <1>d, <2>2
    <3>2. Structure(c) /\ LinksOK(c, Null) /\ CodeKept(c, image) /\ block \in Active(c)
      BY <1>1 DEF CacheInv, At
    <3>3. /\ Structure(d) /\ LinksOK(d, Null) /\ Alike(c, d)
          /\ d.iblock[block].HasPtable /\ Owned(d) = Owned(c) \cup {block}
      BY <2>2, <3>1, <3>2, AllocateOK
    <3>4. CodeKept(d, image)
      BY <1>2, <1>3, <3>2, <3>3, AlikeCode
    <3>5. At(d)
      BY <1>1, <3>3 DEF At, Alike
    <3> QED BY <1>1, <3>3, <3>4, <3>5 DEF CacheInv
  <2> QED BY <2>1, <2>2
<1>9. Entry(t, index) \in Out(d, block)
  BY <1>t, <1>7, <1>8 DEF Out
<1>10. PlacePc(d, Entry(t, index)) = d.PtablePcs[t][index]
  BY DEF PlacePc, Entry
<1>11. CASE d.PtablePcs[t][index] = pc /\ to # Null
  <2>1. Dispatch(d, pc, d.link[Entry(t, index)]) /\ d.link[Entry(t, index)] # Null
    BY <1>4, <1>11, <1>o
  <2> QED BY <1>8, <1>9, <1>10, <1>11, <2>1, DispatchOK
<1>12. CASE ~(d.PtablePcs[t][index] = pc /\ to # Null) /\ ~MayExecute(d, pc)
  <2>1. Enter(d, block, pc, Entry(t, index))
    BY <1>4, <1>12
  <2> QED BY <1>8, <1>12, <2>1, EnterFails DEF At
<1>13. CASE ~(d.PtablePcs[t][index] = pc /\ to # Null) /\ MayExecute(d, pc)
  <2>1. PICK e : e = [d EXCEPT !.PtablePcs[t][index] = pc]
    OBVIOUS
  <2>2. Enter(e, block, pc, Entry(t, index))
    BY <1>4, <1>13, <2>1
  <2>3. /\ Structure(d) /\ LinksOK(d, Null) /\ CodeKept(d, image) /\ ImagesTyped(image)
        /\ block \in Active(d)
    BY <1>8 DEF CacheInv, At
  <2>4. /\ Structure(e) /\ LinksOK(e, Entry(t, index)) /\ Alike(d, e)
        /\ Active(e) = Active(d) /\ e.iblock = d.iblock /\ e.link = d.link
        /\ Out(e, block) = Out(d, block) /\ Entry(t, index) \in Out(e, block)
        /\ PlacePc(e, Entry(t, index)) = pc
    BY <1>t, <1>6, <1>7, <1>8, <2>1, <2>3, PcsOK
  <2>5. CodeKept(e, image)
    BY <2>3, <2>4 DEF CodeKept
  <2>6. MayExecute(e, pc)
    <3>1. Lookup(e, pc) = Lookup(d, pc)
      BY <2>4 DEF Lookup
    <3> QED BY <1>13, <2>4, <3>1 DEF MayExecute
  <2>7. /\ block \in Active(e) /\ pc \in Reach(e.iblock[block].Pc) /\ asid \in Asids
        /\ Vpn(e.iblock[block].Pc) \notin Kernel => user /\ e.iblock[block].Asid = asid
    BY <1>5, <1>8, <2>4 DEF At
  <2> QED BY <1>6, <2>2, <2>3, <2>4, <2>5, <2>6, <2>7, EnterOK
<1> QED BY <1>11, <1>12, <1>13

\* XrCheckConditions.
LEMMA CheckConditionsOK == IInv /\ CheckConditions => IInv'
<1> SUFFICES ASSUME IInv, CheckConditions PROVE IInv'
  OBVIOUS
<1>1. Enter(c, Null, Pc, Null) /\ CacheInv(c, image) /\ asid \in Asids
  BY DEF CheckConditions, IInv, Runs
<1>2. CASE ~MayExecute(c, Pc)
  BY <1>1, <1>2, EnterFails
<1>3. CASE MayExecute(c, Pc)
  <2>1. Structure(c) /\ CodeKept(c, image) /\ ImagesTyped(image) /\ LinksOK(c, Null)
    BY <1>1 DEF CacheInv
  <2>2. user \in BOOLEAN /\ Pc \in Pcs /\ (~user => Vpn(Pc) \in Kernel)
    BY DEF IInv, Runs
  <2> QED BY <1>1, <1>3, <2>1, <2>2, EnterOK
<1> QED BY <1>2, <1>3

\* Exceptions, RFE, and the moves to control registers.
LEMMA OthersOK ==
  IInv /\ (Exception \/ Rfe \/ MtcrItbTag \/ MtcrInvalidate \/ MtcrInvalidatePage) => IInv'
<1> SUFFICES ASSUME IInv PROVE Exception \/ Rfe \/ MtcrItbTag \/ MtcrInvalidate \/ MtcrInvalidatePage => IInv'
  OBVIOUS
<1>1. /\ CacheInv(c, image) /\ Pc \in Pcs /\ asid \in Asids /\ user = (Vpn(Pc) \notin Kernel)
      /\ block \in Blocks \cup {Null}
      /\ block # Null => block \in Active(c) /\ c.iblock[block].Pc = Pc
  BY DEF IInv, Runs
<1>2. Null \notin Blocks
  BY PlacesApart
<1>3. ASSUME Exception PROVE IInv'
  BY <1>1, <1>3, ExceptOK DEF Exception
<1>4. ASSUME Rfe PROVE IInv'
  BY <1>1, <1>4 DEF Rfe, IInv, Runs
<1>5. ASSUME MtcrItbTag PROVE IInv'
  BY <1>1, <1>5 DEF MtcrItbTag, InKernel, IInv, Runs
<1>6. ASSUME MtcrInvalidate PROVE IInv'
  <2>1. PICK new \in [Asids -> [Changing -> Images]] :
          image' = [a \in Asids |-> [v \in Vpns |-> IF v \in Changing THEN new[a][v] ELSE image[a][v]]]
    BY <1>6 DEF MtcrInvalidate
  <2>2. c' = InvalidateIblockCache(c)
    BY <1>6 DEF MtcrInvalidate
  <2>3. Structure(c) /\ ImagesTyped(image)
    BY <1>1 DEF CacheInv
  <2>4. PICK im2, e : im2 = image' /\ e = c'
    OBVIOUS
  <2>5. im2 = [a \in Asids |-> [v \in Vpns |-> IF v \in Changing THEN new[a][v] ELSE image[a][v]]]
    BY <2>1, <2>4
  <2>6. e = InvalidateIblockCache(c)
    BY <2>2, <2>4
  <2>7. CacheInv(e, im2)
    BY <2>3, <2>5, <2>6, InvalidateOK
  <2>8. CacheInv(c', image')
    BY <2>4, <2>7
  <2> QED BY <1>1, <1>6, <2>8 DEF MtcrInvalidate, InKernel, IInv, Runs
<1>7. ASSUME MtcrInvalidatePage PROVE IInv'
  <2>1. PICK v \in Changing :
          /\ \E new \in [Asids -> Images] :
               image' = [a \in Asids |-> [image[a] EXCEPT ![v] = new[a]]]
          /\ c' = InvalidateIblockCacheByVpn(c, v)
    BY <1>7 DEF MtcrInvalidatePage
  <2>2. PICK new \in [Asids -> Images] : image' = [a \in Asids |-> [image[a] EXCEPT ![v] = new[a]]]
    BY <2>1
  <2>3. CacheInv(c', image')
    BY <1>1, <2>1, <2>2, InvalidatePageOK
  <2> QED BY <1>1, <1>7, <2>3 DEF MtcrInvalidatePage, InKernel, IInv, Runs
<1> QED BY <1>3, <1>4, <1>5, <1>6, <1>7

\* XrInitializeProcessor.
LEMMA InitOK == Init => IInv
<1> SUFFICES ASSUME Init PROVE IInv
  OBVIOUS
<1>1. PICK free \in SetToSeqs(Blocks), tables \in SetToSeqs(Ptables) :
       c = [IblockFreeList |-> free, IblockLruList |-> <<>>,
            PtableFreeList |-> tables[1], VpageHash |-> {},
            iblock |-> [b \in Blocks |-> NoBlock],
            link |-> [p \in Places |->
              IF \E n \in 1 .. (Len(tables) - 1) : p = Entry(tables[n], 0)
              THEN tables[1 + CHOOSE n \in DOMAIN tables : p = Entry(tables[n], 0)] ELSE Null],
            PtablePcs |-> [t \in Ptables |-> NoPcs],
            vpage |-> [v \in Vpns |-> [References |-> 0, IblockVpnList |-> <<>>]]]
  BY DEF Init
<1>2. Lists(free, Blocks) /\ Lists(tables, Ptables)
  BY SizeAssumption, ListOfSeqs
<1>3. /\ Len(tables) \in Nat /\ DOMAIN tables = 1 .. Len(tables)
      /\ \A n \in 1 .. Len(tables) : tables[n] \in Ptables
      /\ \A n, k \in 1 .. Len(tables) : tables[n] = tables[k] => n = k
  BY <1>2, ListFacts
<1>4. Len(tables) \in Nat \ {0} /\ tables # <<>>
  <2>1. Ptables # {}
    BY SizeAssumption, FS_EmptySet
  <2>2. tables # <<>>
    BY <1>2, <2>1, ListEmpty
  <2> QED BY <1>2, <2>2, EmptySeq DEF Lists
<1>5. PICK link : link = [p \in Places |->
              IF \E n \in 1 .. (Len(tables) - 1) : p = Entry(tables[n], 0)
              THEN tables[1 + CHOOSE n \in DOMAIN tables : p = Entry(tables[n], 0)] ELSE Null]
  OBVIOUS
<1>6. ASSUME NEW n \in 1 .. (Len(tables) - 1), NEW p \in Places, p = Entry(tables[n], 0)
      PROVE  link[p] = tables[n + 1] /\ tables[n + 1] \in Ptables
  <2>1. n \in DOMAIN tables
    BY <1>3
  <2>2. PICK m : m = CHOOSE k \in DOMAIN tables : p = Entry(tables[k], 0)
    OBVIOUS
  <2>3. m \in DOMAIN tables /\ p = Entry(tables[m], 0)
    BY <1>6, <2>1, <2>2
  <2>4. m = n
    BY <1>3, <1>6, <2>1, <2>3, PlacesApart
  <2>5. link[p] = tables[1 + m]
    BY <1>5, <1>6, <2>2
  <2>6. 1 + m = n + 1 /\ n + 1 \in 1 .. Len(tables)
    BY <1>3, <2>4
  <2> QED BY <1>3, <2>5, <2>6
<1>7. \A p \in Places : (\A n \in 1 .. (Len(tables) - 1) : p # Entry(tables[n], 0)) => link[p] = Null
  BY <1>5
<1>8. link \in [Places -> Blocks \cup Ptables \cup {Null}]
  <2>1. \A p \in Places : link[p] \in Ptables \cup {Null}
    BY <1>6, <1>7
  <2>2. link = [p \in Places |-> link[p]]
    BY <1>5
  <2> QED BY <2>1, <2>2
<1>9. /\ c.IblockFreeList = free /\ c.IblockLruList = <<>> /\ c.PtableFreeList = tables[1]
      /\ c.VpageHash = {} /\ c.iblock = [b \in Blocks |-> NoBlock] /\ c.link = link
      /\ c.vpage = [v \in Vpns |-> [References |-> 0, IblockVpnList |-> <<>>]]
  BY ONLY <1>1, <1>5
<1>10. c \in Caches
  <2>1. free \in Seq(Blocks) /\ <<>> \in Seq(Blocks)
    BY <1>2, EmptySeq DEF Lists
  <2>2. PICK blocks, pcs, pages :
          /\ blocks = [b \in Blocks |-> NoBlock] /\ pcs = [t \in Ptables |-> NoPcs]
          /\ pages = [v \in Vpns |-> [References |-> 0, IblockVpnList |-> <<>>]]
    OBVIOUS
  <2>3. blocks \in [Blocks -> Iblocks] /\ pcs \in [Ptables -> [Indices -> Pcs]]
    BY <2>2, NoBlockTyped
  <2>4. pages \in [Vpns -> [References : Int, IblockVpnList : Seq(Blocks)]]
    BY <2>1, <2>2
  <2>5. tables[1] \in Ptables
    BY <1>3, <1>4
  <2>6. c = [IblockFreeList |-> free, IblockLruList |-> <<>>, PtableFreeList |-> tables[1],
             VpageHash |-> {}, iblock |-> blocks, link |-> link, PtablePcs |-> pcs, vpage |-> pages]
    BY ONLY <1>1, <1>5, <2>2
  <2> QED BY <1>8, <2>1, <2>3, <2>4, <2>5, <2>6 DEF Caches
<1>11. Active(c) = {} /\ Owned(c) = {} /\ Used(c) = {}
  <2>1. Active(c) = {}
    BY <1>9, ListEmpty DEF Active, Lists
  <2> QED BY <2>1 DEF Owned, Used
<1>12. BlocksListed(c) /\ KeysDiffer(c)
  <2>1. Blocks \ Active(c) = Blocks
    BY <1>11
  <2> QED BY <1>2, <1>9, <1>11, <2>1, ListEmpty DEF BlocksListed, KeysDiffer
<1>13. TablesListed(c)
  <2>1. Ptables \ Used(c) = Ptables
    BY <1>11
  <2>2. ASSUME NEW n \in DOMAIN tables
        PROVE  c.link[Entry(tables[n], 0)] = IF n < Len(tables) THEN tables[n + 1] ELSE Null
    <3>1. Entry(tables[n], 0) \in Places
      BY <1>3, PlacesApart
    <3>2. CASE n < Len(tables)
      <4>1. n \in 1 .. (Len(tables) - 1)
        BY <1>3, <3>2
      <4> QED BY <1>6, <1>9, <3>1, <3>2, <4>1
    <3>3. CASE ~(n < Len(tables))
      <4>1. \A k \in 1 .. (Len(tables) - 1) : k \in 1 .. Len(tables) /\ k # n
        BY <1>3, <3>3
      <4>2. \A k \in 1 .. (Len(tables) - 1) : Entry(tables[n], 0) # Entry(tables[k], 0)
        BY <1>3, <4>1, PlacesApart
      <4> QED BY <1>7, <1>9, <3>1, <3>3, <4>2
    <3> QED BY <3>2, <3>3
  <2>3. FreeTables(c, tables)
    BY <1>4, <1>9, <2>2 DEF FreeTables
  <2> QED BY <1>2, <1>11, <2>1, <2>3 DEF TablesListed
<1>14. ASSUME NEW v \in Vpns PROVE PageListed(c, v)
  <2>1. c.vpage[v].IblockVpnList = <<>> /\ v \notin c.VpageHash
    BY <1>9
  <2>2. InPage(c, v) = {}
    BY <1>11 DEF InPage
  <2> QED BY <2>1, <2>2, ListEmpty DEF PageListed
<1>15. Unlinked(c)
  BY <1>7, <1>9, PlacesApart DEF Unlinked
<1>16. Structure(c)
  BY <1>10, <1>12, <1>13, <1>14, <1>15 DEF Structure
<1>17. ImagesTyped(image)
  <2>1. PICK i : i = CHOOSE j \in Images : TRUE
    OBVIOUS
  <2>2. i \in Images /\ image = [a \in Asids |-> [v \in Vpns |-> i]]
    BY <2>1, SizeAssumption DEF Init
  <2> QED BY <2>2 DEF ImagesTyped
<1>18. LinksOK(c, Null) /\ CodeKept(c, image)
  BY <1>11 DEF LinksOK, CodeKept
<1> QED BY <1>16, <1>17, <1>18, CodeAssumption DEF Init, IInv, CacheInv, Runs
-----------------------------------------------------------------------------
(* What the cache promises.                                                *)

\* The invariant holds in every state.
LEMMA IInvHolds == Spec => []IInv
<1>1. IInv /\ [Next]_vars => IInv'
  <2> SUFFICES ASSUME IInv, [Next]_vars PROVE IInv'
    OBVIOUS
  <2>1. CASE Next
    BY <2>1, CheckConditionsOK, BranchOK, JalrOK, OthersOK DEF Next
  <2>2. CASE UNCHANGED vars
    BY <2>2 DEF vars, IInv, Runs
  <2> QED BY <2>1, <2>2
<1> QED BY InitOK, <1>1, PTL DEF Spec

\* The block that is being executed holds what a fetch at its address would give now, and
\* the mode may execute it, although links are followed without a lookup.
THEOREM RunsWhatIsMapped == Spec => []RunsMapped
<1>1. IInv => RunsMapped
  <2> SUFFICES ASSUME IInv, block # Null
               PROVE  /\ block \in Active(c)
                      /\ c.iblock[block].Pc \in Pcs
                      /\ c.iblock[block].Insts = Decoded(image[asid][Vpn(c.iblock[block].Pc)], c.iblock[block].Pc)
                      /\ ~(user /\ c.iblock[block].PteKernel)
    BY DEF RunsMapped
  <2>1. /\ block \in Active(c) /\ c.iblock[block].Pc = Pc /\ Pc \in Pcs /\ asid \in Asids
        /\ user = (Vpn(Pc) \notin Kernel) /\ (user => c.iblock[block].Asid = asid)
    BY DEF IInv, Runs
  <2>2. PICK a : a = c.iblock[block].Asid
    OBVIOUS
  <2>3. /\ a \in Asids /\ c.iblock[block].Insts = Decoded(image[a][Vpn(Pc)], Pc)
        /\ c.iblock[block].PteKernel = (Vpn(Pc) \in Kernel)
    BY <2>1, <2>2 DEF IInv, CacheInv, CodeKept, Filled
  <2>4. image[a][Vpn(Pc)] = image[asid][Vpn(Pc)]
    <3>1. CASE user
      BY <2>1, <2>2, <3>1
    <3>2. CASE ~user
      <4>1. Vpn(Pc) \in Vpns \cap Kernel
        BY <2>1, <3>2 DEF Vpns
      <4> QED BY <2>1, <2>3, <4>1 DEF IInv, CacheInv, ImagesTyped
    <3> QED BY <3>1, <3>2
  <2> QED BY <2>1, <2>3, <2>4
<1> QED BY IInvHolds, <1>1, PTL

\* Every link leads to a block in use at the address that control goes to, and that block
\* knows the place, however blocks and tables have been reclaimed.
THEOREM LinksLeadToBlocks == Spec => []LinksLead
<1>1. IInv => LinksLead
  <2> SUFFICES ASSUME IInv, NEW b \in Active(c), NEW p \in Out(c, b), c.link[p] # Null
               PROVE  /\ c.link[p] \in Active(c)
                      /\ c.iblock[c.link[p]].Pc = PlacePc(c, p)
                      /\ \E i \in DOMAIN c.iblock[c.link[p]].CachedBy :
                           c.iblock[c.link[p]].CachedBy[i] = p
    BY DEF LinksLead
  <2>1. Structure(c) /\ LinksOK(c, Null)
    BY DEF IInv, CacheInv
  <2>2. p # Null
    BY <2>1, OutPlaces, PlacesApart
  <2>3. LinkOK(c, b, p)
    BY <2>1, <2>2 DEF LinksOK
  <2>4. PICK to : to = c.link[p] /\ to \in Active(c)
    BY <2>3 DEF LinkOK
  <2>5. to \in Blocks /\ c \in Caches
    BY <2>1, <2>4, OutPlaces DEF Structure
  <2>6. DOMAIN c.iblock[to].CachedBy = 0 .. (CachedByMax - 1)
    BY <2>5 DEF Caches, Iblocks
  <2> QED BY <2>3, <2>4, <2>6 DEF LinkOK
<1> QED BY IInvHolds, <1>1, PTL

\* Blocks, tables and Vpages are on the lists they belong to, once, and a Vpage counts its
\* blocks.
THEOREM ListsAlwaysAgree == Spec => []ListsAgree
<1>1. IInv => ListsAgree
  <2> SUFFICES ASSUME IInv PROVE ListsAgree
    OBVIOUS
  <2>1. Structure(c) /\ c \in Caches
    BY DEF IInv, CacheInv, Structure
  <2>2. Active(c) \subseteq Blocks
    BY <2>1, ActiveBlocks
  <2>3. PICK free, lru : free = c.IblockFreeList /\ lru = c.IblockLruList
    OBVIOUS
  <2>4. Lists(free, Blocks \ Active(c)) /\ Lists(lru, Active(c))
    BY <2>1, <2>3 DEF Structure, BlocksListed
  <2>5. /\ Len(free) \in Nat /\ Len(lru) \in Nat
        /\ \A i \in 1 .. Len(free) : free[i] \in Blocks \ Active(c)
        /\ \A i \in 1 .. Len(lru) : lru[i] \in Active(c)
        /\ \A i, j \in 1 .. Len(free) : free[i] = free[j] => i = j
        /\ \A i, j \in 1 .. Len(lru) : lru[i] = lru[j] => i = j
    BY <2>4, ListFacts
  <2>6. IsInjective(c.IblockFreeList \o c.IblockLruList)
    <3>1. free \in Seq(Blocks) /\ lru \in Seq(Blocks)
      BY <2>1, <2>3 DEF Caches
    <3>2. PICK both : both = free \o lru
      OBVIOUS
    <3>3. /\ both \in Seq(Blocks) /\ Len(both) = Len(free) + Len(lru)
          /\ \A i \in 1 .. Len(both) : both[i] = IF i <= Len(free) THEN free[i] ELSE lru[i - Len(free)]
      BY <3>1, <3>2, ConcatProperties
    <3>4. DOMAIN both = 1 .. Len(both)
      BY <3>3
    <3>5. ASSUME NEW i \in 1 .. Len(both), NEW j \in 1 .. Len(both), both[i] = both[j]
          PROVE  i = j
      <4>1. CASE i <= Len(free) /\ j <= Len(free)
        BY <2>5, <3>3, <3>5, <4>1
      <4>2. CASE i <= Len(free) /\ ~(j <= Len(free))
        <5>1. j - Len(free) \in 1 .. Len(lru) /\ i \in 1 .. Len(free)
          BY <2>5, <3>3, <4>2
        <5> QED BY <2>5, <3>3, <3>5, <4>2, <5>1
      <4>3. CASE ~(i <= Len(free)) /\ j <= Len(free)
        <5>1. i - Len(free) \in 1 .. Len(lru) /\ j \in 1 .. Len(free)
          BY <2>5, <3>3, <4>3
        <5> QED BY <2>5, <3>3, <3>5, <4>3, <5>1
      <4>4. CASE ~(i <= Len(free)) /\ ~(j <= Len(free))
        <5>1. i - Len(free) \in 1 .. Len(lru) /\ j - Len(free) \in 1 .. Len(lru)
          BY <2>5, <3>3, <4>4
        <5>2. i - Len(free) = j - Len(free)
          BY <2>5, <3>3, <3>5, <4>4, <5>1
        <5> QED BY <2>5, <5>2
      <4> QED BY <4>1, <4>2, <4>3, <4>4
    <3> QED BY <2>3, <3>2, <3>4, <3>5 DEF IsInjective
  <2>7. ToSet(c.IblockFreeList) \cup Active(c) = Blocks
    BY <2>2, <2>3, <2>4 DEF Lists
  <2>8. \A a, b \in Active(c) : a # b => <<c.iblock[a].Pc, c.iblock[a].Asid>>
                                          # <<c.iblock[b].Pc, c.iblock[b].Asid>>
    BY <2>1 DEF Structure, KeysDiffer
  <2>9. \A a, b \in Owned(c) : a # b => Table(c, a) # Table(c, b)
    BY <2>1 DEF Structure, TablesListed
  <2>10. Used(c) \subseteq Ptables /\ \E tables \in SetToSeqs(Ptables \ Used(c)) : FreeTables(c, tables)
    <3>1. Used(c) \subseteq Ptables
      BY <2>1 DEF Structure, TablesListed, Used
    <3>2. IsFiniteSet(Ptables \ Used(c))
      BY SizeAssumption, FS_Difference
    <3>3. PICK tables : Lists(tables, Ptables \ Used(c)) /\ FreeTables(c, tables)
      BY <2>1 DEF Structure, TablesListed
    <3>4. tables \in SetToSeqs(Ptables \ Used(c))
      BY <3>2, <3>3, ListOfSeqs
    <3> QED BY <3>1, <3>3, <3>4
  <2>11. ASSUME NEW v \in Vpns
         PROVE  /\ IsInjective(c.vpage[v].IblockVpnList)
                /\ ToSet(c.vpage[v].IblockVpnList) = {b \in Active(c) : Vpn(c.iblock[b].Pc) = v}
                /\ v \in c.VpageHash <=> c.vpage[v].IblockVpnList # <<>>
                /\ v \in c.VpageHash => c.vpage[v].References = Len(c.vpage[v].IblockVpnList)
    <3>1. PageListed(c, v)
      BY <2>1 DEF Structure
    <3> QED BY <3>1 DEF PageListed, Lists, InPage
  <2> QED BY <2>6, <2>7, <2>8, <2>9, <2>10, <2>11 DEF ListsAgree, Used
<1> QED BY IInvHolds, <1>1, PTL
=============================================================================
