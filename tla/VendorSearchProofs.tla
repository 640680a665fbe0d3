------------------------- MODULE VendorSearchProofs -------------------------
(***************************************************************************)
(* Theorems about VendorLoader that rest on FindServerMapEntry: it finds   *)
(* what is in a ServerMap and nothing else, the links of a menu lead       *)
(* somewhere, and the loader implements VendorCache.                       *)
(***************************************************************************)
EXTENDS VendorLoaderProofs, WellFoundedInduction

-----------------------------------------------------------------------------
(* Induction, by the least element of a set.                               *)
LEMMA Smallest ==
  ASSUME NEW S, S \subseteq Nat, S # {}
  PROVE  \E n \in S : \A m \in S : n <= m
<1> DEFINE R == OpToRel(<, Nat)
<1>1. PICK n \in S : \A m \in S : ~ (<<m, n>> \in R)
  BY NatLessThanWellFounded, WFMin
<1>2. \A m \in S : ~ (m < n)
  BY <1>1 DEF OpToRel
<1> QED BY <1>2

(* A set that has 0, and the successors of its elements, is Nat.           *)
LEMMA NatBySet ==
  ASSUME NEW Q, 0 \in Q, \A n \in Nat : n \in Q => n + 1 \in Q
  PROVE  \A n \in Nat : n \in Q
<1> DEFINE S == {n \in Nat : n \notin Q}
<1> SUFFICES ASSUME S # {} PROVE FALSE
  OBVIOUS
<1>1. PICK n \in S : \A m \in S : n <= m
  BY Smallest
<1>2. n # 0 /\ n - 1 \in Nat /\ n - 1 + 1 = n
  BY <1>1
<1>3. n - 1 \in Q
  BY <1>1, <1>2
<1> QED BY <1>2, <1>3

-----------------------------------------------------------------------------
(* Paths.                                                                  *)

(* A path is its front, extended with its last key.                        *)
LEMMA FrontLast ==
  ASSUME NEW q \in Path, q # << >>
  PROVE  /\ Front(q) \in Path /\ Last(q) \in Keys
         /\ q = Append(Front(q), Last(q))
         /\ Len(q) = Len(Front(q)) + 1
<1>1. PICK p \in Path, s \in Keys : q = Append(p, s)
  BY SequenceEmptyOrAppend DEF Path
<1>2. Front(q) = p /\ Last(q) = s /\ Len(q) = Len(p) + 1
  BY <1>1, Extended
<1> QED BY <1>1, <1>2

(* Going down by one key, and then along r.                                *)
LEMMA GoDown ==
  ASSUME NEW p \in Path, NEW s \in Keys, NEW r \in Path
  PROVE  /\ <<s>> \o r \in Path
         /\ p \o (<<s>> \o r) = Append(p, s) \o r
         /\ p \o <<s>> = Append(p, s)
         /\ <<s>> \in Path /\ <<s>> # << >> /\ Last(<<s>>) = s
         /\ r # << >> => <<s>> \o r # << >> /\ Last(<<s>> \o r) = Last(r)
<1> USE DEF Path
<1>1. <<s>> \in Seq(Keys) /\ Len(<<s>>) = 1 /\ <<s>>[1] = s
  OBVIOUS
<1>2. <<s>> # << >> /\ Last(<<s>>) = s
  BY <1>1, EmptySeq DEF Last
<1>3. p \o <<s>> = Append(p, s)
  BY AppendIsConcat
<1>4. /\ <<s>> \o r \in Seq(Keys) /\ Len(<<s>> \o r) = 1 + Len(r)
      /\ \A i \in 1 .. 1 + Len(r) : (<<s>> \o r)[i] = IF i <= 1 THEN <<s>>[i] ELSE r[i - 1]
  BY <1>1, ConcatProperties
<1>5. p \o (<<s>> \o r) = Append(p, s) \o r
  BY <1>1, <1>3, ConcatAssociative
<1>6. ASSUME r # << >> PROVE <<s>> \o r # << >> /\ Last(<<s>> \o r) = Last(r)
  <2>1. Len(r) \in Nat \ {0}
    BY <1>6, EmptySeq
  <2>2. 1 + Len(r) \in 1 .. 1 + Len(r) /\ ~(1 + Len(r) <= 1) /\ 1 + Len(r) - 1 = Len(r)
    BY <2>1
  <2>3. (<<s>> \o r)[1 + Len(r)] = r[Len(r)]
    BY <1>4, <2>2
  <2> QED BY <1>4, <2>1, <2>3, EmptySeq DEF Last
<1> QED BY <1>1, <1>2, <1>3, <1>4, <1>5, <1>6

-----------------------------------------------------------------------------
(* The maps that are searched: of bounded depth, and without an entry or   *)
(* an element that has no key.                                             *)
Nodes(m) == m.maps \cup {<< >>}

Searchable(m, depth) ==
  /\ m \in Maps /\ WellFormed(m)
  /\ << >> \notin m.maps \cup m.lists
  /\ depth \in Nat /\ \A q \in m.maps : Len(q) <= depth

(* What is found at and below node p, when find says what is found below   *)
(* the others: the body of the recursion in FindServerMapEntry.            *)
BelowNode(m, p) == {q \in m.maps : Front(q) = p}

FoundThrough(e, q, below) ==
  IF Last(q) = e THEN {<<e>>} ELSE {<<Last(q)>> \o r : r \in below}

FoundAt(m, e, find, p) ==
  IF Append(p, e) \in m.lists THEN {<<e>>}
  ELSE UNION {FoundThrough(e, q, find[q]) : q \in BelowNode(m, p)}

Find(m, e, f) == f = [p \in Nodes(m) |-> FoundAt(m, e, f, p)]

LEMMA NodeFacts ==
  ASSUME NEW m, NEW depth, Searchable(m, depth)
  PROVE  /\ \A p \in Nodes(m) : p \in Path /\ Len(p) \in Nat /\ Len(p) <= depth
         /\ \A p \in Nodes(m) : \A q \in BelowNode(m, p) :
              q \in m.maps /\ Last(q) \in Keys /\ q = Append(p, Last(q)) /\ Len(q) = Len(p) + 1
         /\ \A q \in m.maps \cup m.lists :
              /\ q \in Path /\ q # << >> /\ Front(q) \in Nodes(m) /\ Last(q) \in Keys
              /\ q = Append(Front(q), Last(q)) /\ Len(q) = Len(Front(q)) + 1
<1>1. m.maps \subseteq Path /\ m.lists \subseteq Path /\ depth \in Nat
  BY DEF Searchable, Maps
<1>2. ASSUME NEW p \in Nodes(m) PROVE p \in Path /\ Len(p) \in Nat /\ Len(p) <= depth
  <2>1. << >> \in Path /\ Len(<< >>) = 0
    BY EmptySeq DEF Path
  <2>2. p \in Path
    BY <1>1, <2>1 DEF Nodes
  <2>3. Len(p) \in Nat
    BY <2>2, LenProperties DEF Path
  <2> QED BY <1>1, <2>1, <2>2, <2>3 DEF Nodes, Searchable
<1>3. ASSUME NEW q \in m.maps \cup m.lists
      PROVE  /\ q \in Path /\ q # << >> /\ Front(q) \in Nodes(m) /\ Last(q) \in Keys
             /\ q = Append(Front(q), Last(q)) /\ Len(q) = Len(Front(q)) + 1
  <2>1. q \in Path /\ q # << >> /\ Front(q) \in Nodes(m)
    BY <1>1 DEF Searchable, WellFormed, Nodes
  <2> QED BY <2>1, FrontLast
<1>4. ASSUME NEW p \in Nodes(m), NEW q \in BelowNode(m, p)
      PROVE  q \in m.maps /\ Last(q) \in Keys /\ q = Append(p, Last(q)) /\ Len(q) = Len(p) + 1
  BY <1>3 DEF BelowNode
<1> QED BY <1>2, <1>3, <1>4

(* The recursion is defined: there is a function that satisfies it, built  *)
(* from the deepest nodes up.                                              *)
LEMMA FindDefined ==
  ASSUME NEW m, NEW depth, Searchable(m, depth), NEW e
  PROVE  \E f : Find(m, e, f)
<1> DEFINE Deep(n, p) == Len(p) + n > depth
           Right(f, n) == \A p \in Nodes(m) : Deep(n, p) => f[p] = FoundAt(m, e, f, p)
           Q == {n \in Nat : \E f : Right(f, n)}
           Next(f) == [p \in Nodes(m) |-> FoundAt(m, e, f, p)]
<1>1. depth \in Nat
  BY DEF Searchable
<1>2. 0 \in Q
  <2>1. \A p \in Nodes(m) : ~Deep(0, p)
    BY <1>1, NodeFacts
  <2>2. Right(<< >>, 0)
    BY <2>1
  <2> QED BY <2>2
<1>3. ASSUME NEW f, NEW n \in Nat, Right(f, n),
             NEW p \in Nodes(m), Deep(n + 1, p)
      PROVE  FoundAt(m, e, f, p) = FoundAt(m, e, Next(f), p)
  <2>1. ASSUME NEW q \in BelowNode(m, p) PROVE f[q] = Next(f)[q]
    <3>1. q \in Nodes(m) /\ Len(q) = Len(p) + 1 /\ Len(p) \in Nat
      BY NodeFacts DEF Nodes
    <3>2. Deep(n, q)
      BY <1>1, <1>3, <3>1
    <3>3. f[q] = FoundAt(m, e, f, q)
      BY <1>3, <3>1, <3>2
    <3> QED BY <3>1, <3>3
  <2> HIDE DEF Next
  <2>2. {FoundThrough(e, q, f[q]) : q \in BelowNode(m, p)}
          = {FoundThrough(e, q, Next(f)[q]) : q \in BelowNode(m, p)}
    BY <2>1
  <2> QED BY <2>2 DEF FoundAt
<1>4. ASSUME NEW f, NEW n \in Nat, Right(f, n)
      PROVE  Right(Next(f), n + 1)
  <2> SUFFICES ASSUME NEW p \in Nodes(m), Deep(n + 1, p)
               PROVE  Next(f)[p] = FoundAt(m, e, Next(f), p)
    OBVIOUS
  <2>1. Next(f)[p] = FoundAt(m, e, f, p)
    OBVIOUS
  <2> HIDE DEF Next, Right, Deep
  <2> QED BY <1>3, <1>4, <2>1
<1>5. \A n \in Nat : n \in Q => n + 1 \in Q
  <2> SUFFICES ASSUME NEW n \in Nat, NEW f, Right(f, n) PROVE n + 1 \in Q
    OBVIOUS
  <2>1. Right(Next(f), n + 1)
    BY <1>4
  <2> HIDE DEF Right, Next
  <2> QED BY <2>1
<1>6. \A n \in Nat : n \in Q
  <2> HIDE DEF Q
  <2> QED BY <1>2, <1>5, NatBySet
<1>7. PICK f : Right(f, depth + 1)
  <2>1. depth + 1 \in Nat
    BY <1>1
  <2> HIDE DEF Q
  <2>2. depth + 1 \in Q
    BY <1>6, <2>1
  <2> USE DEF Q
  <2> QED BY <2>2
<1>8. \A p \in Nodes(m) : Deep(depth + 1, p) /\ Deep(depth + 1 + 1, p)
  BY <1>1, NodeFacts
<1>9. \A p \in Nodes(m) : FoundAt(m, e, f, p) = FoundAt(m, e, Next(f), p)
  <2>1. depth + 1 \in Nat
    BY <1>1
  <2> HIDE DEF Right, Next, Deep
  <2> QED BY <1>3, <1>7, <1>8, <2>1
<1>10. Next(f) = [p \in Nodes(m) |-> FoundAt(m, e, Next(f), p)]
  <2> DEFINE g == Next(f)
  <2>1. g = [p \in Nodes(m) |-> FoundAt(m, e, f, p)]
    OBVIOUS
  <2> HIDE DEF Next, g
  <2>2. \A p \in Nodes(m) : FoundAt(m, e, f, p) = FoundAt(m, e, g, p)
    BY <1>9 DEF g
  <2>3. g = [p \in Nodes(m) |-> FoundAt(m, e, g, p)]
    BY <2>1, <2>2, Zenon
  <2> QED BY <2>3 DEF g
<1> QED BY <1>10 DEF Find

LEMMA FindEquation ==
  ASSUME NEW m, NEW depth, Searchable(m, depth), NEW e
  PROVE  \E f : Find(m, e, f) /\ FindServerMapEntry(m, e) = f[<< >>]
<1> DEFINE f == CHOOSE g : Find(m, e, g)
<1>1. Find(m, e, f)
  <2>1. \E g : Find(m, e, g)
    BY FindDefined
  <2> HIDE DEF Find
  <2> QED BY <2>1
<1>2. FindServerMapEntry(m, e) = f[<< >>]
  BY DEF FindServerMapEntry, Find, FoundAt, FoundThrough, Nodes, BelowNode
<1> QED BY <1>1, <1>2

(* Whatever is found is there, at the end of the path that was returned.   *)
LEMMA FoundIsThere ==
  ASSUME NEW m, NEW depth, Searchable(m, depth), NEW e \in Keys, NEW f, Find(m, e, f)
  PROVE  \A r \in f[<< >>] : r \in m.maps \cup m.lists /\ Last(r) = e
<1> DEFINE There(p, r) == r \in Path /\ r # << >> /\ p \o r \in m.maps \cup m.lists /\ Last(r) = e
           Deep(n, p) == Len(p) + n > depth
           Q == {n \in Nat : \A p \in Nodes(m) : Deep(n, p) => \A r \in f[p] : There(p, r)}
<1>1. depth \in Nat
  BY DEF Searchable
<1>2. 0 \in Q
  <2>1. \A p \in Nodes(m) : ~Deep(0, p)
    BY <1>1, NodeFacts
  <2> QED BY <2>1
<1>3. ASSUME NEW n \in Nat, \A p \in Nodes(m) : Deep(n, p) => \A r \in f[p] : There(p, r),
             NEW p \in Nodes(m), Deep(n + 1, p), NEW r \in f[p]
      PROVE  There(p, r)
  <2>1. f[p] = FoundAt(m, e, f, p)
    BY DEF Find
  <2>2. p \in Path /\ Len(p) \in Nat
    BY NodeFacts
  <2>3. CASE Append(p, e) \in m.lists /\ r = <<e>>
    BY <2>2, <2>3, GoDown
  <2>4. CASE \E q \in BelowNode(m, p) : r \in FoundThrough(e, q, f[q])
    <3>1. PICK q \in BelowNode(m, p) : r \in FoundThrough(e, q, f[q])
      BY <2>4
    <3>2. q \in m.maps /\ q \in Nodes(m) /\ Last(q) \in Keys /\ q = Append(p, Last(q)) /\ Len(q) = Len(p) + 1
      BY NodeFacts DEF Nodes
    <3>3. CASE Last(q) = e
      <4>1. r = <<e>>
        BY <3>1, <3>3 DEF FoundThrough
      <4>2. p \o r = q /\ r \in Path /\ r # << >> /\ Last(r) = e
        BY <2>2, <3>2, <3>3, <4>1, GoDown
      <4> QED BY <3>2, <4>2
    <3>4. CASE Last(q) # e
      <4>1. PICK t \in f[q] : r = <<Last(q)>> \o t
        BY <3>1, <3>4 DEF FoundThrough
      <4>2. Deep(n, q)
        BY <1>1, <1>3, <2>2, <3>2
      <4>3. There(q, t)
        BY <1>3, <3>2, <4>1, <4>2
      <4>4. t \in Path /\ t # << >> /\ q \o t \in m.maps \cup m.lists /\ Last(t) = e
        BY <4>3
      <4>5. /\ r \in Path /\ r # << >> /\ Last(r) = Last(t)
            /\ p \o r = Append(p, Last(q)) \o t
        BY <2>2, <3>2, <4>1, <4>4, GoDown
      <4>6. p \o r = q \o t
        BY <3>2, <4>5
      <4> QED BY <4>4, <4>5, <4>6
    <3> QED BY <3>3, <3>4
  <2> QED BY <2>1, <2>3, <2>4 DEF FoundAt
<1>4. \A n \in Nat : n \in Q => n + 1 \in Q
  <2> HIDE DEF There, Deep
  <2> QED BY <1>3
<1>5. depth + 1 \in Q
  <2> HIDE DEF Q
  <2> QED BY <1>1, <1>2, <1>4, NatBySet
<1>6. << >> \in Nodes(m) /\ Deep(depth + 1, << >>)
  <2>1. << >> \in Nodes(m)
    BY DEF Nodes
  <2> QED BY <1>1, <2>1, NodeFacts
<1>7. \A r \in f[<< >>] : There(<< >>, r)
  <2> HIDE DEF There, Deep
  <2> QED BY <1>5, <1>6
<1>8. \A r \in Path : << >> \o r = r
  BY ConcatEmptySeq DEF Path
<1> QED BY <1>7, <1>8

(* An entry or an element with the key e is found from its parent, then    *)
(* from every node above it.                                               *)
LEMMA ThereIsFound ==
  ASSUME NEW m, NEW depth, Searchable(m, depth), NEW e, NEW f, Find(m, e, f),
         NEW q \in m.maps \cup m.lists, Last(q) = e
  PROVE  f[<< >>] # {}
<1>1. \A p \in Nodes(m) : f[p] = FoundAt(m, e, f, p)
  BY DEF Find
<1>2. ASSUME NEW c \in m.maps, Last(c) = e \/ f[c] # {}
      PROVE  f[Front(c)] # {}
  <2>1. Front(c) \in Nodes(m) /\ c \in BelowNode(m, Front(c))
    BY NodeFacts DEF BelowNode
  <2>2. FoundThrough(e, c, f[c]) # {}
    BY <1>2 DEF FoundThrough
  <2>3. f[Front(c)] = FoundAt(m, e, f, Front(c))
    BY <1>1, <2>1
  <2>4. CASE Append(Front(c), e) \in m.lists
    BY <2>3, <2>4 DEF FoundAt
  <2>5. CASE Append(Front(c), e) \notin m.lists
    <3>1. f[Front(c)] = UNION {FoundThrough(e, b, f[b]) : b \in BelowNode(m, Front(c))}
      BY <2>3, <2>5 DEF FoundAt
    <3> QED BY <2>1, <2>2, <3>1
  <2> QED BY <2>4, <2>5
<1>3. f[Front(q)] # {} /\ Front(q) \in Nodes(m)
  <2>1. Front(q) \in Nodes(m) /\ q = Append(Front(q), e)
    BY NodeFacts
  <2>2. CASE q \in m.lists
    BY <1>1, <2>1, <2>2 DEF FoundAt
  <2>3. CASE q \in m.maps
    BY <1>2, <2>1, <2>3
  <2> QED BY <2>1, <2>2, <2>3
<1> DEFINE S == {Len(p) : p \in {c \in Nodes(m) : f[c] # {}}}
<1>4. S \subseteq Nat /\ S # {}
  <2>1. \A c \in Nodes(m) : Len(c) \in Nat
    BY NodeFacts
  <2> QED BY <1>3, <2>1
<1>5. PICK n \in S : \A k \in S : n <= k
  <2> HIDE DEF S
  <2> QED BY <1>4, Smallest
<1>6. PICK p \in Nodes(m) : f[p] # {} /\ Len(p) = n
  BY <1>5
<1>7. CASE p = << >>
  BY <1>6, <1>7
<1>8. CASE p # << >>
  <2>1. p \in m.maps
    BY <1>8 DEF Nodes
  <2>2. f[Front(p)] # {} /\ Front(p) \in Nodes(m) /\ Len(p) = Len(Front(p)) + 1
    BY <1>2, <1>6, <2>1, NodeFacts
  <2>3. Len(Front(p)) \in S /\ Len(Front(p)) \in Nat
    BY <2>2, NodeFacts
  <2>4. n <= Len(Front(p))
    BY <1>5, <2>3
  <2> QED BY <1>6, <2>2, <2>3, <2>4
<1> QED BY <1>7, <1>8

(* So FindServerMapEntry finds what is in the map and nothing else.        *)
LEMMA Search ==
  ASSUME NEW m, NEW depth, Searchable(m, depth), NEW e \in Keys
  PROVE  /\ FindServerMapEntry(m, e) # {} <=> \E q \in m.maps \cup m.lists : Last(q) = e
         /\ \A r \in FindServerMapEntry(m, e) : r \in m.maps \cup m.lists /\ Last(r) = e
<1>1. PICK f : Find(m, e, f) /\ FindServerMapEntry(m, e) = f[<< >>]
  BY FindEquation
<1>2. \A r \in f[<< >>] : r \in m.maps \cup m.lists /\ Last(r) = e
  BY <1>1, FoundIsThere
<1>3. \A q \in m.maps \cup m.lists : Last(q) = e => f[<< >>] # {}
  BY <1>1, ThereIsFound
<1> QED BY <1>1, <1>2, <1>3

-----------------------------------------------------------------------------
(* Where the maps have entries.                                            *)
SInv == IInv /\ PlacesInv

LEMMA SamePlaces ==
  ASSUME konf' = konf
  PROVE  /\ \A v : LastKeys(v)' = LastKeys(v) /\ KeyPlaces(v)' = KeyPlaces(v)
         /\ \A v, p : List(v, p)' = List(v, p) /\ Hosts(v, p)' = Hosts(v, p)
         /\ \A v, p : ToSet(List(v, p))' = ToSet(List(v, p))
         /\ \A v, q : MapPlace(v, q)' <=> MapPlace(v, q)
         /\ \A v, q : ListPlace(v, q)' <=> ListPlace(v, q)
<1>1. /\ \A v : LastKeys(v)' = LastKeys(v) /\ InnerKeys(v)' = InnerKeys(v)
      /\ \A v, p : List(v, p)' = List(v, p)
  BY SameKonf
<1>2. \A v, p : ToSet(List(v, p))' = ToSet(List(v, p))
  BY <1>1 DEF ToSet
<1>3. \A v, p : Hosts(v, p)' = Hosts(v, p)
  BY <1>2 DEF Hosts
<1>4. \A v : KeyPlaces(v)' = KeyPlaces(v)
  BY <1>1 DEF KeyPlaces
<1>5. \A v, q : MapPlace(v, q)' <=> MapPlace(v, q)
  BY <1>1, <1>3, <1>4 DEF MapPlace
<1>6. \A v, q : ListPlace(v, q)' <=> ListPlace(v, q)
  BY <1>1, <1>2, <1>3 DEF ListPlace
<1> QED BY <1>1, <1>2, <1>3, <1>4, <1>5, <1>6

LEMMA InnerKeysNotEmpty ==
  ASSUME konf \in Konfs, NEW v \in konf.vendors, NEW q \in InnerKeys(v)
  PROVE  q # << >> /\ Len(q) \in Nat /\ Len(q) <= Levels(v)
<1>1. Levels(v) \in Nat
  BY KonfKeys
<1>2. PICK n \in 1 .. Levels(v) - 1 : q \in KeyPaths(v, n)
  BY DEF InnerKeys
<1>3. n \in Nat /\ n # 0 /\ n <= Levels(v)
  BY <1>1, <1>2
<1> QED BY <1>2, <1>3, ReachedKeys

LEMMA InitPlaces == LoaderInit => PlacesInv
BY DEF LoaderInit, PlacesInv, JobPlaces, BuiltPlaces, PublishedPlaces, MenuKept, Loaded

(* Steps that leave what is published, and who waits for it, alone.        *)
LEMMA PublishedPlacesKept ==
  ASSUME PublishedPlaces, UNCHANGED <<konf, vendors>>
  PROVE  PublishedPlaces'
<1>1. /\ \A v : KeyPlaces(v)' = KeyPlaces(v)
      /\ \A v, q : MapPlace(v, q)' <=> MapPlace(v, q)
      /\ \A v, q : ListPlace(v, q)' <=> ListPlace(v, q)
  BY SamePlaces
<1>2. ASSUME Loaded, NEW v \in konf.vendors
      PROVE  /\ KeyPlaces(v)' \subseteq vendors'[v].maps
             /\ \A q \in vendors'[v].maps : MapPlace(v, q)'
             /\ \A q \in vendors'[v].lists : ListPlace(v, q)'
  BY <1>1, <1>2 DEF PublishedPlaces, InPlace
<1> QED BY <1>2 DEF PublishedPlaces, InPlace, Loaded

LEMMA MenuStaysKept ==
  ASSUME MenuKept, UNCHANGED <<konf, vendors, lpc, menu>>
  PROVE  MenuKept'
BY DEF MenuKept, Loaded, Links

LEMMA BuiltPlacesKept ==
  ASSUME BuiltPlaces, UNCHANGED <<konf, vcmap, lpc>>,
         \A v \in konf.vendors : \A p \in LastKeys(v) : Ended(v, p)' <=> Ended(v, p)
  PROVE  BuiltPlaces'
<1>1. /\ \A v : LastKeys(v)' = LastKeys(v)
      /\ \A v, q : MapPlace(v, q)' <=> MapPlace(v, q)
      /\ \A v, q : ListPlace(v, q)' <=> ListPlace(v, q)
  BY SamePlaces
<1>2. ASSUME lpc = "load", NEW v \in konf.vendors
      PROVE  /\ \A q \in vcmap'[v].maps : MapPlace(v, q)'
             /\ \A q \in vcmap'[v].lists : ListPlace(v, q)'
             /\ \A p \in LastKeys(v)' \ {<< >>} : Ended(v, p)' => p \in vcmap'[v].maps
  BY <1>1, <1>2 DEF BuiltPlaces, InPlace
<1> QED BY <1>2 DEF BuiltPlaces, InPlace

-----------------------------------------------------------------------------
(* A call that ends.                                                       *)
LEMMA AttachPlaces ==
  ASSUME IInv, PlacesInv, lpc = "load", UNCHANGED <<konf, lpc>>,
         NEW v \in konf.vendors, NEW p \in LastKeys(v),
         NEW maps, NEW lists, NEW links,
         Attach(v, p, maps, lists, links),
         \A q \in maps : MapPlace(v, q),
         \A q \in lists : ListPlace(v, q),
         \A w \in konf.vendors : \A q \in LastKeys(w) :
           Ended(w, q)' <=> Ended(w, q) \/ (w = v /\ q = p)
  PROVE  BuiltPlaces'
<1> DEFINE key == {p} \ {<< >>}
           old == vcmap[v]
           new == [maps  |-> old.maps \cup key \cup maps,
                   lists |-> old.lists \cup lists,
                   links |-> old.links \cup (key \cap links)]
<1>1. vcmap \in [konf.vendors -> Maps] /\ BuiltPlaces
  BY DEF IInv, TypeInv, Filled, PlacesInv
<1>2. vcmap' = [vcmap EXCEPT ![v] = new]
  BY DEF Attach
<1>3. \A w \in konf.vendors : vcmap'[w] = IF w = v THEN new ELSE vcmap[w]
  BY <1>1, <1>2
<1>4. /\ \A w : LastKeys(w)' = LastKeys(w)
      /\ \A w, q : MapPlace(w, q)' <=> MapPlace(w, q)
      /\ \A w, q : ListPlace(w, q)' <=> ListPlace(w, q)
  BY SamePlaces
<1>5. \A q \in key : MapPlace(v, q)
  BY DEF MapPlace, KeyPlaces
<1>6. ASSUME NEW w \in konf.vendors
      PROVE  /\ \A q \in vcmap'[w].maps : MapPlace(w, q)
             /\ \A q \in vcmap'[w].lists : ListPlace(w, q)
             /\ \A q \in LastKeys(w) \ {<< >>} : Ended(w, q)' => q \in vcmap'[w].maps
  <2>1. /\ \A q \in vcmap[w].maps : MapPlace(w, q)
        /\ \A q \in vcmap[w].lists : ListPlace(w, q)
        /\ \A q \in LastKeys(w) \ {<< >>} : Ended(w, q) => q \in vcmap[w].maps
    BY <1>1 DEF BuiltPlaces, InPlace
  <2>2. CASE w = v
    <3>1. new.maps = old.maps \cup key \cup maps /\ new.lists = old.lists \cup lists
      OBVIOUS
    <3>2. \A q \in LastKeys(w) \ {<< >>} : Ended(w, q)' => q \in new.maps
      BY <2>1, <2>2, <3>1
    <3> HIDE DEF key, old, new
    <3> QED BY <1>3, <1>5, <2>1, <2>2, <3>1, <3>2 DEF old
  <2>3. CASE w # v
    <3> HIDE DEF key, old, new
    <3> QED BY <1>3, <2>1, <2>3
  <2> QED BY <2>2, <2>3
<1>7. \A w \in konf'.vendors :
        /\ \A q \in vcmap'[w].maps : MapPlace(w, q)'
        /\ \A q \in vcmap'[w].lists : ListPlace(w, q)'
        /\ \A q \in LastKeys(w)' \ {<< >>} : Ended(w, q)' => q \in vcmap'[w].maps
  BY <1>4, <1>6
<1> QED BY <1>7 DEF BuiltPlaces, InPlace

LEMMA LoadPlainPlaces ==
  ASSUME NEW c \in todo, SInv, LoadPlain(c.v, c.p) PROVE PlacesInv'
<1> DEFINE v == c.v
           p == c.p
           call == [v |-> v, p |-> p]
           lists == Elements(v, p)
<1>1. IInv /\ PlacesInv /\ TypeInv /\ lpc = "load" /\ v \in konf.vendors /\ p \in LastKeys(v)
  BY DEF SInv, IInv, TypeInv, LoaderInv
<1>2. /\ job = Nil /\ call \in todo /\ ~konf.resolve[v] /\ Attach(v, p, {}, lists, {})
      /\ todo' = todo \ {call} /\ UNCHANGED <<konf, vendors, lpc, job, menu>>
  BY DEF LoadPlain
<1>3. \A q \in lists : ListPlace(v, q)
  BY <1>1, <1>2 DEF Elements, ListPlace, Hosts
<1>4. \A w \in konf.vendors : \A q \in LastKeys(w) : Ended(w, q)' <=> Ended(w, q) \/ (w = v /\ q = p)
  <2> SUFFICES ASSUME NEW w \in konf.vendors, NEW q \in LastKeys(w)
               PROVE  Ended(w, q)' <=> Ended(w, q) \/ (w = v /\ q = p)
    OBVIOUS
  <2>1. [v |-> w, p |-> q] = call <=> w = v /\ q = p
    OBVIOUS
  <2>2. LastKeys(w)' = LastKeys(w)
    BY <1>2, SameKonf
  <2> QED BY <1>2, <2>1, <2>2 DEF Ended
<1>5. BuiltPlaces'
  <2> HIDE DEF v, p, lists
  <2> QED BY <1>1, <1>2, <1>3, <1>4, AttachPlaces
<1>6. JobPlaces'
  BY <1>2 DEF JobPlaces
<1> QED BY <1>1, <1>2, <1>5, <1>6, PublishedPlacesKept, MenuStaysKept DEF PlacesInv

LEMMA EndResolvePlaces ==
  ASSUME SInv, EndResolve PROVE PlacesInv'
<1> DEFINE v == job.v
           p == job.p
<1>1. /\ job # Nil /\ Attach(v, p, job.maps, job.lists, {p})
      /\ job' = Nil /\ UNCHANGED <<konf, vendors, lpc, todo, menu>>
  BY DEF EndResolve
<1>2. IInv /\ PlacesInv
  BY DEF SInv
<1>3. JobInv /\ lpc = "load" /\ v \in konf.vendors /\ p \in LastKeys(v)
  BY <1>1, <1>2, JobFacts DEF IInv
<1>4. (\A q \in job.maps : MapPlace(v, q)) /\ (\A q \in job.lists : ListPlace(v, q))
  BY <1>1, <1>2 DEF PlacesInv, JobPlaces, InPlace
<1>5. \A w \in konf.vendors : \A q \in LastKeys(w) : Ended(w, q)' <=> Ended(w, q) \/ (w = v /\ q = p)
  <2>1. \A w : LastKeys(w)' = LastKeys(w)
    BY <1>1, SameKonf
  <2>2. [v |-> v, p |-> p] \notin todo
    BY <1>3 DEF JobInv
  <2> QED BY <1>1, <2>1, <2>2 DEF Ended
<1>6. BuiltPlaces'
  <2> HIDE DEF v, p
  <2> QED BY <1>1, <1>2, <1>3, <1>4, <1>5, AttachPlaces
<1>7. JobPlaces'
  BY <1>1 DEF JobPlaces
<1> QED BY <1>1, <1>2, <1>6, <1>7, PublishedPlacesKept, MenuStaysKept DEF PlacesInv

-----------------------------------------------------------------------------
(* A call in progress.                                                     *)
LEMMA JobPlacesStep ==
  ASSUME SInv, UNCHANGED <<konf, vendors, vcmap, lpc, todo, menu>>,
         job # Nil, job' # Nil, job'.v = job.v, job'.p = job.p,
         \A q \in job'.maps : MapPlace(job.v, q),
         \A q \in job'.lists : ListPlace(job.v, q),
         ToSet(job'.rest) \subseteq ToSet(List(job.v, job.p))
  PROVE  PlacesInv'
<1>1. PlacesInv
  BY DEF SInv
<1>2. /\ \A v : LastKeys(v)' = LastKeys(v)
      /\ \A v, q : ToSet(List(v, q))' = ToSet(List(v, q))
      /\ \A v, q : MapPlace(v, q)' <=> MapPlace(v, q)
      /\ \A v, q : ListPlace(v, q)' <=> ListPlace(v, q)
  BY SamePlaces
<1>3. \A v, q : Ended(v, q)' <=> Ended(v, q)
  BY <1>2 DEF Ended
<1>4. BuiltPlaces'
  BY <1>1, <1>3, BuiltPlacesKept DEF PlacesInv
<1>5. JobPlaces'
  <2>1. /\ \A q \in job'.maps : MapPlace(job.v, q)'
        /\ \A q \in job'.lists : ListPlace(job.v, q)'
    BY <1>2
  <2>2. ToSet(job'.rest) \subseteq ToSet(List(job.v, job.p))'
    BY <1>2
  <2> QED BY <2>1, <2>2 DEF JobPlaces, InPlace, ToSet
<1> QED BY <1>1, <1>4, <1>5, PublishedPlacesKept, MenuStaysKept DEF PlacesInv

LEMMA AddAddressPlaces ==
  ASSUME SInv, AddAddress PROVE PlacesInv'
<1> DEFINE v == job.v
           p == job.p
           s0 == Head(job.rest)
<1>1. job # Nil /\ job.rest # << >> /\ s0 \notin DOMAIN Answers
  BY DEF AddAddress, Resolving, Server
<1>2. /\ job = [v |-> v, p |-> p, rest |-> job.rest, maps |-> job.maps, lists |-> job.lists]
      /\ p \in LastKeys(v) /\ job.rest \in Path
  BY <1>1, JobFacts DEF SInv, IInv
<1>3. InPlace(v, job) /\ ToSet(job.rest) \subseteq ToSet(List(v, p))
  BY <1>1 DEF SInv, PlacesInv, JobPlaces
<1>4. ToSet(job.rest) = {s0} \cup ToSet(Tail(job.rest))
  BY <1>1, <1>2, HeadOrTail
<1>5. job' = [v |-> v, p |-> p, rest |-> Tail(job.rest), maps |-> job.maps,
              lists |-> job.lists \cup {Append(p, s0)}]
  BY <1>2 DEF AddAddress, Server
<1>6. ListPlace(v, Append(p, s0))
  BY <1>1, <1>2, <1>3, <1>4 DEF ListPlace, Hosts
<1>7. job' # Nil
  <2>1. job' \in Jobs
    BY AddAddressInv DEF SInv
  <2> QED BY <2>1, NilAssumption
<1>8. UNCHANGED <<konf, vendors, vcmap, lpc, todo, menu>>
  BY DEF AddAddress
<1> QED BY <1>1, <1>3, <1>4, <1>5, <1>6, <1>7, <1>8, JobPlacesStep DEF InPlace

LEMMA LookupPlaces ==
  ASSUME SInv, Lookup PROVE PlacesInv'
<1> DEFINE v == job.v
           p == job.p
           s0 == Head(job.rest)
           host == Append(p, s0)
<1>1. job # Nil /\ job.rest # << >> /\ s0 \in DOMAIN Answers
  BY DEF Lookup, Resolving, Server
<1>2. /\ job = [v |-> v, p |-> p, rest |-> job.rest, maps |-> job.maps, lists |-> job.lists]
      /\ p \in LastKeys(v) /\ job.rest \in Path /\ konf.resolve[v]
  BY <1>1, JobFacts DEF SInv, IInv, JobInv
<1>3. InPlace(v, job) /\ ToSet(job.rest) \subseteq ToSet(List(v, p))
  BY <1>1 DEF SInv, PlacesInv, JobPlaces
<1>4. ToSet(job.rest) = {s0} \cup ToSet(Tail(job.rest))
  BY <1>1, <1>2, HeadOrTail
<1>5. s0 \in Hosts(v, p)
  BY <1>1, <1>2, <1>3, <1>4 DEF Hosts
<1>6. job' # Nil
  <2>1. job' \in Jobs
    BY LookupInv DEF SInv
  <2> QED BY <2>1, NilAssumption
<1>7. UNCHANGED <<konf, vendors, vcmap, lpc, todo, menu>>
  BY DEF Lookup
<1>8. PICK addrs \in Answers[s0] :
        \/ addrs = {} /\ job' = [job EXCEPT !.rest = Tail(@)]
        \/ addrs # {} /\ AddHost(addrs)
  BY DEF Lookup, Server
<1>9. CASE job' = [job EXCEPT !.rest = Tail(@)]
  <2>1. job' = [v |-> v, p |-> p, rest |-> Tail(job.rest), maps |-> job.maps, lists |-> job.lists]
    BY <1>2, <1>9
  <2> QED BY <1>1, <1>3, <1>4, <1>6, <1>7, <2>1, JobPlacesStep DEF InPlace
<1>10. CASE AddHost(addrs)
  <2>1. job' = [v |-> v, p |-> p, rest |-> Tail(job.rest), maps |-> job.maps \cup {host},
                lists |-> WithHost(job.lists, host, addrs)]
    BY <1>2, <1>10 DEF AddHost, Server, WithHost
  <2>2. MapPlace(v, host)
    BY <1>2, <1>5 DEF MapPlace
  <2>3. \A a \in addrs : ListPlace(v, Append(host, a))
    BY <1>2, <1>5, <1>8 DEF ListPlace
  <2>4. \A q \in WithHost(job.lists, host, addrs) : ListPlace(v, q)
    BY <1>3, <2>3 DEF WithHost, InPlace
  <2>5. \A q \in job.maps \cup {host} : MapPlace(v, q)
    BY <1>3, <2>2 DEF InPlace
  <2> QED BY <1>1, <1>4, <1>3, <1>6, <1>7, <2>1, <2>4, <2>5, JobPlacesStep
<1> QED BY <1>8, <1>9, <1>10

LEMMA BeginResolvePlaces ==
  ASSUME NEW c \in todo, SInv, BeginResolve(c.v, c.p) PROVE PlacesInv'
<1> DEFINE v == c.v
           p == c.p
           call == [v |-> v, p |-> p]
<1>1. PlacesInv /\ v \in konf.vendors /\ p \in LastKeys(v) /\ konf \in Konfs
  BY DEF SInv, IInv, TypeInv
<1>2. /\ job = Nil /\ call \in todo
      /\ job' = [v |-> v, p |-> p, rest |-> List(v, p), maps |-> {}, lists |-> {}]
      /\ todo' = todo \ {call} /\ UNCHANGED <<konf, vendors, vcmap, lpc, menu>>
  BY DEF BeginResolve
<1>3. job' # Nil
  <2>1. p \in Path /\ List(v, p) \in Path
    BY <1>1, LastKeyPaths
  <2>2. job' \in Jobs
    BY <1>1, <1>2, <2>1 DEF Jobs
  <2> QED BY <2>2, NilAssumption
<1>4. \A w \in konf.vendors : \A q \in LastKeys(w) : Ended(w, q)' <=> Ended(w, q)
  <2> SUFFICES ASSUME NEW w \in konf.vendors, NEW q \in LastKeys(w) PROVE Ended(w, q)' <=> Ended(w, q)
    OBVIOUS
  <2>1. [v |-> w, p |-> q] = call <=> w = v /\ q = p
    OBVIOUS
  <2>2. LastKeys(w)' = LastKeys(w)
    BY <1>2, SameKonf
  <2> QED BY <1>2, <1>3, <2>1, <2>2 DEF Ended
<1>5. BuiltPlaces'
  BY <1>1, <1>2, <1>4, BuiltPlacesKept DEF PlacesInv
<1>6. JobPlaces'
  <2>1. ToSet(List(v, p))' = ToSet(List(v, p))
    BY <1>2, SamePlaces
  <2> QED BY <1>2, <2>1 DEF JobPlaces, InPlace
<1> QED BY <1>1, <1>2, <1>5, <1>6, PublishedPlacesKept, MenuStaysKept DEF PlacesInv

-----------------------------------------------------------------------------
(* The other steps.                                                        *)
LEMMA BeginLoadPlaces ==
  ASSUME SInv, BeginLoad PROVE PlacesInv'
<1>1. PlacesInv /\ konf \in Konfs /\ todo = {} /\ job = Nil /\ lpc = "begin"
  BY DEF SInv, IInv, TypeInv, LoaderInv, BeginLoad
<1>2. /\ vcmap' = [v \in konf.vendors |-> [EmptyMap EXCEPT !.maps = InnerKeys(v)]]
      /\ todo' = UNION {{[v |-> v, p |-> p] : p \in LastKeys(v)} : v \in konf.vendors}
      /\ lpc' = "load" /\ UNCHANGED <<konf, vendors, job, menu>>
  BY DEF BeginLoad
<1>3. ASSUME NEW v \in konf.vendors
      PROVE  /\ vcmap'[v].maps = InnerKeys(v) /\ vcmap'[v].lists = {}
             /\ \A q \in InnerKeys(v) : MapPlace(v, q)
             /\ \A p \in LastKeys(v) : ~Ended(v, p)'
  <2>1. vcmap'[v].maps = InnerKeys(v) /\ vcmap'[v].lists = {}
    <3> DEFINE keys == InnerKeys(v)
    <3>1. vcmap'[v] = [EmptyMap EXCEPT !.maps = keys]
      BY <1>2
    <3> HIDE DEF keys
    <3>2. vcmap'[v].maps = keys /\ vcmap'[v].lists = {}
      BY <3>1 DEF EmptyMap
    <3> QED BY <3>2 DEF keys
  <2>2. ASSUME NEW q \in InnerKeys(v) PROVE MapPlace(v, q)
    <3>1. q # << >>
      BY <1>1, InnerKeysNotEmpty
    <3> QED BY <3>1 DEF MapPlace, KeyPlaces
  <2>3. ASSUME NEW p \in LastKeys(v) PROVE [v |-> v, p |-> p] \in todo'
    <3> DEFINE calls(w) == {[v |-> w, p |-> q] : q \in LastKeys(w)}
    <3>1. [v |-> v, p |-> p] \in calls(v)
      OBVIOUS
    <3>2. todo' = UNION {calls(w) : w \in konf.vendors}
      BY <1>2
    <3> HIDE DEF calls
    <3> QED BY <3>1, <3>2, Zenon
  <2> QED BY <2>1, <2>2, <2>3 DEF Ended
<1>4. BuiltPlaces'
  <2>1. /\ \A v : LastKeys(v)' = LastKeys(v)
        /\ \A v, q : MapPlace(v, q)' <=> MapPlace(v, q)
    BY <1>2, SamePlaces
  <2>2. \A v \in konf'.vendors :
          /\ \A q \in vcmap'[v].maps : MapPlace(v, q)'
          /\ \A q \in vcmap'[v].lists : ListPlace(v, q)'
          /\ \A p \in LastKeys(v)' \ {<< >>} : Ended(v, p)' => p \in vcmap'[v].maps
    BY <1>2, <1>3, <2>1
  <2> QED BY <2>2 DEF BuiltPlaces, InPlace
<1>5. JobPlaces'
  BY <1>1, <1>2 DEF JobPlaces
<1>6. PublishedPlaces'
  BY <1>1, <1>2, PublishedPlacesKept DEF PlacesInv
<1>7. MenuKept'
  BY <1>1, <1>2 DEF PlacesInv, MenuKept, Loaded
<1> QED BY <1>4, <1>5, <1>6, <1>7 DEF PlacesInv

LEMMA PublishPlaces ==
  ASSUME SInv, Publish PROVE PlacesInv'
<1>1. /\ lpc = "load" /\ todo = {} /\ job = Nil /\ vendors' = vcmap
      /\ lpc' = IF konf.refresh >= 5 THEN "sleep" ELSE "ended"
      /\ UNCHANGED <<konf, vcmap, todo, job, menu>>
  BY DEF Publish
<1>2. PlacesInv /\ LoaderInv /\ konf \in Konfs /\ konf.refresh \in Int
  BY KonfAssumption DEF SInv, IInv, TypeInv
<1>3. BuiltPlaces' /\ JobPlaces'
  BY <1>1 DEF BuiltPlaces, JobPlaces
<1>4. ASSUME NEW v \in konf.vendors
      PROVE  InPlace(v, vcmap[v]) /\ KeyPlaces(v) \subseteq vcmap[v].maps
  <2>1. \A p \in LastKeys(v) : Ended(v, p)
    BY <1>1 DEF Ended
  <2>2. InnerKeys(v) \subseteq vcmap[v].maps
    BY <1>1, <1>2 DEF LoaderInv, MapInv
  <2>3. InPlace(v, vcmap[v]) /\ \A p \in LastKeys(v) \ {<< >>} : p \in vcmap[v].maps
    BY <1>1, <1>2, <2>1 DEF PlacesInv, BuiltPlaces
  <2> QED BY <2>2, <2>3 DEF KeyPlaces
<1>5. PublishedPlaces'
  <2>1. /\ \A v : KeyPlaces(v)' = KeyPlaces(v)
        /\ \A v, q : MapPlace(v, q)' <=> MapPlace(v, q)
        /\ \A v, q : ListPlace(v, q)' <=> ListPlace(v, q)
    BY <1>1, SamePlaces
  <2>2. ASSUME NEW v \in konf.vendors
        PROVE  /\ KeyPlaces(v)' \subseteq vendors'[v].maps
               /\ \A q \in vendors'[v].maps : MapPlace(v, q)'
               /\ \A q \in vendors'[v].lists : ListPlace(v, q)'
    BY <1>1, <1>4, <2>1 DEF InPlace
  <2> QED BY <1>1, <2>2 DEF PublishedPlaces, InPlace
<1>6. MenuKept'
  BY <1>1, <1>2 DEF PlacesInv, MenuKept, Loaded
<1> QED BY <1>3, <1>5, <1>6 DEF PlacesInv

LEMMA WakePlaces ==
  ASSUME SInv, Wake PROVE PlacesInv'
<1>1. lpc = "sleep" /\ lpc' = "begin" /\ UNCHANGED <<konf, vendors, vcmap, todo, job, menu>>
  BY DEF Wake
<1>2. PlacesInv /\ job = Nil
  BY <1>1 DEF SInv, IInv, LoaderInv
<1>3. BuiltPlaces' /\ JobPlaces'
  BY <1>1, <1>2 DEF BuiltPlaces, JobPlaces
<1>4. MenuKept'
  BY <1>1, <1>2 DEF PlacesInv, MenuKept, Loaded
<1> QED BY <1>1, <1>2, <1>3, <1>4, PublishedPlacesKept DEF PlacesInv

(* A menu is rendered, or nothing happens.                                 *)
LEMMA ReaderPlaces ==
  ASSUME SInv, UNCHANGED <<konf, loader>>, MenuKept'
  PROVE  PlacesInv'
<1>1. UNCHANGED <<konf, vendors, vcmap, lpc, todo, job>> /\ PlacesInv
  BY DEF loader, SInv
<1>2. /\ \A v, q : MapPlace(v, q)' <=> MapPlace(v, q)
      /\ \A v, q : ListPlace(v, q)' <=> ListPlace(v, q)
      /\ \A v, q : ToSet(List(v, q))' = ToSet(List(v, q))
      /\ \A v : LastKeys(v)' = LastKeys(v)
  BY <1>1, SamePlaces
<1>3. \A v, q : Ended(v, q)' <=> Ended(v, q)
  BY <1>1, <1>2 DEF Ended
<1>4. BuiltPlaces'
  BY <1>1, <1>3, BuiltPlacesKept DEF PlacesInv
<1>5. JobPlaces'
  <2>1. ASSUME job # Nil
        PROVE  /\ \A q \in job.maps : MapPlace(job.v, q)'
               /\ \A q \in job.lists : ListPlace(job.v, q)'
               /\ ToSet(job.rest) \subseteq ToSet(List(job.v, job.p))'
    BY <1>1, <1>2, <2>1 DEF PlacesInv, JobPlaces, InPlace
  <2> QED BY <1>1, <2>1 DEF JobPlaces, InPlace, ToSet
<1> QED BY <1>1, <1>4, <1>5, PublishedPlacesKept DEF PlacesInv

LEMMA RenderMenuPlaces ==
  ASSUME SInv, RenderMenu PROVE PlacesInv'
<1>1. UNCHANGED <<konf, loader>> /\ UNCHANGED <<konf, vendors, lpc>>
  BY DEF RenderMenu, loader
<1>2. \A link \in menu' : Loaded /\ link.e \in Links(vendors[link.v])
  BY DEF RenderMenu, Loaded
<1>3. MenuKept'
  BY <1>1, <1>2 DEF SInv, PlacesInv, MenuKept, Loaded, Links
<1> QED BY <1>1, <1>3, ReaderPlaces

LEMMA NextPlaces == SInv /\ [LoaderNext]_loaderVars => PlacesInv'
<1> SUFFICES ASSUME SInv, [LoaderNext]_loaderVars PROVE PlacesInv'
  OBVIOUS
<1>1. CASE LoaderStep
  <2>1. ASSUME NEW c \in todo, LoadPlain(c.v, c.p) \/ BeginResolve(c.v, c.p) PROVE PlacesInv'
    BY <2>1, LoadPlainPlaces, BeginResolvePlaces
  <2> QED BY <1>1, <2>1, BeginLoadPlaces, AddAddressPlaces, LookupPlaces, EndResolvePlaces,
             PublishPlaces, WakePlaces DEF LoaderStep
<1>2. CASE RenderMenu
  BY <1>2, RenderMenuPlaces
<1>3. CASE UNCHANGED loaderVars
  <2>1. UNCHANGED <<konf, loader>> /\ UNCHANGED <<konf, vendors, lpc, menu>>
    BY <1>3 DEF loaderVars, loader
  <2>2. MenuKept'
    BY <2>1, MenuStaysKept DEF SInv, PlacesInv
  <2> QED BY <2>1, <2>2, ReaderPlaces
<1> QED BY <1>1, <1>2, <1>3 DEF LoaderNext

LEMMA AlwaysSInv == LoaderSpec => []SInv
<1>1. LoaderInit => SInv
  BY InitIInv, InitPlaces DEF SInv
<1>2. SInv /\ [LoaderNext]_loaderVars => SInv'
  BY NextIInv, NextPlaces DEF SInv
<1> QED BY <1>1, <1>2, PTL DEF LoaderSpec

(* The maps have entries only where the configuration and the answers of   *)
(* lookups put them, and those of the configuration are all there; a menu  *)
(* is of the maps that are published, when they are loaded only once: the  *)
(* inductive invariant (vendor.go loadServers, buildServerMap; main.go     *)
(* loadVendors, SelectExit).                                               *)
THEOREM PlacesInvariant == LoaderSpec => []PlacesInv
<1>1. SInv => PlacesInv
  BY DEF SInv
<1> QED BY <1>1, AlwaysSInv, PTL

-----------------------------------------------------------------------------
(* Searching what is published.                                            *)
LEMMA PublishedSearchable ==
  ASSUME SInv, Loaded, NEW v \in konf.vendors
  PROVE  Searchable(vendors[v], Levels(v) + 1)
<1> DEFINE m == vendors[v]
<1>1. konf \in Konfs /\ m \in Maps /\ WellFormed(m) /\ Levels(v) \in Nat
  BY KonfKeys DEF SInv, IInv, TypeInv, Filled, Loaded
<1>2. (\A q \in m.maps : MapPlace(v, q)) /\ (\A q \in m.lists : ListPlace(v, q))
  BY DEF SInv, PlacesInv, PublishedPlaces, InPlace
<1>3. ASSUME NEW p \in LastKeys(v), NEW s \in ToSet(List(v, p))
      PROVE  p \in Path /\ Len(p) = Levels(v) /\ s \in Keys /\ Append(p, s) \in Path
  <2>1. p \in Path /\ Len(p) = Levels(v) /\ s \in Keys
    BY <1>1, LastKeyPaths, ElementKeys
  <2> QED BY <2>1, Extended
<1>4. ASSUME NEW p \in Path, NEW s \in Keys
      PROVE  Append(p, s) # << >> /\ Len(Append(p, s)) = Len(p) + 1
  BY Extended
<1>5. ASSUME NEW q \in m.maps PROVE q # << >> /\ Len(q) <= Levels(v) + 1
  <2>1. CASE q \in KeyPlaces(v)
    <3>1. q # << >> /\ q \in InnerKeys(v) \cup LastKeys(v)
      BY <2>1 DEF KeyPlaces
    <3>2. Len(q) \in Nat /\ Len(q) <= Levels(v)
      BY <1>1, <3>1, InnerKeysNotEmpty, LastKeyPaths
    <3> QED BY <1>1, <3>1, <3>2
  <2>2. CASE \E p \in LastKeys(v) : \E s \in Hosts(v, p) : q = Append(p, s)
    <3>1. PICK p \in LastKeys(v) : \E s \in Hosts(v, p) : q = Append(p, s)
      BY <2>2
    <3>2. PICK s \in Hosts(v, p) : q = Append(p, s)
      BY <3>1
    <3>3. s \in ToSet(List(v, p))
      BY DEF Hosts
    <3> QED BY <1>1, <1>3, <1>4, <3>2, <3>3
  <2> QED BY <1>2, <2>1, <2>2 DEF MapPlace
<1>6. ASSUME NEW q \in m.lists PROVE q # << >>
  <2>1. PICK p \in LastKeys(v) :
          \/ \E s \in ToSet(List(v, p)) \ Hosts(v, p) : q = Append(p, s)
          \/ \E s \in Hosts(v, p) : \E a \in UNION Answers[s] : q = Append(Append(p, s), a)
    BY <1>2 DEF ListPlace
  <2>2. CASE \E s \in ToSet(List(v, p)) \ Hosts(v, p) : q = Append(p, s)
    BY <1>3, <1>4, <2>2
  <2>3. CASE \E s \in Hosts(v, p) : \E a \in UNION Answers[s] : q = Append(Append(p, s), a)
    <3>1. PICK s \in Hosts(v, p) : \E a \in UNION Answers[s] : q = Append(Append(p, s), a)
      BY <2>3
    <3>2. PICK a \in UNION Answers[s] : q = Append(Append(p, s), a)
      BY <3>1
    <3>3. s \in ToSet(List(v, p)) /\ s \in DOMAIN Answers
      BY DEF Hosts
    <3>4. a \in Keys
      BY <3>3, AnswersAssumption
    <3> QED BY <1>3, <1>4, <3>2, <3>3, <3>4
  <2> QED BY <2>1, <2>2, <2>3
<1> QED BY <1>1, <1>5, <1>6 DEF Searchable

LEMMA Locate ==
  ASSUME SInv, Loaded, NEW v \in konf.vendors
  PROVE  \A e \in Keys :
           LET found == FindServerMapEntry(vendors[v], e)
               nodes == vendors[v].maps \cup vendors[v].lists
           IN  /\ found # {} <=> \E q \in nodes : Last(q) = e
               /\ \A r \in found : r \in nodes /\ Last(r) = e
BY PublishedSearchable, Search

(* In the vendors that are published, FindServerMapEntry finds a key or a  *)
(* server just if it is there, and what it returns is the path to it, for  *)
(* maps of any size and depth (servermap.go FindServerMapEntry; main.go    *)
(* SelectExit).                                                            *)
THEOREM SearchFindsWhatIsThere == LoaderSpec => []FindsWhatIsThere
<1>1. SInv => FindsWhatIsThere
  <2> SUFFICES ASSUME SInv, Loaded, NEW v \in konf.vendors, NEW e \in konf.names
               PROVE  LET found == FindServerMapEntry(vendors[v], e)
                          nodes == vendors[v].maps \cup vendors[v].lists
                      IN  /\ found # {} <=> \E q \in nodes : Last(q) = e
                          /\ \A r \in found : r \in nodes /\ Last(r) = e
    BY DEF FindsWhatIsThere
  <2>1. e \in Keys
    BY DEF SInv, IInv, TypeInv, Keys
  <2> QED BY <2>1, Locate
<1> QED BY <1>1, AlwaysSInv, PTL

(* When the vendors are loaded once, a menu that has been open for however *)
(* long has no link that SelectExit could not locate (main.go loadVendors, *)
(* SelectExit; servermap.go GenHTML).                                      *)
THEOREM LinksLead == LoaderSpec => []LinksStayValid
<1>1. SInv => LinksStayValid
  <2> SUFFICES ASSUME SInv, konf.refresh < 5, NEW link \in menu
               PROVE  FindServerMapEntry(vendors[link.v], link.e) # {}
    BY DEF LinksStayValid
  <2> DEFINE m == vendors[link.v]
  <2>1. Loaded /\ link.e \in Links(m) /\ link.v \in konf.vendors
    BY DEF SInv, IInv, TypeInv, PlacesInv, MenuKept
  <2>2. PICK q \in m.maps \cup m.lists : link.e = Last(q)
    BY <2>1 DEF Links
  <2>3. Last(q) \in Keys
    BY <2>1, PublishedSearchable, NodeFacts
  <2> HIDE DEF m
  <2>4. FindServerMapEntry(m, link.e) # {} <=> \E r \in m.maps \cup m.lists : Last(r) = link.e
    BY <2>1, <2>2, <2>3, Locate DEF m
  <2> QED BY <2>2, <2>4 DEF m
<1> QED BY <1>1, AlwaysSInv, PTL

-----------------------------------------------------------------------------
(* What can be located.                                                    *)
LEMMA NodeLocated ==
  ASSUME SInv, Loaded, NEW v \in konf.vendors,
         NEW q \in vendors[v].maps \cup vendors[v].lists, Last(q) \in konf.names
  PROVE  Last(q) \in Located(v)
<1>1. Last(q) \in Keys
  BY DEF SInv, IInv, TypeInv, Keys
<1> QED BY <1>1, Locate DEF Located

LEMMA FixedLocated ==
  ASSUME SInv, Loaded, NEW v \in konf.vendors
  PROVE  Fixed(v) \subseteq Located(v)
<1> DEFINE m == vendors[v]
<1>1. /\ konf \in Konfs /\ KeyPlaces(v) \subseteq m.maps
      /\ \A w \in konf.vendors : \A p \in Paths(w) :
           p \in Seq(konf.names) /\ konf.servers[w][p] \in Seq(konf.names)
  BY KonfAssumption DEF SInv, IInv, TypeInv, PlacesInv, PublishedPlaces, Paths
<1>2. ASSUME NEW q \in KeyPlaces(v) PROVE Last(q) \in Located(v)
  <2>1. PICK n \in Nat : q \in KeyPaths(v, n)
    <3>1. Levels(v) \in Nat
      BY <1>1, KonfKeys
    <3> QED BY <3>1 DEF KeyPlaces, InnerKeys, LastKeys
  <2>2. PICK r \in Paths(v) : Len(r) >= n /\ q = SubSeq(r, 1, n)
    BY <2>1 DEF KeyPaths
  <2>3. n <= Len(r) /\ Len(r) \in Nat /\ r \in Seq(konf.names)
    BY <1>1, <2>2, LenProperties
  <2>4. q \in Seq(konf.names) /\ q # << >>
    <3>1. \A i \in 1 .. n : r[i] \in konf.names
      BY <2>3, ElementOfSeq
    <3>2. 1 \in Int /\ n \in Int
      OBVIOUS
    <3>3. SubSeq(r, 1, n) \in Seq(konf.names)
      BY <3>1, <3>2, SubSeqProperties, Zenon
    <3> QED BY <2>2, <3>3 DEF KeyPlaces
  <2>5. Last(q) \in konf.names
    <3>1. Len(q) \in 1 .. Len(q)
      BY <2>4, EmptySeq, LenProperties
    <3> QED BY <2>4, <3>1, ElementOfSeq DEF Last
  <2> QED BY <1>1, <2>5, NodeLocated
<1>3. ASSUME NEW p \in LastKeys(v), NEW s \in ToSet(List(v, p)) \ Hosts(v, p)
      PROVE  s \in Located(v)
  <2>1. p \in Path /\ List(v, p) \in Path
    BY <1>1, LastKeyPaths
  <2>2. s \in Keys /\ s \in konf.names
    <3>1. List(v, p) \in Seq(konf.names)
      BY <1>1, EmptySeq DEF List
    <3>2. s \in konf.names
      BY <3>1, ElementOfSeq, LenProperties DEF ToSet
    <3> QED BY <1>1, <3>2 DEF Keys
  <2>3. Append(p, s) \in Elements(v, p) /\ Last(Append(p, s)) = s
    BY <2>1, <2>2, Extended DEF Elements
  <2>4. ~(konf.resolve[v] /\ s \in DOMAIN Answers)
    BY DEF Hosts
  <2>5. Append(p, s) \in m.lists
    BY <2>3, <2>4 DEF SInv, IInv, OnlyFailedLookupsMissing
  <2> QED BY <2>2, <2>3, <2>5, NodeLocated
<1> QED BY <1>2, <1>3 DEF Fixed

LEMMA LocatedOffered ==
  ASSUME SInv, Loaded, NEW v \in konf.vendors
  PROVE  Located(v) \subseteq Offers(v)
<1> DEFINE m == vendors[v]
<1>1. konf \in Konfs /\ (\A q \in m.maps : MapPlace(v, q)) /\ (\A q \in m.lists : ListPlace(v, q))
  BY DEF SInv, IInv, TypeInv, PlacesInv, PublishedPlaces, InPlace
<1> SUFFICES ASSUME NEW e \in Located(v) PROVE e \in Offers(v)
  OBVIOUS
<1>2. e \in Keys
  BY <1>1 DEF Located, Keys
<1>3. PICK q \in m.maps \cup m.lists : Last(q) = e
  BY <1>2, Locate DEF Located
<1>4. ASSUME NEW p \in LastKeys(v), NEW s \in ToSet(List(v, p))
      PROVE  p \in Path /\ s \in Keys /\ Append(p, s) \in Path /\ Last(Append(p, s)) = s
  <2>1. p \in Path /\ s \in Keys
    BY <1>1, LastKeyPaths, ElementKeys
  <2> QED BY <2>1, Extended
<1>5. CASE q \in KeyPlaces(v)
  BY <1>3, <1>5 DEF Offers, Fixed
<1>6. CASE \E p \in LastKeys(v) : \E s \in Hosts(v, p) : q = Append(p, s)
  <2>1. PICK p \in LastKeys(v) : \E s \in Hosts(v, p) : q = Append(p, s)
    BY <1>6
  <2>2. PICK s \in Hosts(v, p) : q = Append(p, s)
    BY <2>1
  <2>3. e = s
    BY <1>3, <1>4, <2>2 DEF Hosts
  <2> QED BY <2>3 DEF Offers
<1>7. CASE ListPlace(v, q)
  <2>1. PICK p \in LastKeys(v) :
          \/ \E s \in ToSet(List(v, p)) \ Hosts(v, p) : q = Append(p, s)
          \/ \E s \in Hosts(v, p) : \E a \in UNION Answers[s] : q = Append(Append(p, s), a)
    BY <1>7 DEF ListPlace
  <2>2. CASE \E s \in ToSet(List(v, p)) \ Hosts(v, p) : q = Append(p, s)
    BY <1>3, <1>4, <2>2 DEF Offers, Fixed
  <2>3. CASE \E s \in Hosts(v, p) : \E a \in UNION Answers[s] : q = Append(Append(p, s), a)
    <3>1. PICK s \in Hosts(v, p) : \E a \in UNION Answers[s] : q = Append(Append(p, s), a)
      BY <2>3
    <3>2. PICK a \in UNION Answers[s] : q = Append(Append(p, s), a)
      BY <3>1
    <3>3. s \in ToSet(List(v, p)) /\ s \in DOMAIN Answers
      BY DEF Hosts
    <3>4. a \in Keys /\ Append(p, s) \in Path
      BY <1>4, <3>3, AnswersAssumption
    <3>5. e = a
      BY <1>3, <3>2, <3>4, Extended
    <3> QED BY <3>5 DEF Offers
  <2> QED BY <2>1, <2>2, <2>3
<1> QED BY <1>1, <1>3, <1>5, <1>6, <1>7 DEF MapPlace

-----------------------------------------------------------------------------
(* The loader implements VendorCache.                                      *)

-----------------------------------------------------------------------------
(* The loader implements VendorCache.                                      *)
LocatedOK ==
  Loaded =>
    /\ [v \in konf.vendors |-> Located(v)] # Nil
    /\ \A v \in konf.vendors : Fixed(v) \subseteq Located(v) /\ Located(v) \subseteq Offers(v)

LEMMA SearchLocates == SInv => LocatedOK
<1> SUFFICES ASSUME SInv, Loaded
             PROVE  [v \in konf.vendors |-> Located(v)] # Nil
  BY FixedLocated, LocatedOffered DEF LocatedOK
<1>1. konf \in Konfs
  BY DEF SInv, IInv, TypeInv
<1>2. \A v : Located(v) \in SUBSET konf.names
  BY DEF Located
<1>3. [v \in konf.vendors |-> Located(v)] \in [konf.vendors -> SUBSET konf.names]
  BY <1>2
<1> QED BY <1>1, <1>3, NilAssumption

LEMMA PublishLoads ==
  ASSUME SInv, LocatedOK', Publish PROVE Cache!CacheLoad
<1> DEFINE conf == [offers  |-> [v \in konf.vendors |-> Offers(v)],
                    fixed   |-> [v \in konf.vendors |-> Fixed(v)],
                    refresh |-> konf.refresh >= 5]
           located == IF Loaded THEN [v \in konf.vendors |-> Located(v)] ELSE Nil
<1>1. /\ lpc = "load" /\ vendors' = vcmap /\ konf' = konf
      /\ konf \in Konfs /\ konf.refresh \in Int /\ Filled(vcmap)
  BY KonfAssumption DEF Publish, SInv, IInv, TypeInv
<1>2. \A v : Fixed(v)' = Fixed(v) /\ Offers(v)' = Offers(v)
  BY <1>1, SamePlaces DEF Fixed, Offers
<1>3. Loaded'
  BY <1>1, NilAssumption DEF Loaded, Filled
<1>4. conf' = conf
  BY <1>1, <1>2
<1>5. located = Nil \/ konf.refresh >= 5
  BY <1>1 DEF SInv, PlacesInv, MenuKept
<1>6. located' = [v \in konf.vendors |-> Located(v)']
  BY <1>1, <1>3
<1>7. /\ located' # Nil
      /\ \A v \in konf.vendors :
           Fixed(v) \subseteq Located(v)' /\ Located(v)' \subseteq Offers(v)
  BY <1>1, <1>2, <1>3, <1>6 DEF LocatedOK
<1> QED BY <1>4, <1>5, <1>6, <1>7 DEF Cache!CacheLoad

(* All other steps leave the cache alone.                                  *)
LEMMA OtherSteps ==
  ASSUME UNCHANGED <<konf, vendors>>
  PROVE  UNCHANGED Cache!cacheVars
<1>1. \A v : Fixed(v)' = Fixed(v) /\ Offers(v)' = Offers(v)
  BY SamePlaces DEF Fixed, Offers
<1>2. \A v : Located(v)' = Located(v)
  BY DEF Located, FindServerMapEntry
<1> QED BY <1>1, <1>2 DEF Loaded, Cache!cacheVars

(* The readers of GS.Vendors see one complete set of vendors after the     *)
(* other, whatever the loader does in between, only what needs a lookup    *)
(* may come and go, and below five minutes nothing changes any more: the   *)
(* loader implements VendorCache (main.go loadVendors; vendor.go).         *)
THEOREM LoaderImplementsCache == LoaderSpec => CacheSpec
<1>1. LoaderInit => Cache!CacheInit
  BY DEF LoaderInit, Cache!CacheInit, Loaded
<1>2. SInv /\ LocatedOK' /\ [LoaderNext]_loaderVars => [Cache!CacheLoad]_(Cache!cacheVars)
  <2> SUFFICES ASSUME SInv, LocatedOK', [LoaderNext]_loaderVars
               PROVE  Cache!CacheLoad \/ UNCHANGED Cache!cacheVars
    OBVIOUS
  <2>1. CASE Publish
    BY <2>1, PublishLoads
  <2>2. CASE ~Publish
    <3>1. UNCHANGED <<konf, vendors>>
      BY <2>2 DEF LoaderNext, LoaderStep, BeginLoad, LoadPlain, BeginResolve, AddAddress, Lookup,
                  EndResolve, Wake, RenderMenu, loaderVars, loader
    <3> QED BY <3>1, OtherSteps
  <2> QED BY <2>1, <2>2
<1> QED BY <1>1, <1>2, SearchLocates, AlwaysSInv, PTL DEF LoaderSpec, CacheSpec, Cache!CacheSpec
=============================================================================
