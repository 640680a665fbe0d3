------------------------- MODULE VendorLoaderProofs -------------------------
(***************************************************************************)
(* Theorems about VendorLoader: what is published is well formed, and      *)
(* complete but for failed lookups, for all configurations and answers.    *)
(***************************************************************************)
EXTENDS VendorLoader, SequenceTheorems, TLAPS

-----------------------------------------------------------------------------
(* Paths.                                                                  *)

(* What Front, Last and Len say of a path that was extended.               *)
LEMMA Extended ==
  ASSUME NEW p \in Path, NEW s \in Keys
  PROVE  /\ Append(p, s) \in Path
         /\ Append(p, s) # << >>
         /\ Front(Append(p, s)) = p
         /\ Last(Append(p, s)) = s
         /\ Len(Append(p, s)) = Len(p) + 1
<1> USE DEF Path
<1>1. Append(p, s) \in Seq(Keys) /\ Len(Append(p, s)) = Len(p) + 1 /\ Append(p, s) # << >>
      /\ Append(p, s)[Len(p) + 1] = s /\ \A i \in 1 .. Len(p) : Append(p, s)[i] = p[i]
  BY AppendProperties
<1>2. SubSeq(Append(p, s), 1, Len(p)) = p
  <2> DEFINE f == SubSeq(Append(p, s), 1, Len(p))
  <2>1. f \in Seq(Keys) /\ Len(f) = Len(p) /\ \A i \in 1 .. Len(p) : f[i] = Append(p, s)[i]
    BY <1>1, SubSeqProperties
  <2> QED BY <1>1, <2>1, SeqEqual
<1>3. Len(p) \in Nat /\ Len(p) + 1 - 1 = Len(p)
  BY LenProperties
<1> QED BY <1>1, <1>2, <1>3 DEF Front, Last

(* Paths of one length that were extended to the same path are the same.   *)
LEMMA SameExtended ==
  ASSUME NEW p \in Path, NEW q \in Path, NEW s \in Keys, NEW r \in Keys,
         Append(p, s) = Append(q, r)
  PROVE  p = q /\ s = r
<1>1. Front(Append(p, s)) = p /\ Last(Append(p, s)) = s
  BY Extended
<1>2. Front(Append(q, r)) = q /\ Last(Append(q, r)) = r
  BY Extended
<1> QED BY <1>1, <1>2

(* The elements of a list are its head and those of its tail.              *)
LEMMA HeadOrTail ==
  ASSUME NEW q \in Path, q # << >>
  PROVE  /\ Head(q) \in Keys /\ Tail(q) \in Path
         /\ ToSet(q) = {Head(q)} \cup ToSet(Tail(q))
<1> USE DEF Path
<1>1. /\ Head(q) \in Keys /\ Tail(q) \in Seq(Keys) /\ Len(Tail(q)) = Len(q) - 1
      /\ Head(q) = q[1] /\ \A i \in 1 .. Len(Tail(q)) : Tail(q)[i] = q[i + 1]
      /\ Len(q) \in Nat /\ Len(q) # 0
  BY HeadTailProperties, LenProperties, EmptySeq
<1>2. DOMAIN q = 1 .. Len(q) /\ DOMAIN Tail(q) = 1 .. Len(q) - 1
  BY <1>1, LenProperties
<1>3. ASSUME NEW x \in ToSet(q) PROVE x \in {Head(q)} \cup ToSet(Tail(q))
  <2>1. PICK i \in 1 .. Len(q) : x = q[i]
    BY <1>2, <1>3 DEF ToSet
  <2>2. CASE i = 1
    BY <1>1, <2>1, <2>2
  <2>3. CASE i # 1
    <3>1. i - 1 \in 1 .. Len(q) - 1 /\ Tail(q)[i - 1] = q[(i - 1) + 1] /\ (i - 1) + 1 = i
      BY <1>1, <2>3
    <3> QED BY <1>2, <2>1, <3>1 DEF ToSet
  <2> QED BY <2>2, <2>3
<1>4. ASSUME NEW x \in {Head(q)} \cup ToSet(Tail(q)) PROVE x \in ToSet(q)
  <2>1. CASE x = Head(q)
    BY <1>1, <1>2, <2>1 DEF ToSet
  <2>2. CASE x \in ToSet(Tail(q))
    <3>1. PICK i \in 1 .. Len(q) - 1 : x = Tail(q)[i]
      BY <1>2, <2>2 DEF ToSet
    <3>2. i + 1 \in 1 .. Len(q) /\ x = q[i + 1]
      BY <1>1, <3>1
    <3> QED BY <1>2, <3>2 DEF ToSet
  <2> QED BY <1>4, <2>1, <2>2
<1> QED BY <1>1, <1>3, <1>4

LEMMA ElementKeys ==
  ASSUME NEW q \in Path PROVE ToSet(q) \subseteq Keys
BY ElementOfSeq, LenProperties DEF ToSet, Path

(* What a configuration says of a vendor is made of keys.                  *)
LEMMA KonfKeys ==
  ASSUME konf \in Konfs, NEW v \in konf.vendors
  PROVE  /\ Levels(v) \in Nat
         /\ \A p \in Paths(v) : p \in Path /\ konf.servers[v][p] \in Path
<1>1. konf.names \subseteq Keys
  BY DEF Keys
<1>2. \A q \in Seq(konf.names) : q \in Path
  BY <1>1, SeqMonotonic DEF Path
<1> QED BY <1>2, KonfAssumption DEF Levels, Paths

(* The keys reached after n levels are paths of n keys.                    *)
LEMMA ReachedKeys ==
  ASSUME konf \in Konfs, NEW v \in konf.vendors, NEW n \in Nat, NEW p \in KeyPaths(v, n)
  PROVE  /\ p \in Path /\ Len(p) = n
         /\ n # 0 => p # << >> /\ Front(p) \in KeyPaths(v, n - 1)
<1> USE DEF Path
<1>1. PICK q \in Paths(v) : Len(q) >= n /\ p = SubSeq(q, 1, n)
  BY DEF KeyPaths
<1>2. q \in Seq(Keys) /\ Len(q) \in Nat
  BY KonfKeys, <1>1, LenProperties DEF Path
<1>3. p \in Seq(Keys) /\ Len(p) = n /\ \A i \in 1 .. n : p[i] = q[i]
  BY <1>1, <1>2, SubSeqProperties
<1>4. ASSUME n # 0 PROVE p # << >> /\ Front(p) \in KeyPaths(v, n - 1)
  <2>1. p # << >>
    BY <1>3, <1>4, EmptySeq
  <2> DEFINE m == n - 1
  <2>2. m \in Nat /\ m <= n /\ m <= Len(q)
    BY <1>1, <1>2, <1>4
  <2>3. /\ SubSeq(p, 1, m) \in Seq(Keys) /\ Len(SubSeq(p, 1, m)) = m
        /\ \A i \in 1 .. m : SubSeq(p, 1, m)[i] = p[i]
    BY <1>3, <2>2, SubSeqProperties
  <2>4. /\ SubSeq(q, 1, m) \in Seq(Keys) /\ Len(SubSeq(q, 1, m)) = m
        /\ \A i \in 1 .. m : SubSeq(q, 1, m)[i] = q[i]
    BY <1>2, <2>2, SubSeqProperties
  <2>5. \A i \in 1 .. m : p[i] = q[i]
    BY <1>3, <2>2
  <2>6. SubSeq(p, 1, m) = SubSeq(q, 1, m)
    BY <2>3, <2>4, <2>5, SeqEqual
  <2>7. Front(p) = SubSeq(q, 1, m)
    BY <1>3, <2>6 DEF Front
  <2> HIDE DEF m
  <2>8. SubSeq(q, 1, m) \in KeyPaths(v, m)
    BY <1>1, <2>2 DEF KeyPaths
  <2> QED BY <2>1, <2>7, <2>8 DEF m
<1> QED BY <1>3, <1>4

LEMMA LastKeyPaths ==
  ASSUME konf \in Konfs, NEW v \in konf.vendors, NEW p \in LastKeys(v)
  PROVE  /\ p \in Path /\ Len(p) = Levels(v)
         /\ p # << >> => Front(p) \in InnerKeys(v) \cup {<< >>}
         /\ List(v, p) \in Path
<1>1. Levels(v) \in Nat
  BY KonfKeys
<1>2. List(v, p) \in Path
  BY KonfKeys, EmptySeq DEF List, Path
<1>3. CASE Levels(v) = 0
  BY <1>2, <1>3, EmptySeq DEF LastKeys, Path
<1>4. CASE Levels(v) # 0
  <2> DEFINE n == Levels(v)
  <2>1. p \in KeyPaths(v, n)
    BY <1>4 DEF LastKeys
  <2>2. p \in Path /\ Len(p) = n /\ Front(p) \in KeyPaths(v, n - 1)
    BY <1>1, <1>4, <2>1, ReachedKeys
  <2>3. Front(p) \in InnerKeys(v) \cup {<< >>}
    <3>1. CASE n = 1
      <4>1. Front(p) \in Path /\ Len(Front(p)) = 0
        BY <2>2, <3>1, ReachedKeys
      <4> QED BY <4>1, EmptySeq DEF Path
    <3>2. CASE n # 1
      <4>1. n - 1 \in 1 .. n - 1
        BY <1>1, <1>4, <3>2
      <4> QED BY <2>2, <4>1 DEF InnerKeys
    <3> QED BY <3>1, <3>2
  <2> QED BY <1>2, <2>2, <2>3
<1> QED BY <1>3, <1>4

LEMMA InnerKeyPaths ==
  ASSUME konf \in Konfs, NEW v \in konf.vendors, NEW p \in InnerKeys(v)
  PROVE  p \in Path /\ Front(p) \in InnerKeys(v) \cup {<< >>}
<1>1. Levels(v) \in Nat
  BY KonfKeys
<1>2. PICK n \in 1 .. Levels(v) - 1 : p \in KeyPaths(v, n)
  BY DEF InnerKeys
<1>3. n \in Nat /\ n # 0 /\ n - 1 \in Nat
  BY <1>1, <1>2
<1>4. p \in Path /\ Front(p) \in KeyPaths(v, n - 1)
  BY <1>2, <1>3, ReachedKeys
<1>5. CASE n = 1
  <2>1. Front(p) \in Path /\ Len(Front(p)) = 0
    BY <1>3, <1>4, <1>5, ReachedKeys
  <2> QED BY <1>4, <2>1, EmptySeq DEF Path
<1>6. CASE n # 1
  <2>1. n - 1 \in 1 .. Levels(v) - 1
    BY <1>1, <1>2, <1>6
  <2> QED BY <1>4, <2>1 DEF InnerKeys
<1> QED BY <1>5, <1>6

(* A list element of one call is not at the place of a server of another.  *)
LEMMA Owner ==
  ASSUME NEW p \in Path, NEW q \in Path, Len(p) = Len(q), NEW s \in Keys,
         NEW i, OfCall(i, p), Front(i) = Append(q, s)
  PROVE  p = q
<1>1. CASE \E r \in Keys : i = Append(p, r)
  <2>1. p = Append(q, s)
    BY <1>1, Extended
  <2>2. Len(p) = Len(q) + 1 /\ Len(q) \in Nat
    BY <2>1, Extended, LenProperties DEF Path
  <2> QED BY <2>2
<1>2. CASE \E r, a \in Keys : i = Append(Append(p, r), a)
  <2>1. PICK r \in Keys, a \in Keys : i = Append(Append(p, r), a)
    BY <1>2
  <2>2. Append(p, r) = Append(q, s)
    BY <2>1, Extended
  <2> QED BY <2>2, SameExtended
<1> QED BY <1>1, <1>2 DEF OfCall

LEMMA OfCallPath ==
  ASSUME NEW p \in Path, NEW i, OfCall(i, p) PROVE i \in Path
BY Extended DEF OfCall

-----------------------------------------------------------------------------
(* The invariant.                                                          *)
Filled(c) == c \in [konf.vendors -> Maps] /\ \A v \in konf.vendors : WellFormed(c[v])

TypeInv ==
  /\ konf \in Konfs
  /\ vendors # Nil => Filled(vendors)
  /\ vcmap # Nil \/ lpc = "load" => Filled(vcmap)
  /\ lpc \in {"begin", "load", "sleep", "ended"}
  /\ \A c \in todo : c.v \in konf.vendors /\ c.p \in LastKeys(c.v)
  /\ job # Nil => job \in Jobs /\ job.v \in konf.vendors /\ job.p \in LastKeys(job.v)
  /\ \A link \in menu : link.v \in konf.vendors

IInv == TypeInv /\ LoaderInv /\ OnlyFailedLookupsMissing

LEMMA TypeOK == TypeInv => LoaderTypeOK
BY DEF TypeInv, LoaderTypeOK, Filled

(* The configuration does not change.                                      *)
LEMMA SameKonf ==
  ASSUME konf' = konf
  PROVE  /\ \A v : LastKeys(v)' = LastKeys(v) /\ InnerKeys(v)' = InnerKeys(v)
         /\ \A v, p : List(v, p)' = List(v, p)
BY DEF LastKeys, InnerKeys, KeyPaths, Levels, Paths, List

LEMMA InitIInv == LoaderInit => IInv
BY DEF LoaderInit, IInv, TypeInv, LoaderInv, OnlyFailedLookupsMissing, Loaded

(* A server stays in its place when what is added is of other places.      *)
LEMMA PlacedKept ==
  ASSUME NEW v, NEW p, NEW s, NEW old, NEW new, old \subseteq new,
         \A i \in new \ old : Front(i) # Append(p, s),
         Placed(old, v, p, s)
  PROVE  Placed(new, v, p, s)
<1>1. Addresses(new, Append(p, s)) = Addresses(old, Append(p, s))
  BY DEF Addresses
<1> QED BY <1>1 DEF Placed

-----------------------------------------------------------------------------
(* A call that ends puts a part of its own into the map.                   *)
LEMMA AttachInv ==
  ASSUME TypeInv, LoaderInv, lpc = "load",
         NEW v \in konf.vendors, NEW p \in LastKeys(v), ~Ended(v, p),
         NEW maps \in SUBSET Path, NEW lists \in SUBSET Path, NEW links \in SUBSET Path,
         Attach(v, p, maps, lists, links),
         \A m \in maps : m # << >> /\ Front(m) = p,
         \A i \in lists : OfCall(i, p) /\ Front(i) \in {p} \cup maps,
         \A s \in ToSet(List(v, p)) : Placed(lists, v, p, s),
         konf' = konf,
         \A w \in konf.vendors : \A q \in LastKeys(w) :
           Ended(w, q)' <=> Ended(w, q) \/ (w = v /\ q = p)
  PROVE  Filled(vcmap)' /\ \A w \in konf'.vendors : MapInv(w)'
<1>1. Filled(vcmap) /\ konf \in Konfs /\ \A w \in konf.vendors : MapInv(w)
  BY DEF TypeInv, LoaderInv
<1>2. p \in Path /\ (p # << >> => Front(p) \in InnerKeys(v) \cup {<< >>}) /\ List(v, p) \in Path
  BY <1>1, LastKeyPaths
<1> DEFINE key == {p} \ {<< >>}
           old == vcmap[v]
           new == [maps  |-> old.maps \cup key \cup maps,
                   lists |-> old.lists \cup lists,
                   links |-> old.links \cup (key \cap links)]
<1>3. old \in Maps /\ WellFormed(old) /\ new \in Maps
  BY <1>1, <1>2 DEF Filled, Maps
<1>4. vcmap' = [vcmap EXCEPT ![v] = new]
  BY DEF Attach
<1>5. /\ vcmap' \in [konf.vendors -> Maps] /\ vcmap'[v] = new
      /\ \A w \in konf.vendors \ {v} : vcmap'[w] = vcmap[w]
  BY <1>1, <1>3, <1>4 DEF Filled
<1>6. WellFormed(new)
  <2>1. old.links \subseteq old.maps /\ \A q \in old.maps \cup old.lists : Front(q) \in old.maps \cup {<< >>}
    BY <1>3 DEF WellFormed
  <2>2. InnerKeys(v) \subseteq old.maps
    BY <1>1 DEF MapInv
  <2>3. new.links \subseteq new.maps
    BY <2>1
  <2>4. ASSUME NEW q \in new.maps \cup new.lists PROVE Front(q) \in new.maps \cup {<< >>}
    <3>1. CASE q \in old.maps \cup old.lists
      BY <2>1, <3>1
    <3>2. CASE q \in key
      BY <1>2, <2>2, <3>2
    <3>3. CASE q \in maps \cup lists
      BY <3>3
    <3> QED BY <2>4, <3>1, <3>2, <3>3
  <2> QED BY <2>3, <2>4 DEF WellFormed
<1>7. Filled(vcmap)'
  <2>1. \A w \in konf.vendors : WellFormed(vcmap'[w])
    BY <1>1, <1>5, <1>6 DEF Filled
  <2> QED BY <1>5, <2>1 DEF Filled, WellFormed
<1>8. ASSUME NEW w \in konf.vendors PROVE MapInv(w)'
  <2>1. MapInv(w)
    BY <1>1
  <2>2. LastKeys(w)' = LastKeys(w) /\ InnerKeys(w)' = InnerKeys(w) /\ \A q : List(w, q)' = List(w, q)
    BY SameKonf
  <2>3. vcmap[w].lists \subseteq vcmap'[w].lists /\ vcmap[w].maps \subseteq vcmap'[w].maps
    BY <1>5
  <2>4. (InnerKeys(w) \subseteq vcmap[w].maps)'
    BY <2>1, <2>2, <2>3 DEF MapInv
  <2>5. \A q \in LastKeys(w) : Ended(w, q) => Ended(w, q)'
    OBVIOUS
  <2>6. ASSUME NEW i \in vcmap'[w].lists
        PROVE  \E q \in LastKeys(w)' : Ended(w, q)' /\ OfCall(i, q)
    <3>1. CASE i \in vcmap[w].lists
      BY <2>1, <2>2, <2>5, <3>1 DEF MapInv
    <3>2. CASE i \notin vcmap[w].lists
      <4>1. w = v /\ i \in lists
        BY <1>5, <2>6, <3>2
      <4> QED BY <2>2, <4>1
    <3> QED BY <3>1, <3>2
  <2>7. ASSUME NEW q \in LastKeys(w), Ended(w, q)', NEW s \in ToSet(List(w, q))
        PROVE  Placed(vcmap'[w].lists, w, q, s)
    <3>1. q \in Path /\ Len(q) = Levels(w) /\ s \in Keys
      BY <1>1, LastKeyPaths, ElementKeys
    <3>2. CASE Ended(w, q)
      <4>1. Placed(vcmap[w].lists, w, q, s)
        BY <2>1, <3>2 DEF MapInv
      <4>2. ASSUME NEW i \in vcmap'[w].lists \ vcmap[w].lists, Front(i) = Append(q, s) PROVE FALSE
        <5>1. w = v /\ i \in lists
          BY <1>5, <4>2
        <5>2. OfCall(i, p) /\ Len(p) = Levels(v)
          BY <1>1, <5>1, LastKeyPaths
        <5>3. p = q
          BY <1>2, <3>1, <4>2, <5>1, <5>2, Owner
        <5> QED BY <3>2, <5>1, <5>3
      <4> QED BY <2>3, <4>1, <4>2, PlacedKept
    <3>3. CASE ~Ended(w, q)
      <4>1. w = v /\ q = p
        BY <2>7, <3>3
      <4>2. Placed(lists, w, q, s)
        BY <2>7, <4>1
      <4>3. lists \subseteq vcmap'[w].lists
        BY <1>5, <4>1
      <4>4. ASSUME NEW i \in vcmap'[w].lists \ lists, Front(i) = Append(q, s) PROVE FALSE
        <5>1. i \in vcmap[w].lists
          BY <1>5, <4>1, <4>4
        <5>2. PICK r \in LastKeys(w) : Ended(w, r) /\ OfCall(i, r)
          BY <2>1, <5>1 DEF MapInv
        <5>3. r \in Path /\ Len(r) = Levels(w)
          BY <1>1, LastKeyPaths
        <5>4. r = q
          BY <3>1, <4>4, <5>2, <5>3, Owner
        <5> QED BY <3>3, <5>2, <5>4
      <4> QED BY <4>2, <4>3, <4>4, PlacedKept
    <3> QED BY <3>2, <3>3
  <2>8. \A q, s : Placed(vcmap'[w].lists, w, q, s) => Placed(vcmap[w].lists, w, q, s)'
    BY DEF Placed, Addresses
  <2>9. \A q : ToSet(List(w, q))' = ToSet(List(w, q))
    BY <2>2 DEF ToSet
  <2>10. \A q \in LastKeys(w)' : Ended(w, q)' =>
           \A s \in ToSet(List(w, q))' : Placed(vcmap[w].lists, w, q, s)'
    BY <2>2, <2>7, <2>8, <2>9
  <2> QED BY <2>4, <2>6, <2>10 DEF MapInv
<1> QED BY <1>7, <1>8

-----------------------------------------------------------------------------
(* Steps that leave the maps alone.                                        *)
LEMMA MapKept ==
  ASSUME konf' = konf, vcmap' = vcmap, NEW v \in konf.vendors, MapInv(v),
         \A q \in LastKeys(v) : Ended(v, q)' <=> Ended(v, q)
  PROVE  MapInv(v)'
<1>1. LastKeys(v)' = LastKeys(v) /\ InnerKeys(v)' = InnerKeys(v) /\ \A q : List(v, q)' = List(v, q)
  BY SameKonf
<1>2. \A q : ToSet(List(v, q))' = ToSet(List(v, q))
  BY <1>1 DEF ToSet
<1>3. \A q, s : Placed(vcmap[v].lists, v, q, s) => Placed(vcmap[v].lists, v, q, s)'
  BY DEF Placed, Addresses
<1>4. (InnerKeys(v) \subseteq vcmap[v].maps)'
  BY <1>1 DEF MapInv
<1>5. \A i \in vcmap'[v].lists : \E q \in LastKeys(v)' : Ended(v, q)' /\ OfCall(i, q)
  BY <1>1 DEF MapInv
<1>6. \A q \in LastKeys(v)' : Ended(v, q)' =>
        \A s \in ToSet(List(v, q))' : Placed(vcmap[v].lists, v, q, s)'
  BY <1>1, <1>2, <1>3 DEF MapInv
<1> QED BY <1>4, <1>5, <1>6 DEF MapInv

LEMMA PublishedKept ==
  ASSUME OnlyFailedLookupsMissing, UNCHANGED <<konf, vendors>>
  PROVE  OnlyFailedLookupsMissing'
<1>1. \A v, p : LastKeys(v)' = LastKeys(v) /\ List(v, p)' = List(v, p)
  BY SameKonf
<1>2. \A v, p : Elements(v, p)' = Elements(v, p)
  BY <1>1 DEF Elements, ToSet
<1> QED BY <1>1, <1>2 DEF OnlyFailedLookupsMissing, Loaded

(* What is known of the call in progress.                                  *)
LEMMA JobFacts ==
  ASSUME TypeInv, LoaderInv, job # Nil
  PROVE  /\ JobInv /\ lpc = "load" /\ konf \in Konfs
         /\ job = [v |-> job.v, p |-> job.p, rest |-> job.rest, maps |-> job.maps, lists |-> job.lists]
         /\ job.v \in UNION {k.vendors : k \in Konfs}
         /\ job.v \in konf.vendors /\ job.p \in LastKeys(job.v)
         /\ job.p \in Path /\ job.rest \in Path
         /\ job.maps \in SUBSET Path /\ job.lists \in SUBSET Path
         /\ List(job.v, job.p) \in Path
         /\ ToSet(List(job.v, job.p)) \subseteq Keys
<1>1. /\ JobInv /\ lpc = "load" /\ konf \in Konfs /\ job \in Jobs
      /\ job.v \in konf.vendors /\ job.p \in LastKeys(job.v)
  BY DEF TypeInv, LoaderInv
<1>2. List(job.v, job.p) \in Path
  BY <1>1, LastKeyPaths
<1>3. ToSet(List(job.v, job.p)) \subseteq Keys
  BY <1>2, ElementKeys
<1> QED BY <1>1, <1>2, <1>3 DEF Jobs

(* A step of the call in progress, which stays in progress.                *)
LEMMA JobStep ==
  ASSUME IInv, job # Nil, UNCHANGED <<konf, vendors, vcmap, lpc, todo, menu>>,
         job' \in Jobs, job'.v = job.v, job'.p = job.p, JobInv'
  PROVE  IInv'
<1>1. TypeInv /\ LoaderInv
  BY DEF IInv
<1>2. job' # Nil
  BY NilAssumption
<1>3. \A v : LastKeys(v)' = LastKeys(v)
  BY SameKonf
<1>4. TypeInv'
  BY <1>1, <1>3 DEF TypeInv, Filled, WellFormed
<1>5. LoaderInv'
  <2>1. \A v, q : Ended(v, q)' <=> Ended(v, q)
    BY <1>2, <1>3 DEF Ended
  <2>2. \A v \in konf.vendors : MapInv(v) => MapInv(v)'
    BY <2>1, MapKept
  <2> QED BY <1>1, <2>2 DEF LoaderInv
<1>6. OnlyFailedLookupsMissing'
  BY PublishedKept DEF IInv
<1> QED BY <1>4, <1>5, <1>6 DEF IInv

LEMMA AddAddressInv == IInv /\ AddAddress => IInv' /\ job' \in Jobs
<1> SUFFICES ASSUME IInv, AddAddress PROVE IInv' /\ job' \in Jobs
  OBVIOUS
<1> DEFINE v == job.v
           p == job.p
           s0 == Head(job.rest)
           new == job.lists \cup {Append(p, s0)}
<1>1. job # Nil /\ job.rest # << >> /\ s0 \notin DOMAIN Answers
  BY DEF AddAddress, Resolving, Server
<1>2. /\ JobInv
      /\ job = [v |-> v, p |-> p, rest |-> job.rest, maps |-> job.maps, lists |-> job.lists]
      /\ v \in UNION {k.vendors : k \in Konfs}
      /\ p \in Path /\ job.rest \in Path
      /\ job.maps \in SUBSET Path /\ job.lists \in SUBSET Path
      /\ ToSet(List(v, p)) \subseteq Keys
  BY <1>1, JobFacts DEF IInv
<1>3. s0 \in Keys /\ Tail(job.rest) \in Path /\ ToSet(job.rest) = {s0} \cup ToSet(Tail(job.rest))
  BY <1>1, <1>2, HeadOrTail
<1>4. Append(p, s0) \in Path /\ Front(Append(p, s0)) = p
  BY <1>2, <1>3, Extended
<1>5. job' = [v |-> v, p |-> p, rest |-> Tail(job.rest), maps |-> job.maps, lists |-> new]
  BY <1>2 DEF AddAddress, Server
<1>6. job' \in Jobs
  BY <1>2, <1>3, <1>4, <1>5 DEF Jobs
<1>7. UNCHANGED <<konf, vendors, vcmap, lpc, todo, menu>>
  BY DEF AddAddress
<1>8. JobInv'
  <2>1. ASSUME NEW i \in new PROVE OfCall(i, p) /\ Front(i) \in {p} \cup job.maps
    BY <1>2, <1>3, <1>4 DEF OfCall, JobInv
  <2>2. ASSUME NEW s \in ToSet(List(v, p))
        PROVE  /\ s \in DOMAIN Answers => Addresses(new, Append(p, s)) \in Answers[s] \cup {{}}
               /\ s \in ToSet(Tail(job.rest)) \/ Placed(new, v, p, s)
    <3>1. s \in Keys
      BY <1>2
    <3>2. p # Append(p, s)
      <4>1. Len(Append(p, s)) = Len(p) + 1 /\ Len(p) \in Nat
        BY <1>2, <3>1, Extended, LenProperties DEF Path
      <4> QED BY <4>1
    <3>3. Addresses(new, Append(p, s)) = Addresses(job.lists, Append(p, s))
      BY <1>4, <3>2 DEF Addresses
    <3>4. s \in DOMAIN Answers => Addresses(job.lists, Append(p, s)) \in Answers[s] \cup {{}}
      BY <1>2 DEF JobInv
    <3>5. s \in ToSet(job.rest) \/ Placed(job.lists, v, p, s)
      BY <1>2 DEF JobInv
    <3>6. CASE s = s0
      BY <1>1, <3>3, <3>4, <3>6 DEF Placed
    <3>7. CASE s # s0
      <4>1. Placed(job.lists, v, p, s) => Placed(new, v, p, s)
        BY <3>3 DEF Placed
      <4> QED BY <1>3, <3>3, <3>4, <3>5, <3>7, <4>1
    <3> QED BY <3>6, <3>7
  <2>3. List(v, p)' = List(v, p) /\ ToSet(List(v, p))' = ToSet(List(v, p))
    BY <1>5, <1>7, SameKonf DEF ToSet
  <2> QED BY <1>2, <1>5, <1>7, <2>1, <2>2, <2>3 DEF JobInv, Placed, Addresses
<1> QED BY <1>1, <1>5, <1>6, <1>7, <1>8, JobStep

(* AddHost: the addresses of a host take its place, and no other.          *)
WithHost(lists, host, addrs) ==
  {i \in lists : Front(i) # host} \cup {Append(host, a) : a \in addrs}

LEMMA HostAdded ==
  ASSUME NEW p \in Path, NEW s \in Keys, NEW old \in SUBSET Path, NEW addrs \in SUBSET Keys
  PROVE  LET new == WithHost(old, Append(p, s), addrs) IN
         /\ new \in SUBSET Path
         /\ Addresses(new, Append(p, s)) = addrs
         /\ \A r \in Keys \ {s} :
              /\ Addresses(new, Append(p, r)) = Addresses(old, Append(p, r))
              /\ Append(p, r) \in old => Append(p, r) \in new
<1> DEFINE host == Append(p, s)
           new == WithHost(old, host, addrs)
<1>1. host \in Path
  BY Extended
<1>2. \A a \in Keys : Append(host, a) \in Path /\ Front(Append(host, a)) = host /\ Last(Append(host, a)) = a
  BY <1>1, Extended
<1>3. new \in SUBSET Path
  BY <1>2 DEF WithHost
<1>4. Addresses(new, host) = addrs
  <2>1. {i \in new : Front(i) = host} = {Append(host, a) : a \in addrs}
    BY <1>2 DEF WithHost
  <2>2. {Last(i) : i \in {Append(host, a) : a \in addrs}} = addrs
    BY <1>2
  <2> QED BY <2>1, <2>2 DEF Addresses
<1>5. ASSUME NEW r \in Keys \ {s}
      PROVE  /\ Addresses(new, Append(p, r)) = Addresses(old, Append(p, r))
             /\ Append(p, r) \in old => Append(p, r) \in new
  <2>1. Append(p, r) # host /\ Front(Append(p, r)) = p
    <3>1. Last(Append(p, r)) = r /\ Front(Append(p, r)) = p
      BY Extended
    <3>2. Last(host) = s
      BY Extended
    <3> QED BY <3>1, <3>2
  <2>2. p # host
    <3>1. Len(host) = Len(p) + 1 /\ Len(p) \in Nat
      BY Extended, LenProperties DEF Path
    <3> QED BY <3>1
  <2>3. {i \in new : Front(i) = Append(p, r)} = {i \in old : Front(i) = Append(p, r)}
    <3> DEFINE q == Append(p, r)
    <3>1. q # host
      BY <2>1
    <3> HIDE DEF q
    <3>2. ASSUME NEW i \in new, Front(i) = q PROVE i \in old
      BY <1>2, <3>1, <3>2 DEF WithHost
    <3>3. ASSUME NEW i \in old, Front(i) = q PROVE i \in new
      BY <3>1, <3>3 DEF WithHost
    <3>4. {i \in new : Front(i) = q} = {i \in old : Front(i) = q}
      BY <3>2, <3>3
    <3> QED BY <3>4 DEF q
  <2>4. Addresses(new, Append(p, r)) = Addresses(old, Append(p, r))
    BY <2>3 DEF Addresses
  <2> QED BY <2>1, <2>2, <2>4 DEF WithHost
<1> QED BY <1>3, <1>4, <1>5

LEMMA LookupInv == IInv /\ Lookup => IInv' /\ job' \in Jobs
<1> SUFFICES ASSUME IInv, Lookup PROVE IInv' /\ job' \in Jobs
  OBVIOUS
<1> DEFINE v == job.v
           p == job.p
           s0 == Head(job.rest)
           host == Append(p, s0)
<1>1. job # Nil /\ job.rest # << >> /\ s0 \in DOMAIN Answers
  BY DEF Lookup, Resolving, Server
<1>2. /\ JobInv
      /\ job = [v |-> v, p |-> p, rest |-> job.rest, maps |-> job.maps, lists |-> job.lists]
      /\ v \in UNION {k.vendors : k \in Konfs}
      /\ p \in Path /\ job.rest \in Path
      /\ job.maps \in SUBSET Path /\ job.lists \in SUBSET Path
      /\ ToSet(List(v, p)) \subseteq Keys
  BY <1>1, JobFacts DEF IInv
<1>3. s0 \in Keys /\ Tail(job.rest) \in Path /\ ToSet(job.rest) = {s0} \cup ToSet(Tail(job.rest))
  BY <1>1, <1>2, HeadOrTail
<1>4. host \in Path /\ host # << >> /\ Front(host) = p
  BY <1>2, <1>3, Extended
<1>5. UNCHANGED <<konf, vendors, vcmap, lpc, todo, menu>>
  BY DEF Lookup
<1>6. PICK addrs \in Answers[s0] :
        \/ addrs = {} /\ job' = [job EXCEPT !.rest = Tail(@)]
        \/ addrs # {} /\ AddHost(addrs)
  BY DEF Lookup, Server
<1>7. addrs \in SUBSET Keys
  BY <1>1, AnswersAssumption
<1>8. konf.resolve[v]
  BY <1>2 DEF JobInv
<1>9. ASSUME NEW s \in ToSet(List(v, p))
      PROVE  /\ s \in Keys
             /\ s \in DOMAIN Answers => Addresses(job.lists, Append(p, s)) \in Answers[s] \cup {{}}
             /\ s \in ToSet(job.rest) \/ Placed(job.lists, v, p, s)
  BY <1>2 DEF JobInv
<1>10. CASE addrs = {}
  <2>1. job' = [v |-> v, p |-> p, rest |-> Tail(job.rest), maps |-> job.maps, lists |-> job.lists]
    BY <1>2, <1>6, <1>10
  <2>2. job' \in Jobs
    BY <1>2, <1>3, <2>1 DEF Jobs
  <2>3. JobInv'
    <3>1. ASSUME NEW s \in ToSet(List(v, p))
          PROVE  s \in ToSet(Tail(job.rest)) \/ Placed(job.lists, v, p, s)
      <4>1. CASE s = s0
        BY <1>1, <1>6, <1>8, <1>9, <1>10, <4>1 DEF Placed
      <4>2. CASE s # s0
        BY <1>3, <1>9, <4>2
      <4> QED BY <4>1, <4>2
    <3>2. List(v, p)' = List(v, p) /\ ToSet(List(v, p))' = ToSet(List(v, p))
      BY <1>5, <2>1, SameKonf DEF ToSet
    <3> QED BY <1>2, <1>5, <2>1, <3>1, <3>2 DEF JobInv, Placed, Addresses
  <2> QED BY <1>1, <1>5, <2>1, <2>2, <2>3, JobStep
<1>11. CASE AddHost(addrs)
  <2> DEFINE new == WithHost(job.lists, host, addrs)
  <2>1. job' = [v |-> v, p |-> p, rest |-> Tail(job.rest), maps |-> job.maps \cup {host}, lists |-> new]
    BY <1>2, <1>11 DEF AddHost, Server, WithHost
  <2>2. /\ new \in SUBSET Path
        /\ Addresses(new, host) = addrs
        /\ \A r \in Keys \ {s0} :
             /\ Addresses(new, Append(p, r)) = Addresses(job.lists, Append(p, r))
             /\ Append(p, r) \in job.lists => Append(p, r) \in new
    <3>1. p \in Path /\ s0 \in Keys /\ job.lists \in SUBSET Path /\ addrs \in SUBSET Keys
      BY <1>2, <1>3, <1>7
    <3> HIDE DEF p, s0
    <3> QED BY <3>1, HostAdded, Zenon
  <2>3. job' \in Jobs
    BY <1>2, <1>3, <1>4, <2>1, <2>2 DEF Jobs
  <2>4. ASSUME NEW i \in new PROVE OfCall(i, p) /\ Front(i) \in {p} \cup (job.maps \cup {host})
    <3>1. CASE i \in job.lists
      BY <1>2, <3>1 DEF JobInv
    <3>2. CASE i \notin job.lists
      <4>1. PICK a \in addrs : i = Append(host, a)
        BY <3>2 DEF WithHost
      <4>2. Front(i) = host
        BY <1>4, <1>7, <4>1, Extended
      <4> QED BY <1>3, <1>7, <4>1, <4>2 DEF OfCall
    <3> QED BY <3>1, <3>2
  <2>5. ASSUME NEW s \in ToSet(List(v, p))
        PROVE  /\ s \in DOMAIN Answers => Addresses(new, Append(p, s)) \in Answers[s] \cup {{}}
               /\ s \in ToSet(Tail(job.rest)) \/ Placed(new, v, p, s)
    <3>1. CASE s = s0
      BY <1>1, <1>6, <1>8, <2>2, <3>1 DEF Placed
    <3>2. CASE s # s0
      <4>1. s \in Keys \ {s0}
        BY <1>9, <3>2
      <4>2. /\ Addresses(new, Append(p, s)) = Addresses(job.lists, Append(p, s))
            /\ Append(p, s) \in job.lists => Append(p, s) \in new
        BY <2>2, <4>1
      <4>3. Placed(job.lists, v, p, s) => Placed(new, v, p, s)
        BY <4>2 DEF Placed
      <4> QED BY <1>3, <1>9, <3>2, <4>2, <4>3
    <3> QED BY <3>1, <3>2
  <2>6. JobInv'
    <3>1. List(v, p)' = List(v, p) /\ ToSet(List(v, p))' = ToSet(List(v, p))
      BY <1>5, <2>1, SameKonf DEF ToSet
    <3>2. \A m \in job.maps \cup {host} : m # << >> /\ Front(m) = p
      BY <1>2, <1>4 DEF JobInv
    <3> QED BY <1>2, <1>5, <2>1, <2>4, <2>5, <3>1, <3>2 DEF JobInv, Placed, Addresses
  <2> QED BY <1>1, <1>5, <2>1, <2>3, <2>6, JobStep
<1> QED BY <1>6, <1>10, <1>11

-----------------------------------------------------------------------------
(* The other steps.                                                        *)
LEMMA BeginLoadInv == IInv /\ BeginLoad => IInv'
<1> SUFFICES ASSUME IInv, BeginLoad PROVE IInv'
  OBVIOUS
<1>1. TypeInv /\ LoaderInv /\ konf \in Konfs /\ todo = {} /\ job = Nil
  BY DEF IInv, TypeInv, LoaderInv, BeginLoad
<1>2. /\ vcmap' = [v \in konf.vendors |-> [EmptyMap EXCEPT !.maps = InnerKeys(v)]]
      /\ todo' = UNION {{[v |-> v, p |-> p] : p \in LastKeys(v)} : v \in konf.vendors}
      /\ lpc' = "load" /\ UNCHANGED <<konf, vendors, job, menu>>
  BY DEF BeginLoad
<1>3. \A v \in konf.vendors : vcmap'[v] = [maps |-> InnerKeys(v), lists |-> {}, links |-> {}]
  BY <1>2 DEF EmptyMap
<1>4. \A v \in konf.vendors : \A q \in InnerKeys(v) : q \in Path /\ Front(q) \in InnerKeys(v) \cup {<< >>}
  BY <1>1, InnerKeyPaths
<1>5. Filled(vcmap)'
  <2>1. \A v \in konf.vendors : vcmap'[v] \in Maps
    <3>1. ASSUME NEW v \in konf.vendors PROVE vcmap'[v] \in Maps
      <4>1. InnerKeys(v) \in SUBSET Path /\ {} \in SUBSET Path
        BY <1>4
      <4>2. \A keys, none \in SUBSET Path : [maps |-> keys, lists |-> none, links |-> none] \in Maps
        BY DEF Maps
      <4>3. vcmap'[v] = [maps |-> InnerKeys(v), lists |-> {}, links |-> {}]
        BY <1>3
      <4> QED BY <4>1, <4>2, <4>3, Zenon
    <3> QED BY <3>1
  <2>2. \A v \in konf.vendors : WellFormed(vcmap'[v])
    <3>1. ASSUME NEW v \in konf.vendors PROVE WellFormed(vcmap'[v])
      <4> DEFINE keys == InnerKeys(v)
      <4>1. \A q \in keys : Front(q) \in keys \cup {<< >>}
        BY <1>4
      <4>2. vcmap'[v] = [maps |-> keys, lists |-> {}, links |-> {}]
        BY <1>3
      <4> HIDE DEF keys
      <4>3. WellFormed([maps |-> keys, lists |-> {}, links |-> {}])
        BY <4>1 DEF WellFormed
      <4> QED BY <4>2, <4>3
    <3> QED BY <3>1
  <2>3. vcmap' = [v \in konf.vendors |-> vcmap'[v]]
    BY <1>2
  <2>4. vcmap' \in [konf.vendors -> Maps]
    BY <2>1, <2>3
  <2> QED BY <1>2, <2>2, <2>4 DEF Filled, WellFormed
<1>6. \A v : LastKeys(v)' = LastKeys(v) /\ InnerKeys(v)' = InnerKeys(v)
  BY <1>2, SameKonf
<1>7. \A v \in konf.vendors : MapInv(v)'
  <2>1. \A v \in konf.vendors : \A p \in LastKeys(v) : ~Ended(v, p)'
    <3>1. ASSUME NEW v \in konf.vendors, NEW p \in LastKeys(v) PROVE [v |-> v, p |-> p] \in todo'
      <4> DEFINE calls(w) == {[v |-> w, p |-> q] : q \in LastKeys(w)}
      <4>1. [v |-> v, p |-> p] \in calls(v)
        OBVIOUS
      <4>2. todo' = UNION {calls(w) : w \in konf.vendors}
        BY <1>2
      <4> HIDE DEF calls
      <4> QED BY <4>1, <4>2, Zenon
    <3> QED BY <3>1 DEF Ended
  <2>2. ASSUME NEW v \in konf.vendors PROVE MapInv(v)'
    <3>1. vcmap'[v].maps = InnerKeys(v) /\ vcmap'[v].lists = {}
      <4> DEFINE keys == InnerKeys(v)
      <4>1. vcmap'[v] = [maps |-> keys, lists |-> {}, links |-> {}]
        BY <1>3
      <4> HIDE DEF keys
      <4>2. vcmap'[v].maps = keys /\ vcmap'[v].lists = {}
        BY <4>1
      <4> QED BY <4>2 DEF keys
    <3>2. (InnerKeys(v) \subseteq vcmap[v].maps)'
      BY <1>6, <3>1
    <3>3. \A p \in LastKeys(v)' : ~Ended(v, p)'
      BY <1>6, <2>1
    <3> QED BY <3>1, <3>2, <3>3 DEF MapInv
  <2> QED BY <2>2
<1>8. \A c \in todo' : c.v \in konf.vendors /\ c.p \in LastKeys(c.v)
  BY <1>2
<1>9. OnlyFailedLookupsMissing'
  BY <1>2, PublishedKept DEF IInv
<1>10. TypeInv'
  <2>1. vendors' # Nil => Filled(vendors)'
    BY <1>1, <1>2 DEF TypeInv, Filled, WellFormed
  <2> QED BY <1>1, <1>2, <1>5, <1>6, <1>8, <2>1 DEF TypeInv
<1> QED BY <1>1, <1>2, <1>7, <1>9, <1>10 DEF IInv, LoaderInv

LEMMA BeginResolveInv ==
  ASSUME NEW c \in todo PROVE IInv /\ BeginResolve(c.v, c.p) => IInv'
<1> DEFINE v == c.v
           p == c.p
           call == [v |-> v, p |-> p]
<1> SUFFICES ASSUME IInv, BeginResolve(v, p) PROVE IInv'
  OBVIOUS
<1>1. TypeInv /\ LoaderInv /\ lpc = "load" /\ konf \in Konfs /\ v \in konf.vendors /\ p \in LastKeys(v)
  BY DEF IInv, TypeInv, LoaderInv
<1>2. /\ job = Nil /\ call \in todo /\ konf.resolve[v]
      /\ job' = [v |-> v, p |-> p, rest |-> List(v, p), maps |-> {}, lists |-> {}]
      /\ todo' = todo \ {call} /\ UNCHANGED <<konf, vendors, vcmap, lpc, menu>>
  BY DEF BeginResolve
<1>3. p \in Path /\ List(v, p) \in Path
  BY <1>1, LastKeyPaths
<1>4. job' \in Jobs /\ job' # Nil
  <2>1. job' \in Jobs
    BY <1>1, <1>2, <1>3 DEF Jobs
  <2> QED BY <2>1, NilAssumption
<1>5. /\ \A w : LastKeys(w)' = LastKeys(w)
      /\ List(v, p)' = List(v, p) /\ ToSet(List(v, p))' = ToSet(List(v, p))
  BY <1>2, SameKonf DEF ToSet
<1>6. \A w \in konf.vendors : \A q \in LastKeys(w) : Ended(w, q)' <=> Ended(w, q)
  <2> SUFFICES ASSUME NEW w \in konf.vendors, NEW q \in LastKeys(w) PROVE Ended(w, q)' <=> Ended(w, q)
    OBVIOUS
  <2>1. [v |-> w, p |-> q] = call <=> w = v /\ q = p
    OBVIOUS
  <2> QED BY <1>2, <1>4, <1>5, <2>1 DEF Ended
<1>7. \A w \in konf.vendors : MapInv(w)'
  BY <1>1, <1>2, <1>6, MapKept DEF LoaderInv
<1>8. JobInv'
  <2>1. \A s : Addresses({}, s) = {}
    BY DEF Addresses
  <2>2. [v |-> v, p |-> p] \notin todo'
    BY <1>2
  <2> QED BY <1>2, <1>5, <2>1, <2>2 DEF JobInv, Addresses
<1>9. TypeInv'
  BY <1>1, <1>2, <1>4, <1>5 DEF TypeInv, Filled, WellFormed
<1>10. OnlyFailedLookupsMissing'
  BY <1>2, PublishedKept DEF IInv
<1> QED BY <1>1, <1>2, <1>7, <1>8, <1>9, <1>10 DEF IInv, LoaderInv

LEMMA LoadPlainInv ==
  ASSUME NEW c \in todo PROVE IInv /\ LoadPlain(c.v, c.p) => IInv'
<1> DEFINE v == c.v
           p == c.p
           call == [v |-> v, p |-> p]
           lists == Elements(v, p)
<1> SUFFICES ASSUME IInv, LoadPlain(v, p) PROVE IInv'
  OBVIOUS
<1>1. TypeInv /\ LoaderInv /\ lpc = "load" /\ konf \in Konfs /\ v \in konf.vendors /\ p \in LastKeys(v)
  BY DEF IInv, TypeInv, LoaderInv
<1>2. /\ job = Nil /\ call \in todo /\ ~konf.resolve[v] /\ Attach(v, p, {}, lists, {})
      /\ todo' = todo \ {call} /\ UNCHANGED <<konf, vendors, lpc, job, menu>>
  BY DEF LoadPlain
<1>3. p \in Path /\ List(v, p) \in Path /\ ToSet(List(v, p)) \subseteq Keys
  <2>1. p \in Path /\ List(v, p) \in Path
    BY <1>1, LastKeyPaths
  <2> QED BY <2>1, ElementKeys
<1>4. ASSUME NEW i \in lists PROVE i \in Path /\ OfCall(i, p) /\ Front(i) \in {p} \cup {}
  <2>1. PICK s \in ToSet(List(v, p)) : i = Append(p, s)
    BY DEF Elements
  <2>2. i \in Path /\ Front(i) = p
    BY <1>3, <2>1, Extended
  <2> QED BY <1>3, <2>1, <2>2 DEF OfCall
<1>5. \A s \in ToSet(List(v, p)) : Placed(lists, v, p, s)
  BY <1>2 DEF Placed, Elements
<1>6. \A w : LastKeys(w)' = LastKeys(w)
  BY <1>2, SameKonf
<1>7. \A w \in konf.vendors : \A q \in LastKeys(w) : Ended(w, q)' <=> Ended(w, q) \/ (w = v /\ q = p)
  <2> SUFFICES ASSUME NEW w \in konf.vendors, NEW q \in LastKeys(w)
               PROVE  Ended(w, q)' <=> Ended(w, q) \/ (w = v /\ q = p)
    OBVIOUS
  <2>1. [v |-> w, p |-> q] = call <=> w = v /\ q = p
    OBVIOUS
  <2> QED BY <1>2, <1>6, <2>1 DEF Ended
<1>8. ~Ended(v, p)
  BY <1>2 DEF Ended
<1>9. Filled(vcmap)' /\ \A w \in konf'.vendors : MapInv(w)'
  <2>1. lists \in SUBSET Path /\ {} \in SUBSET Path
    BY <1>4
  <2> HIDE DEF lists, v, p
  <2> QED BY <1>1, <1>2, <1>4, <1>5, <1>7, <1>8, <2>1, AttachInv
<1>10. TypeInv'
  <2>1. vendors' # Nil => Filled(vendors)'
    BY <1>1, <1>2 DEF TypeInv, Filled, WellFormed
  <2> QED BY <1>1, <1>2, <1>6, <1>9, <2>1 DEF TypeInv
<1>11. OnlyFailedLookupsMissing'
  BY <1>2, PublishedKept DEF IInv
<1> QED BY <1>1, <1>2, <1>9, <1>10, <1>11 DEF IInv, LoaderInv

LEMMA EndResolveInv == IInv /\ EndResolve => IInv'
<1> DEFINE v == job.v
           p == job.p
<1> SUFFICES ASSUME IInv, EndResolve PROVE IInv'
  OBVIOUS
<1>1. /\ job # Nil /\ job.rest = << >> /\ Attach(v, p, job.maps, job.lists, {p})
      /\ job' = Nil /\ UNCHANGED <<konf, vendors, lpc, todo, menu>>
  BY DEF EndResolve
<1>2. TypeInv /\ LoaderInv
  BY DEF IInv
<1>3. /\ JobInv /\ lpc = "load" /\ konf \in Konfs /\ v \in konf.vendors /\ p \in LastKeys(v)
      /\ p \in Path /\ job.maps \in SUBSET Path /\ job.lists \in SUBSET Path
  BY <1>1, <1>2, JobFacts
<1>4. \A s \in ToSet(List(v, p)) : Placed(job.lists, v, p, s)
  <2>1. ToSet(job.rest) = {}
    BY <1>1 DEF ToSet
  <2> QED BY <1>3, <2>1 DEF JobInv
<1>5. \A w : LastKeys(w)' = LastKeys(w)
  BY <1>1, SameKonf
<1>6. [v |-> v, p |-> p] \notin todo
  BY <1>3 DEF JobInv
<1>7. \A w \in konf.vendors : \A q \in LastKeys(w) : Ended(w, q)' <=> Ended(w, q) \/ (w = v /\ q = p)
  BY <1>1, <1>5, <1>6 DEF Ended
<1>8. ~Ended(v, p)
  BY <1>1 DEF Ended
<1>9. Filled(vcmap)' /\ \A w \in konf'.vendors : MapInv(w)'
  <2>1. {p} \in SUBSET Path
    BY <1>3
  <2>2. /\ \A m \in job.maps : m # << >> /\ Front(m) = p
        /\ \A i \in job.lists : OfCall(i, p) /\ Front(i) \in {p} \cup job.maps
    BY <1>3 DEF JobInv
  <2> HIDE DEF v, p
  <2> QED BY <1>1, <1>2, <1>3, <1>4, <1>7, <1>8, <2>1, <2>2, AttachInv
<1>10. TypeInv'
  <2>1. vendors' # Nil => Filled(vendors)'
    BY <1>1, <1>2 DEF TypeInv, Filled, WellFormed
  <2> QED BY <1>1, <1>2, <1>5, <1>9, <2>1 DEF TypeInv
<1>11. OnlyFailedLookupsMissing'
  BY <1>1, PublishedKept DEF IInv
<1> QED BY <1>1, <1>2, <1>3, <1>9, <1>10, <1>11 DEF IInv, LoaderInv

(* When there is nothing left to do, every call has ended.                 *)
LEMMA PublishInv == IInv /\ Publish => IInv'
<1> SUFFICES ASSUME IInv, Publish PROVE IInv'
  OBVIOUS
<1>1. /\ lpc = "load" /\ todo = {} /\ job = Nil /\ vendors' = vcmap
      /\ lpc' \in {"sleep", "ended"} /\ UNCHANGED <<konf, vcmap, todo, job, menu>>
  BY DEF Publish
<1>2. TypeInv /\ LoaderInv /\ konf \in Konfs /\ Filled(vcmap)
  BY <1>1 DEF IInv, TypeInv
<1>3. \A v : LastKeys(v)' = LastKeys(v)
  BY <1>1, SameKonf
<1>4. \A v, p : Elements(v, p)' = Elements(v, p)
  BY <1>1, SameKonf DEF Elements, ToSet
<1>5. ASSUME NEW v \in konf.vendors, NEW p \in LastKeys(v), NEW q \in Elements(v, p)
      PROVE  IF konf.resolve[v] /\ Last(q) \in DOMAIN Answers
             THEN Addresses(vcmap[v].lists, q) \in Answers[Last(q)]
             ELSE q \in vcmap[v].lists
  <2>1. PICK s \in ToSet(List(v, p)) : q = Append(p, s)
    BY DEF Elements
  <2>2. p \in Path /\ s \in Keys
    <3>1. p \in Path /\ List(v, p) \in Path
      BY <1>2, LastKeyPaths
    <3> QED BY <3>1, ElementKeys
  <2>3. Last(q) = s
    BY <2>1, <2>2, Extended
  <2>4. Ended(v, p)
    BY <1>1 DEF Ended
  <2>5. Placed(vcmap[v].lists, v, p, s)
    BY <1>1, <1>2, <2>4 DEF LoaderInv, MapInv
  <2> QED BY <2>1, <2>3, <2>5 DEF Placed
<1>6. OnlyFailedLookupsMissing'
  BY <1>1, <1>3, <1>4, <1>5 DEF OnlyFailedLookupsMissing, Addresses
<1>7. TypeInv'
  BY <1>1, <1>2, <1>3 DEF TypeInv, Filled, WellFormed
<1>8. LoaderInv'
  BY <1>1 DEF LoaderInv
<1> QED BY <1>6, <1>7, <1>8 DEF IInv

LEMMA WakeInv == IInv /\ Wake => IInv'
<1> SUFFICES ASSUME IInv, Wake PROVE IInv'
  OBVIOUS
<1>1. lpc = "sleep" /\ lpc' = "begin" /\ UNCHANGED <<konf, vendors, vcmap, todo, job, menu>>
  BY DEF Wake
<1>2. todo = {} /\ job = Nil /\ TypeInv
  BY <1>1 DEF IInv, LoaderInv
<1>3. \A v : LastKeys(v)' = LastKeys(v)
  BY <1>1, SameKonf
<1>4. TypeInv'
  BY <1>1, <1>2, <1>3 DEF TypeInv, Filled, WellFormed
<1>5. LoaderInv'
  BY <1>1, <1>2 DEF LoaderInv
<1>6. OnlyFailedLookupsMissing'
  BY <1>1, PublishedKept DEF IInv
<1> QED BY <1>4, <1>5, <1>6 DEF IInv

(* A menu is rendered, or nothing happens.                                 *)
LEMMA ReaderInv ==
  ASSUME IInv, UNCHANGED <<konf, loader>>, \A link \in menu' : link.v \in konf.vendors
  PROVE  IInv'
<1>1. UNCHANGED <<konf, vendors, vcmap, lpc, todo, job>>
  BY DEF loader
<1>2. TypeInv /\ LoaderInv
  BY DEF IInv
<1>3. /\ \A v : LastKeys(v)' = LastKeys(v)
      /\ \A v, p : List(v, p)' = List(v, p) /\ ToSet(List(v, p))' = ToSet(List(v, p))
  BY <1>1, SameKonf DEF ToSet
<1>4. TypeInv'
  BY <1>1, <1>2, <1>3 DEF TypeInv, Filled, WellFormed
<1>5. LoaderInv'
  <2>1. \A v, q : Ended(v, q)' <=> Ended(v, q)
    BY <1>1, <1>3 DEF Ended
  <2>2. \A v \in konf.vendors : MapInv(v) => MapInv(v)'
    BY <1>1, <2>1, MapKept
  <2>3. JobInv => JobInv'
    BY <1>1, <1>3 DEF JobInv, Placed, Addresses
  <2> QED BY <1>1, <1>2, <2>2, <2>3 DEF LoaderInv
<1>6. OnlyFailedLookupsMissing'
  BY <1>1, PublishedKept DEF IInv
<1> QED BY <1>4, <1>5, <1>6 DEF IInv

LEMMA NextIInv == IInv /\ [LoaderNext]_loaderVars => IInv'
<1> SUFFICES ASSUME IInv, [LoaderNext]_loaderVars PROVE IInv'
  OBVIOUS
<1>1. CASE LoaderStep
  <2>1. ASSUME NEW c \in todo, LoadPlain(c.v, c.p) \/ BeginResolve(c.v, c.p) PROVE IInv'
    <3>1. LoadPlain(c.v, c.p) => IInv'
      BY LoadPlainInv
    <3>2. BeginResolve(c.v, c.p) => IInv'
      BY BeginResolveInv
    <3> QED BY <2>1, <3>1, <3>2
  <2> QED BY <1>1, <2>1, BeginLoadInv, AddAddressInv, LookupInv, EndResolveInv, PublishInv, WakeInv
       DEF LoaderStep
<1>2. CASE RenderMenu
  <2>1. \A link \in menu' : link.v \in konf.vendors
    BY <1>2 DEF RenderMenu
  <2> QED BY <1>2, <2>1, ReaderInv DEF RenderMenu
<1>3. CASE UNCHANGED loaderVars
  <2>1. UNCHANGED <<konf, loader, menu>>
    BY <1>3 DEF loaderVars
  <2>2. \A link \in menu' : link.v \in konf.vendors
    BY <2>1 DEF IInv, TypeInv
  <2> QED BY <2>1, <2>2, ReaderInv
<1> QED BY <1>1, <1>2, <1>3 DEF LoaderNext

LEMMA AlwaysIInv == LoaderSpec => []IInv
BY InitIInv, NextIInv, PTL DEF LoaderSpec

-----------------------------------------------------------------------------
(* The maps that are built and published are well formed: whatever is in   *)
(* them hangs below an entry, and the calls still to be made are of keys   *)
(* of the last level (vendor.go LoadVendors, buildServerMap, loadServers). *)
THEOREM LoaderTypeCorrect == LoaderSpec => []LoaderTypeOK
<1>1. IInv => LoaderTypeOK
  BY TypeOK DEF IInv
<1> QED BY <1>1, AlwaysIInv, PTL

(* Where the calls of loadServers stand determines what the map holds: the *)
(* inductive invariant (vendor.go loadServers).                            *)
THEOREM LoaderInvariant == LoaderSpec => []LoaderInv
<1>1. IInv => LoaderInv
  BY DEF IInv
<1> QED BY <1>1, AlwaysIInv, PTL

(* What is published is complete but for failed lookups, for any number of *)
(* vendors, levels and servers (vendor.go loadServers, buildServerMap;     *)
(* main.go loadVendors).                                                   *)
THEOREM LoaderComplete == LoaderSpec => []OnlyFailedLookupsMissing
<1>1. IInv => OnlyFailedLookupsMissing
  BY DEF IInv
<1> QED BY <1>1, AlwaysIInv, PTL
=============================================================================
