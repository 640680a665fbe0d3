---------------------------- MODULE VendorLoader ----------------------------
(***************************************************************************)
(* loadVendors and the menu: the goroutine that turns the configuration    *)
(* into one ServerMap per vendor, one DNS lookup at a time, and publishes  *)
(* them in GS.Vendors (main.go, vendor.go), and the requests that render   *)
(* the menu from it and look the chosen exit up (servermap.go).            *)
(*                                                                         *)
(* A key is a name of a level, a host or an address, and a path is a       *)
(* sequence of keys.  A ServerMap is given by its paths: to every Map      *)
(* entry, to every List element, and to the nodes with LinkKeys set.       *)
(***************************************************************************)
EXTENDS Integers, SequencesExt

CONSTANTS
  Konfs,    \* configurations the program may have been started with
  Answers,  \* for each host name, the answers LookupHost may give: a set of
            \* addresses, empty when the lookup fails
  Nil       \* no vendors are loaded; no call is in progress

Keys  == UNION {k.names : k \in Konfs}
Path  == Seq(Keys)

(* A configuration is read once; what it says of a vendor is a number of   *)
(* levels and lists of keys, each at a path of keys.                       *)
ASSUME KonfAssumption ==
  \A k \in Konfs :
    /\ k.refresh \in Int
    /\ \A v \in k.vendors :
         /\ k.levels[v] \in Nat
         /\ \A p \in DOMAIN k.servers[v] :
              p \in Seq(k.names) /\ k.servers[v][p] \in Seq(k.names)

ASSUME AnswersAssumption == \A s \in DOMAIN Answers : Answers[s] \subseteq SUBSET Keys

(* A ServerMap; and the loadServers calls with DNS resolution: what is     *)
(* known of one at any time.                                               *)
Maps == [maps : SUBSET Path, lists : SUBSET Path, links : SUBSET Path]

Jobs == [v : UNION {k.vendors : k \in Konfs}, p : Path, rest : Path,
         maps : SUBSET Path, lists : SUBSET Path]

ASSUME NilAssumption ==
  /\ Nil \notin Jobs
  /\ \A k \in Konfs :
       Nil \notin [k.vendors -> Maps] \cup [k.vendors -> SUBSET k.names]

VARIABLES
  konf,     \* the configuration
  vendors,  \* GS.Vendors: for each vendor its ServerMap
  vcmap,    \* the map LoadVendors is building
  lpc,      \* what the goroutine is doing
  todo,     \* calls of loadServers still to be made: vendor and key path
  job,      \* the loadServers call in progress, with resolve
  menu      \* the links of a menu someone has before them

loader == <<vendors, vcmap, lpc, todo, job>>
loaderVars == <<konf, loader, menu>>

EmptyMap == [maps |-> {}, lists |-> {}, links |-> {}]

(* The configuration of vendor v: servers maps the path of each list to    *)
(* its elements.                                                           *)
Levels(v)  == konf.levels[v]
Paths(v)   == DOMAIN konf.servers[v]
List(v, p) == IF p \in Paths(v) THEN konf.servers[v][p] ELSE << >>

(* The paths that nested calls of Konf.MapKeys reach after n levels.       *)
KeyPaths(v, n) == {SubSeq(q, 1, n) : q \in {r \in Paths(v) : Len(r) >= n}}

(* Mutant: the level below the vendor is not attached.                     *)
InnerKeysBelow(v) == UNION {KeyPaths(v, n) : n \in 2 .. Levels(v) - 1}

(* buildServerMap attaches a new map for every key above the last level,   *)
(* and has loadServers called for every key of the last; without levels    *)
(* loadServers is called once, without a key.                              *)
InnerKeys(v) == UNION {KeyPaths(v, n) : n \in 1 .. Levels(v) - 1}

LastKeys(v)  == IF Levels(v) = 0 THEN {<< >>} ELSE KeyPaths(v, Levels(v))

WellFormed(m) ==
  /\ m.links \subseteq m.maps
  /\ \A q \in m.maps \cup m.lists : Front(q) \in m.maps \cup {<< >>}

LoaderTypeOK ==
  /\ konf \in Konfs
  /\ \A c \in {vendors, vcmap} \ {Nil} :
       DOMAIN c = konf.vendors /\ \A v \in konf.vendors : WellFormed(c[v])
  /\ lpc \in {"begin", "load", "sleep", "ended"}
  /\ \A c \in todo : c.v \in konf.vendors /\ c.p \in LastKeys(c.v)
  /\ job # Nil => job.v \in konf.vendors /\ job.p \in LastKeys(job.v)
  /\ \A link \in menu : link.v \in konf.vendors

LoaderInit ==
  /\ konf \in Konfs
  /\ vendors = Nil /\ vcmap = Nil
  /\ lpc = "begin"
  /\ todo = {} /\ job = Nil
  /\ menu = {}

-----------------------------------------------------------------------------
(* LoadVendors.  Each call of loadServers fills a subtree of its own, so   *)
(* the order of the calls does not matter.                                 *)

(* Mutant: the map is published before it is filled.                       *)
BeginLoadInPlace ==
  /\ lpc = "begin"
  /\ vcmap' = [v \in konf.vendors |-> [EmptyMap EXCEPT !.maps = InnerKeys(v)]]
  /\ vendors' = vcmap'
  /\ todo' = UNION {{[v |-> v, p |-> p] : p \in LastKeys(v)} : v \in konf.vendors}
  /\ lpc' = "load"
  /\ UNCHANGED <<konf, job, menu>>

BeginLoad ==
  /\ lpc = "begin"
  /\ vcmap' = [v \in konf.vendors |-> [EmptyMap EXCEPT !.maps = InnerKeys(v)]]
  /\ todo' = UNION {{[v |-> v, p |-> p] : p \in LastKeys(v)} : v \in konf.vendors}
  /\ lpc' = "load"
  /\ UNCHANGED <<konf, vendors, job, menu>>

(* What a loadServers call adds to v: with a key, a Map entry of its own.  *)
Attach(v, p, maps, lists, links) ==
  LET key == {p} \ {<< >>} IN
  vcmap' = [vcmap EXCEPT ![v] =
    [maps  |-> @.maps \cup key \cup maps,
     lists |-> @.lists \cup lists,
     links |-> @.links \cup (key \cap links)]]

Elements(v, p) == {Append(p, s) : s \in ToSet(List(v, p))}

(* loadServers with DNS resolution off.                                    *)
LoadPlain(v, p) ==
  /\ job = Nil /\ [v |-> v, p |-> p] \in todo /\ ~konf.resolve[v]
  /\ Attach(v, p, {}, Elements(v, p), {})
  /\ todo' = todo \ {[v |-> v, p |-> p]}
  /\ UNCHANGED <<konf, vendors, lpc, job, menu>>

(* loadServers with DNS resolution: a map l is filled one server at a time *)
(* and then attached.                                                      *)
BeginResolve(v, p) ==
  /\ job = Nil /\ [v |-> v, p |-> p] \in todo /\ konf.resolve[v]
  /\ job' = [v |-> v, p |-> p, rest |-> List(v, p), maps |-> {}, lists |-> {}]
  /\ todo' = todo \ {[v |-> v, p |-> p]}
  /\ UNCHANGED <<konf, vendors, vcmap, lpc, menu>>

Resolving == job # Nil /\ job.rest # << >>
Server    == Head(job.rest)

AddAddress ==
  /\ Resolving /\ Server \notin DOMAIN Answers
  /\ job' = [job EXCEPT !.lists = @ \cup {Append(job.p, Server)}, !.rest = Tail(@)]
  /\ UNCHANGED <<konf, vendors, vcmap, lpc, todo, menu>>

(* A host becomes a Map entry with its addresses, in place of an earlier   *)
(* one of that name; one whose lookup fails is left out.                   *)
AddHost(addrs) ==
  LET host == Append(job.p, Server) IN
  job' = [job EXCEPT
    !.maps  = @ \cup {host},
    !.lists = {q \in @ : Front(q) # host} \cup {Append(host, a) : a \in addrs},
    !.rest  = Tail(@)]

(* Mutants: a failed lookup ends the call; it ends the goroutine.          *)
LookupGivesUp ==
  /\ Resolving /\ Server \in DOMAIN Answers
  /\ \E addrs \in Answers[Server] :
       \/ addrs = {} /\ job' = [job EXCEPT !.rest = << >>]
       \/ addrs # {} /\ AddHost(addrs)
  /\ UNCHANGED <<konf, vendors, vcmap, lpc, todo, menu>>

LookupEndsLoader ==
  /\ Resolving /\ Server \in DOMAIN Answers
  /\ \E addrs \in Answers[Server] :
       \/ addrs = {} /\ job' = Nil /\ todo' = {} /\ lpc' = "ended"
       \/ addrs # {} /\ AddHost(addrs) /\ UNCHANGED <<todo, lpc>>
  /\ UNCHANGED <<konf, vendors, vcmap, menu>>

Lookup ==
  /\ Resolving /\ Server \in DOMAIN Answers
  /\ \E addrs \in Answers[Server] :
       \/ addrs = {} /\ job' = [job EXCEPT !.rest = Tail(@)]
       \/ addrs # {} /\ AddHost(addrs)
  /\ UNCHANGED <<konf, vendors, vcmap, lpc, todo, menu>>

EndResolve ==
  /\ job # Nil /\ job.rest = << >>
  /\ Attach(job.v, job.p, job.maps, job.lists, {job.p})
  /\ job' = Nil
  /\ UNCHANGED <<konf, vendors, lpc, todo, menu>>

(* Mutant: every dns_refresh_minutes is honoured.                          *)
PublishAgain ==
  /\ lpc = "load" /\ todo = {} /\ job = Nil
  /\ vendors' = vcmap
  /\ lpc' = IF konf.refresh > 0 THEN "sleep" ELSE "ended"
  /\ UNCHANGED <<konf, vcmap, todo, job, menu>>

(* loadVendors: goes on only with dns_refresh_minutes of at least 5.       *)
Publish ==
  /\ lpc = "load" /\ todo = {} /\ job = Nil
  /\ vendors' = vcmap
  /\ lpc' = IF konf.refresh >= 5 THEN "sleep" ELSE "ended"
  /\ UNCHANGED <<konf, vcmap, todo, job, menu>>

Wake ==
  /\ lpc = "sleep"
  /\ lpc' = "begin"
  /\ UNCHANGED <<konf, vendors, vcmap, todo, job, menu>>

LoaderStep ==
  \/ BeginLoad
  \/ \E c \in todo : LoadPlain(c.v, c.p) \/ BeginResolve(c.v, c.p)
  \/ AddAddress \/ Lookup \/ EndResolve
  \/ Publish \/ Wake

-----------------------------------------------------------------------------
(* The readers of a ServerMap.                                             *)

(* The paths FindServerMapEntry may return: a node's list comes before its *)
(* map, a key before what is below it; the order of the keys is open.      *)
(* Mutant: only lists are searched.                                        *)
FindInLists(m, value) ==
  LET Below(p) == {q \in m.maps : Front(q) = p}
      find[p \in m.maps \cup {<< >>}] ==
        IF Append(p, value) \in m.lists THEN {<<value>>}
        ELSE UNION {{<<Last(q)>> \o r : r \in find[q]} : q \in Below(p)}
  IN  find[<< >>]

FindServerMapEntry(m, value) ==
  LET Below(p) == {q \in m.maps : Front(q) = p}
      find[p \in m.maps \cup {<< >>}] ==
        IF Append(p, value) \in m.lists THEN {<<value>>}
        ELSE UNION {IF Last(q) = value THEN {<<value>>}
                    ELSE {<<Last(q)>> \o r : r \in find[q]} : q \in Below(p)}
  IN  find[<< >>]

(* GenHTML: the elements of every list are links, and the keys of a map    *)
(* with LinkKeys.                                                          *)
Links(m) == {Last(q) : q \in m.lists \cup {r \in m.maps : Front(r) \in m.links}}

(* SelectExit without an exit: select_exit.html over GS.Vendors, or        *)
(* "Loading vendors".                                                      *)
RenderMenu ==
  /\ menu' = IF vendors = Nil THEN {}
             ELSE UNION {{[v |-> v, e |-> e] : e \in Links(vendors[v])} : v \in konf.vendors}
  /\ UNCHANGED <<konf, loader>>

LoaderNext == LoaderStep \/ RenderMenu

(* The goroutine is scheduled, and its lookups and its sleep end.          *)
LoaderSpec == LoaderInit /\ [][LoaderNext]_loaderVars /\ WF_loaderVars(LoaderStep)

-----------------------------------------------------------------------------
(* Properties.                                                             *)

Loaded == vendors # Nil

(* In what is published every configured server has its place, and a       *)
(* lookup that fails loses that host and nothing else (vendor.go           *)
(* loadServers, buildServerMap).                                           *)
OnlyFailedLookupsMissing ==
  Loaded => \A v \in konf.vendors : \A p \in LastKeys(v) : \A q \in Elements(v, p) :
    LET m == vendors[v]  s == Last(q) IN
    IF konf.resolve[v] /\ s \in DOMAIN Answers
    THEN {Last(r) : r \in {i \in m.lists : Front(i) = q}} \in Answers[s]
    ELSE q \in m.lists

(* Why this holds: it holds of what each call of loadServers that has      *)
(* ended put into the map, calls do not touch what others put there, and   *)
(* the one in progress has come as far as the servers it still has to look *)
(* at.  This is the inductive invariant of the proofs.                     *)
Addresses(lists, host) == {Last(i) : i \in {j \in lists : Front(j) = host}}

Placed(lists, v, p, s) ==
  IF konf.resolve[v] /\ s \in DOMAIN Answers
  THEN Addresses(lists, Append(p, s)) \in Answers[s]
  ELSE Append(p, s) \in lists

OfCall(i, p) ==
  \/ \E s \in Keys : i = Append(p, s)
  \/ \E s, a \in Keys : i = Append(Append(p, s), a)

Ended(v, p) ==
  /\ p \in LastKeys(v)
  /\ [v |-> v, p |-> p] \notin todo
  /\ job # Nil => ~(job.v = v /\ job.p = p)

MapInv(v) ==
  /\ InnerKeys(v) \subseteq vcmap[v].maps
  /\ \A i \in vcmap[v].lists : \E p \in LastKeys(v) : Ended(v, p) /\ OfCall(i, p)
  /\ \A p \in LastKeys(v) : Ended(v, p) =>
       \A s \in ToSet(List(v, p)) : Placed(vcmap[v].lists, v, p, s)

JobInv ==
  /\ konf.resolve[job.v]
  /\ [v |-> job.v, p |-> job.p] \notin todo
  /\ \A m \in job.maps : m # << >> /\ Front(m) = job.p
  /\ \A i \in job.lists : OfCall(i, job.p) /\ Front(i) \in {job.p} \cup job.maps
  /\ \A s \in ToSet(List(job.v, job.p)) :
       /\ s \in DOMAIN Answers =>
            Addresses(job.lists, Append(job.p, s)) \in Answers[s] \cup {{}}
       /\ s \in ToSet(job.rest) \/ Placed(job.lists, job.v, job.p, s)

LoaderInv ==
  /\ todo # {} \/ job # Nil => lpc = "load"
  /\ lpc = "load" => \A v \in konf.vendors : MapInv(v)
  /\ job # Nil => JobInv

(* What is found in the maps depends on where they may have entries, where *)
(* they must, and on the menu being one of the maps still published when   *)
(* they are loaded only once.  This is inductive on top of LoaderInv.      *)
Hosts(v, p) == IF konf.resolve[v] THEN ToSet(List(v, p)) \cap DOMAIN Answers ELSE {}

KeyPlaces(v) == (InnerKeys(v) \cup LastKeys(v)) \ {<< >>}

MapPlace(v, q) ==
  \/ q \in KeyPlaces(v)
  \/ \E p \in LastKeys(v) : \E s \in Hosts(v, p) : q = Append(p, s)

ListPlace(v, q) ==
  \E p \in LastKeys(v) :
    \/ \E s \in ToSet(List(v, p)) \ Hosts(v, p) : q = Append(p, s)
    \/ \E s \in Hosts(v, p) : \E a \in UNION Answers[s] : q = Append(Append(p, s), a)

InPlace(v, m) ==
  /\ \A q \in m.maps : MapPlace(v, q)
  /\ \A q \in m.lists : ListPlace(v, q)

JobPlaces ==
  job # Nil =>
    InPlace(job.v, job) /\ ToSet(job.rest) \subseteq ToSet(List(job.v, job.p))

BuiltPlaces ==
  lpc = "load" => \A v \in konf.vendors :
    /\ InPlace(v, vcmap[v])
    /\ \A p \in LastKeys(v) \ {<< >>} : Ended(v, p) => p \in vcmap[v].maps

PublishedPlaces ==
  Loaded => \A v \in konf.vendors :
    InPlace(v, vendors[v]) /\ KeyPlaces(v) \subseteq vendors[v].maps

MenuKept ==
  konf.refresh < 5 =>
    /\ Loaded => lpc = "ended"
    /\ \A link \in menu : Loaded /\ link.e \in Links(vendors[link.v])

PlacesInv == JobPlaces /\ BuiltPlaces /\ PublishedPlaces /\ MenuKept

(* FindServerMapEntry finds every key and every server of a map, and       *)
(* nothing else, and the path it returns leads there: what SelectExit puts *)
(* in GS.ExitPath (servermap.go).                                          *)
FindsWhatIsThere ==
  Loaded => \A v \in konf.vendors :
    LET m == vendors[v]  nodes == m.maps \cup m.lists IN
    \A e \in konf.names :
      LET found == FindServerMapEntry(m, e) IN
      /\ found # {} <=> \E q \in nodes : Last(q) = e
      /\ \A r \in found : r \in nodes /\ Last(r) = e

(* As long as the vendors are loaded only once, as they are with           *)
(* dns_refresh_minutes below 5, every link of a menu leads to an exit that *)
(* SelectExit locates after the switch, however long the menu was open     *)
(* (main.go loadVendors, SelectExit; servermap.go GenHTML).                *)
LinksStayValid ==
  konf.refresh < 5 => \A link \in menu : FindServerMapEntry(vendors[link.v], link.e) # {}

(* The vendors do get loaded, whatever lookups fail.                       *)
VendorsGetLoaded == <>Loaded

(* Readers see nothing of how the map is built: the loader implements      *)
(* VendorCache.                                                            *)
Located(v) == {e \in konf.names : FindServerMapEntry(vendors[v], e) # {}}

Fixed(v) ==
  {Last(q) : q \in KeyPlaces(v)}
    \cup UNION {ToSet(List(v, p)) \ Hosts(v, p) : p \in LastKeys(v)}

Offers(v) ==
  Fixed(v) \cup
    UNION {Hosts(v, p) \cup UNION {UNION Answers[s] : s \in Hosts(v, p)} : p \in LastKeys(v)}

Cache == INSTANCE VendorCache WITH
  NotLoaded <- Nil,
  conf    <- [offers  |-> [v \in konf.vendors |-> Offers(v)],
              fixed   |-> [v \in konf.vendors |-> Fixed(v)],
              refresh |-> konf.refresh >= 5],
  located <- IF Loaded THEN [v \in konf.vendors |-> Located(v)] ELSE Nil

CacheSpec == Cache!CacheSpec
=============================================================================
