---------------------------- MODULE VendorCache ----------------------------
(***************************************************************************)
(* What loadVendors promises its readers (main.go): GS.Vendors goes from   *)
(* one complete set of vendors to the next in one step, and only the exits *)
(* that come out of a lookup may come and go.                              *)
(***************************************************************************)
VARIABLES
  conf,    \* offers[v]: every exit of v there may be; fixed[v]: those that
           \* need no lookup; refresh: are the vendors loaded again?
  located  \* located[v]: the exits that can be located in v

CONSTANT NotLoaded

CacheInit == located = NotLoaded

CacheLoad ==
  /\ located = NotLoaded \/ conf.refresh
  /\ located' # NotLoaded
  /\ DOMAIN located' = DOMAIN conf.offers
  /\ \A v \in DOMAIN conf.offers :
       /\ conf.fixed[v] \subseteq located'[v]
       /\ located'[v] \subseteq conf.offers[v]
  /\ UNCHANGED conf

cacheVars == <<conf, located>>

CacheSpec == CacheInit /\ [][CacheLoad]_cacheVars
=============================================================================
