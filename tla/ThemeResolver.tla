----------------------------- MODULE ThemeResolver -----------------------------
(* createThemeResolver: a cache of themes, the loads in flight that callers *)
(* of the same name share, and clearing both while loads are under way.     *)
(* A load is named by its theme and by the generation it began in.          *)
EXTENDS Naturals

CONSTANTS
  Theme,     \* theme names; each has a registered loader
  None,      \* nothing cached, no load, no theme
  MaxClears  \* bound on calls of clearResolvedThemes

ASSUME ThemeResolverAssumption ==
  /\ None \notin Theme \union Nat
  /\ MaxClears \in Nat

VARIABLES
  cacheGeneration, \* how often the cache was cleared
  resolved,        \* resolved[n]: the generation whose theme n is cached
  inflight,        \* inflight[n]: the generation of the load that is shared
  loads            \* the loads that have not settled

resolverVars == <<cacheGeneration, resolved, inflight, loads>>

Generation == 0..MaxClears

ResolverInit ==
  /\ cacheGeneration = 0
  /\ resolved = [n \in Theme |-> None]
  /\ inflight = [n \in Theme |-> None]
  /\ loads = {}

(* resolveTheme for the names ns, which are not cached, in a resolver whose *)
(* loads in flight are flights and unsettled.                               *)
StartLoads(ns, flights, unsettled) ==
  LET new == {n \in ns : flights[n] = None} IN
  /\ inflight' = [n \in Theme |->
                    IF n \in new THEN cacheGeneration ELSE flights[n]]
  /\ loads' = unsettled \union {<<n, cacheGeneration>> : n \in new}

(* The load that resolveTheme gives for n, if n is not cached. *)
LoadOf(n) == IF inflight[n] = None THEN cacheGeneration ELSE inflight[n]

(* A load settles: only the load that is shared is no longer shared, and    *)
(* only the theme of a load of this generation is cached.                   *)
Landed(n, g) == [inflight EXCEPT ![n] = IF @ = g THEN None ELSE @]

(* Mutant: whatever cycle it is of, the theme of a load is cached. *)
CachedAlways(n, g) == [resolved EXCEPT ![n] = g]

Cached(n, g) ==
  [resolved EXCEPT ![n] = IF g = cacheGeneration THEN g ELSE @]

ClearResolvedThemes ==
  /\ cacheGeneration < MaxClears
  /\ cacheGeneration' = cacheGeneration + 1
  /\ resolved' = [n \in Theme |-> None]
  /\ inflight' = [n \in Theme |-> None]
  /\ UNCHANGED loads

SeedResolvedTheme(n) ==
  /\ resolved' = [resolved EXCEPT ![n] = cacheGeneration]
  /\ UNCHANGED <<cacheGeneration, inflight, loads>>

ResolverTypeOK ==
  /\ cacheGeneration \in Generation
  /\ resolved \in [Theme -> Generation \union {None}]
  /\ inflight \in [Theme -> Generation \union {None}]
  /\ loads \subseteq Theme \X Generation

(* A load that began before a clear never fills the cache that was cleared, *)
(* and what callers share is a load of this cycle that is still running:    *)
(* there is one for a name and a cycle.                                     *)
CacheIsFresh ==
  \A n \in Theme :
    /\ resolved[n] \in {None, cacheGeneration}
    /\ inflight[n] \in {None, cacheGeneration}
    /\ <<n, cacheGeneration>> \in loads <=> inflight[n] = cacheGeneration
=============================================================================
