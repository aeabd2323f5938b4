---------------------------- MODULE ThemeController ----------------------------
(* createThemeController: the applied selection and its resolved theme, the *)
(* change that waits for a theme to load, and what is persisted, while the  *)
(* user chooses on, the system's color scheme flips and loads settle or     *)
(* fail in any order.                                                       *)
EXTENDS ThemeResolver

CONSTANTS
  InitialSelection, \* the selection the controller begins with
  PreloadInactive,  \* the option preloadInactive
  MaxResolutions,   \* bound on activeResolutionId
  MaxFailures       \* bound on loads that fail

Scheme == {"dark", "light"}
Mode == Scheme \union {"system"}
Selection == [dark: Theme, light: Theme, mode: Mode]
State == [dark: Theme, light: Theme, mode: Mode, scheme: Scheme]
Patch == [dark: Theme \union {None}, light: Theme \union {None},
          mode: Mode \union {None}, scheme: Scheme \union {None}]

ASSUME ThemeControllerAssumption ==
  /\ InitialSelection \in Selection
  /\ None \notin Mode
  /\ PreloadInactive \in BOOLEAN
  /\ MaxResolutions \in Nat \ {0} /\ MaxFailures \in Nat

VARIABLES
  applied,       \* the selection and scheme of the published state
  resolvedTheme, \* the theme of the published state
  pending,       \* pendingThemeResolution: is a theme waited for
  error,         \* resolutionError: did the last resolution fail
  patch,         \* pendingSelectionPatch: what is not yet applied
  activeResolutionId,
  attempts,      \* resolutions whose load has not settled
  saved,         \* the persisted selection
  system,        \* the system's color scheme
  chosen,        \* what the user chose, and was not told has failed
  failures       \* the bounded counter of failures

(* History: what the code lets happen while a change waits, and what the    *)
(* properties below except.                                                 *)
VARIABLES
  renamed,  \* the shown scheme was given a name while the other one waits
  outrun,   \* schemes given a name at once while an earlier one waits
  overtaken \* what the user chose, and waited when the system flipped

historyVars == <<renamed, outrun, overtaken>>
controllerVars == <<applied, resolvedTheme, pending, error, patch,
                    activeResolutionId, attempts, saved, system, chosen,
                    failures, historyVars>>
vars == <<resolverVars, controllerVars>>

UserField == {"dark", "light", "mode"}
Field == UserField \union {"scheme"}
NoPatch == [f \in Field |-> None]
Over(s, p) == [f \in Field |-> IF p[f] = None THEN s[f] ELSE p[f]]
Only(f, x) == [NoPatch EXCEPT ![f] = x]

ResolveColorScheme(mode, sys) == IF mode = "system" THEN sys ELSE mode

ActiveThemeName(s) == s[s.scheme]
Other(scheme) == IF scheme = "dark" THEN "light" ELSE "dark"
IntendedState == Over(applied, patch)
Choice(s) == [dark |-> s.dark, light |-> s.light, mode |-> s.mode]

(* The inactive theme of s, when it is to be loaded ahead of its use. *)
Preloads(s, cache) ==
  LET n == s[Other(s.scheme)] IN
  IF PreloadInactive /\ n # ActiveThemeName(s) /\ cache[n] = None
  THEN {n} ELSE {}

(* s and its theme are published, and nothing waits any more. *)
Publish(s, persist) ==
  /\ applied' = s
  /\ resolvedTheme' = ActiveThemeName(s)
  /\ pending' = FALSE /\ error' = FALSE
  /\ patch' = NoPatch
  /\ saved' = IF persist THEN Choice(s) ELSE saved
  /\ renamed' = FALSE

(* A change p of the user, or of the system, is made: a change of the       *)
(* system takes along what the user chose and still waits.                  *)
Overtaken(persist) ==
  IF persist THEN overtaken
  ELSE overtaken \union {f \in UserField : patch[f] # None}
Again(p) == outrun \ {f \in Scheme : p[f] # None}

(* Mutant: the selection is applied before its theme is there. *)
ResolveActiveEagerly(p, persist) ==
  LET next == Over(applied, Over(patch, p))
      n == ActiveThemeName(next)
  IN /\ activeResolutionId < MaxResolutions
     /\ activeResolutionId' = activeResolutionId + 1
     /\ applied' = next
     /\ saved' = Choice(next)
     /\ patch' = NoPatch
     /\ pending' = (resolved[n] = None) /\ error' = FALSE
     /\ resolvedTheme' = IF resolved[n] # None THEN n ELSE resolvedTheme
     /\ attempts' = IF resolved[n] # None THEN attempts
                    ELSE attempts \union
                      {[id |-> activeResolutionId + 1, name |-> n,
                        scheme |-> next.scheme, load |-> LoadOf(n),
                        persist |-> persist]}
     /\ StartLoads(IF resolved[n] = None THEN {n} ELSE {}, inflight, loads)
     /\ UNCHANGED <<cacheGeneration, resolved, historyVars>>

(* Mutant: a later change makes the controller forget the pending one. *)
ResolveActiveAlone(p, persist) ==
  LET next == Over(applied, p)
      n == ActiveThemeName(next)
  IN /\ activeResolutionId < MaxResolutions
     /\ activeResolutionId' = activeResolutionId + 1
     /\ IF resolved[n] # None
        THEN /\ Publish(next, persist)
             /\ StartLoads({}, inflight, loads)
             /\ UNCHANGED <<attempts, outrun, overtaken>>
        ELSE /\ pending' = TRUE /\ error' = FALSE
             /\ patch' = p
             /\ attempts' = attempts \union
                  {[id |-> activeResolutionId + 1, name |-> n,
                    scheme |-> next.scheme, load |-> LoadOf(n),
                    persist |-> persist]}
             /\ StartLoads({n}, inflight, loads)
             /\ UNCHANGED <<applied, resolvedTheme, saved, historyVars>>
     /\ UNCHANGED <<cacheGeneration, resolved>>

(* resolveActive: at once from the cache, or when the theme is loaded. *)
ResolveActive(p, persist) ==
  LET next == Over(applied, Over(patch, p))
      n == ActiveThemeName(next)
  IN /\ activeResolutionId < MaxResolutions
     /\ activeResolutionId' = activeResolutionId + 1
     /\ IF resolved[n] # None
        THEN /\ Publish(next, persist)
             /\ StartLoads(Preloads(next, resolved), inflight, loads)
             /\ overtaken' = IF persist THEN {} ELSE Overtaken(persist)
             /\ UNCHANGED attempts
        ELSE /\ pending' = TRUE /\ error' = FALSE
             /\ patch' = Over(patch, p)
             /\ attempts' = attempts \union
                  {[id |-> activeResolutionId + 1, name |-> n,
                    scheme |-> next.scheme, load |-> LoadOf(n),
                    persist |-> persist]}
             /\ StartLoads({n}, inflight, loads)
             /\ overtaken' = Overtaken(persist)
             /\ UNCHANGED <<applied, resolvedTheme, saved, renamed>>
     /\ outrun' = Again(p)
     /\ UNCHANGED <<cacheGeneration, resolved>>

(* The controller is made: nothing is cached, and the active theme is       *)
(* asked for.                                                               *)
Init ==
  LET scheme == ResolveColorScheme(InitialSelection.mode, system)
      n == InitialSelection[scheme]
  IN /\ system \in Scheme
     /\ cacheGeneration = 0
     /\ resolved = [t \in Theme |-> None]
     /\ inflight = [t \in Theme |-> IF t = n THEN 0 ELSE None]
     /\ loads = {<<n, 0>>}
     /\ applied = [f \in Field |-> IF f = "scheme" THEN scheme
                                   ELSE InitialSelection[f]]
     /\ resolvedTheme = None
     /\ pending = TRUE /\ error = FALSE
     /\ patch = NoPatch
     /\ activeResolutionId = 1
     /\ attempts = {[id |-> 1, name |-> n, scheme |-> scheme, load |-> 0,
                     persist |-> FALSE]}
     /\ saved = InitialSelection
     /\ chosen = InitialSelection
     /\ failures = 0
     /\ renamed = FALSE /\ outrun = {} /\ overtaken = {}

SetColorMode(m) ==
  /\ IntendedState.mode # m
  /\ ResolveActive(
       [Only("mode", m) EXCEPT !.scheme = ResolveColorScheme(m, system)], TRUE)
  /\ chosen' = [chosen EXCEPT !.mode = m]
  /\ UNCHANGED <<system, failures>>

(* updateInactiveThemeName *)
UpdateInactiveThemeName(scheme, n) ==
  LET next == [applied EXCEPT ![scheme] = n] IN
  /\ applied' = next
  /\ error' = FALSE
  /\ saved' = Choice(next)
  /\ StartLoads(Preloads(next, resolved), inflight, loads)
  /\ renamed' = (renamed \/ scheme = applied.scheme)
  /\ outrun' = IF patch[scheme] # None THEN outrun \union {scheme}
               ELSE outrun \ {scheme}
  /\ UNCHANGED <<cacheGeneration, resolved, resolvedTheme, pending, patch,
                 activeResolutionId, attempts, overtaken>>

SetThemeNameForScheme(scheme, n) ==
  /\ IntendedState[scheme] # n
  /\ IF IntendedState.scheme = scheme THEN ResolveActive(Only(scheme, n), TRUE)
     ELSE UpdateInactiveThemeName(scheme, n)
  /\ chosen' = [chosen EXCEPT ![scheme] = n]
  /\ UNCHANGED <<system, failures>>

(* Mutant: the flip is compared with the scheme that is shown. *)
SystemFlipsShown ==
  /\ system' = Other(system)
  /\ IF IntendedState.mode = "system" /\ applied.scheme # Other(system)
     THEN ResolveActive(Only("scheme", Other(system)), FALSE)
     ELSE UNCHANGED <<resolverVars, applied, resolvedTheme, pending, error,
                      patch, activeResolutionId, attempts, saved, historyVars>>
  /\ UNCHANGED <<chosen, failures>>

(* The system's scheme flips, and maybeUpdateSystemColorScheme. *)
SystemFlips ==
  /\ system' = Other(system)
  /\ IF /\ IntendedState.mode = "system"
        /\ IntendedState.scheme # Other(system)
     THEN ResolveActive(Only("scheme", Other(system)), FALSE)
     ELSE UNCHANGED <<resolverVars, applied, resolvedTheme, pending, error,
                      patch, activeResolutionId, attempts, saved, historyVars>>
  /\ UNCHANGED <<chosen, failures>>

(* The attempts that wait for load <<n, g>>, and those among them that are  *)
(* not superseded.                                                          *)
Waiting(n, g) == {a \in attempts : a.name = n /\ a.load = g}
Current(n, g) == {a \in Waiting(n, g) : a.id = activeResolutionId}

(* Mutant: a selection whose theme had to be loaded is not saved. *)
LoadSucceedsUnsaved(n, g) ==
  /\ <<n, g>> \in loads
  /\ resolved' = Cached(n, g)
  /\ attempts' = attempts \ Waiting(n, g)
  /\ StartLoads({}, Landed(n, g), loads \ {<<n, g>>})
  /\ IF Current(n, g) = {}
     THEN UNCHANGED <<applied, resolvedTheme, pending, error, patch, saved,
                      historyVars>>
     ELSE Publish(IntendedState, FALSE) /\ UNCHANGED <<outrun, overtaken>>
  /\ UNCHANGED <<cacheGeneration, activeResolutionId, system, chosen, failures>>

LoadSucceeds(n, g) ==
  /\ <<n, g>> \in loads
  /\ resolved' = Cached(n, g)
  /\ attempts' = attempts \ Waiting(n, g)
  /\ LET useful == {a \in Current(n, g) :
                      /\ IntendedState.scheme = a.scheme
                      /\ ActiveThemeName(IntendedState) = n}
     IN IF useful = {}
        THEN /\ StartLoads({}, Landed(n, g), loads \ {<<n, g>>})
             /\ UNCHANGED <<applied, resolvedTheme, pending, error, patch,
                            saved, historyVars>>
        ELSE /\ Publish(IntendedState, \E a \in useful : a.persist)
             /\ overtaken' = IF \E a \in useful : a.persist THEN {}
                             ELSE overtaken
             /\ UNCHANGED outrun
             /\ StartLoads(Preloads(IntendedState, Cached(n, g)),
                           Landed(n, g), loads \ {<<n, g>>})
  /\ UNCHANGED <<cacheGeneration, activeResolutionId, system, chosen, failures>>

(* Mutant: only the current attempt is told that the load failed. *)
LoadFailsForOne(n, g) ==
  /\ <<n, g>> \in loads /\ failures < MaxFailures
  /\ failures' = failures + 1
  /\ attempts' = attempts \ Current(n, g)
  /\ StartLoads({}, Landed(n, g), loads \ {<<n, g>>})
  /\ IF Current(n, g) = {} THEN UNCHANGED <<pending, error, patch, chosen, outrun>>
     ELSE /\ pending' = FALSE /\ error' = TRUE
          /\ patch' = NoPatch
          /\ chosen' = Choice(applied) /\ outrun' = {}
  /\ UNCHANGED <<cacheGeneration, resolved, applied, resolvedTheme,
                 activeResolutionId, saved, system, renamed, overtaken>>

(* Mutant: the failure is recorded, and the change still waits. *)
LoadFailsPending(n, g) ==
  /\ <<n, g>> \in loads /\ failures < MaxFailures
  /\ failures' = failures + 1
  /\ attempts' = attempts \ Waiting(n, g)
  /\ StartLoads({}, Landed(n, g), loads \ {<<n, g>>})
  /\ error' = (Current(n, g) # {} \/ error)
  /\ UNCHANGED <<cacheGeneration, resolved, applied, resolvedTheme, pending,
                 patch, chosen, activeResolutionId, saved, system, historyVars>>

(* The change that waited is dropped, and the user told of it. *)
LoadFails(n, g) ==
  /\ <<n, g>> \in loads /\ failures < MaxFailures
  /\ failures' = failures + 1
  /\ attempts' = attempts \ Waiting(n, g)
  /\ StartLoads({}, Landed(n, g), loads \ {<<n, g>>})
  /\ IF Current(n, g) = {} THEN UNCHANGED <<pending, error, patch, chosen, outrun>>
     ELSE /\ pending' = FALSE /\ error' = TRUE
          /\ patch' = NoPatch
          /\ chosen' = Choice(applied) /\ outrun' = {}
  /\ UNCHANGED <<cacheGeneration, resolved, applied, resolvedTheme,
                 activeResolutionId, saved, system, renamed, overtaken>>

(* The resolver is shared with other owners. *)
Clear == ClearResolvedThemes /\ UNCHANGED controllerVars
Seed(n) == SeedResolvedTheme(n) /\ UNCHANGED controllerVars

LoadSettles(n, g) == LoadSucceeds(n, g) \/ LoadFails(n, g)

Next ==
  \/ \E m \in Mode : SetColorMode(m)
  \/ \E scheme \in Scheme, n \in Theme : SetThemeNameForScheme(scheme, n)
  \/ SystemFlips
  \/ \E n \in Theme, g \in Generation : LoadSettles(n, g)
  \/ Clear
  \/ \E n \in Theme : Seed(n)

(* A load settles sooner or later. *)
Fairness ==
  \A n \in Theme, g \in Generation : WF_vars(LoadSettles(n, g))

Spec == Init /\ [][Next]_vars
FairSpec == Spec /\ Fairness

-----------------------------------------------------------------------------
(* Properties. *)

(* Every variable holds a value of its type; an attempt waits for a load    *)
(* that has not settled.                                                    *)
TypeOK ==
  /\ ResolverTypeOK
  /\ \A a \in attempts : <<a.name, a.load>> \in loads
  /\ applied \in State
  /\ resolvedTheme \in Theme \union {None}
  /\ pending \in BOOLEAN /\ error \in BOOLEAN
  /\ patch \in Patch
  /\ activeResolutionId \in 1..MaxResolutions
  /\ attempts \subseteq [id: 1..activeResolutionId, name: Theme,
                         scheme: Scheme, load: Generation, persist: BOOLEAN]
  /\ saved \in Selection /\ chosen \in Selection
  /\ system \in Scheme
  /\ failures \in 0..MaxFailures
  /\ renamed \in BOOLEAN /\ outrun \subseteq Scheme
  /\ overtaken \subseteq UserField

(* Subscribers never see a name or a mode with the tokens of another theme  *)
(* ("Active selection changes are committed only after the theme object     *)
(* resolves"), from whatever order of choices, flips, loads and failures,   *)
(* but for one: a name for the scheme that is shown, while a change to the  *)
(* other scheme waits, is applied at once (updateInactiveThemeName).  The   *)
(* next change that is applied mends it.                                    *)
ThemeMatchesSelection ==
  ~renamed /\ resolvedTheme # None => resolvedTheme = ActiveThemeName(applied)

(* Whatever the order in which choices are made and their loads settle,     *)
(* what is applied in the end is what was chosen last for each field, but   *)
(* for a name that was applied at once while an earlier one for the same    *)
(* scheme waited: that one replaces it when it is committed.                *)
LastChoiceWins ==
  ~pending => \A f \in UserField \ outrun : applied[f] = chosen[f]

(* What is applied is what a reload of the page will find, but for what was *)
(* waiting when the system's scheme flipped: the flip carries it along, and *)
(* does not persist, so that it is not saved until another choice is.       *)
SavedIsApplied == \A f \in UserField \ overtaken : saved[f] = applied[f]

(* The scheme follows the mode and the system, whenever the system flips,   *)
(* unless a load failed.                                                    *)
SchemeFollowsSystem ==
  ~pending /\ failures = 0 =>
    applied.scheme = ResolveColorScheme(applied.mode, system)

(* No change waits for ever. *)
ResolutionSettles == []<>(~pending)
=============================================================================
