------------------------ MODULE ThemeController_proofs ------------------------
(* Theorems about ThemeController, for any themes and any bounds, over      *)
(* every order of choices, flips, loads and failures.                       *)
EXTENDS ThemeController, TLAPS

Load == Theme \X Generation
Flights == [Theme -> Generation \union {None}]

LEMMA LandedType ==
  ASSUME ResolverTypeOK, NEW n \in Theme, NEW g \in Generation
  PROVE  Landed(n, g) \in Flights /\ Cached(n, g) \in Flights
BY DEF ResolverTypeOK, Landed, Cached, Flights

LEMMA StartLoadsType ==
  ASSUME cacheGeneration \in Generation,
         NEW ns \in SUBSET Theme, NEW fs \in Flights, NEW ls \in SUBSET Load,
         StartLoads(ns, fs, ls)
  PROVE  /\ inflight' \in Flights
         /\ loads' \in SUBSET Load
         /\ ls \subseteq loads'
BY DEF StartLoads, Flights, Load

(* What a load means to the resolver: CacheIsFresh, and no load is of a     *)
(* cycle that is to come.                                                   *)
ResolverInv ==
  /\ ResolverTypeOK
  /\ CacheIsFresh
  /\ \A n \in Theme, g \in Generation :
       <<n, g>> \in loads => g <= cacheGeneration

(* Flights and unsettled loads that agree, as CacheIsFresh says. *)
Agree(fs, ls) ==
  \A n \in Theme : /\ fs[n] \in {None, cacheGeneration}
                   /\ <<n, cacheGeneration>> \in ls <=> fs[n] = cacheGeneration

LEMMA NoneNotGeneration == None \notin Theme /\ None \notin Generation
BY ThemeResolverAssumption DEF Generation

LEMMA StartLoadsAgree ==
  ASSUME cacheGeneration \in Generation,
         NEW ns \in SUBSET Theme, NEW fs \in Flights, NEW ls \in SUBSET Load,
         Agree(fs, ls), StartLoads(ns, fs, ls),
         \A n \in Theme, g \in Generation : <<n, g>> \in ls => g <= cacheGeneration
  PROVE  /\ \A n \in Theme :
              /\ inflight'[n] \in {None, cacheGeneration}
              /\ <<n, cacheGeneration>> \in loads'
                   <=> inflight'[n] = cacheGeneration
         /\ \A n \in Theme, g \in Generation :
              <<n, g>> \in loads' => g <= cacheGeneration
<1>1. cacheGeneration \in Nat
  BY ThemeResolverAssumption DEF Generation
<1>2. ASSUME NEW n \in Theme
      PROVE  /\ inflight'[n] \in {None, cacheGeneration}
             /\ <<n, cacheGeneration>> \in loads'
                  <=> inflight'[n] = cacheGeneration
  BY <1>2, NoneNotGeneration DEF StartLoads, Agree, Flights
<1>3. ASSUME NEW n \in Theme, NEW g \in Generation, <<n, g>> \in loads'
      PROVE  g <= cacheGeneration
  BY <1>1, <1>3 DEF StartLoads
<1>4. QED
  BY <1>2, <1>3

LEMMA LandedAgree ==
  ASSUME ResolverInv, NEW n \in Theme, NEW g \in Generation
  PROVE  /\ Landed(n, g) \in Flights
         /\ Agree(Landed(n, g), loads \ {<<n, g>>})
<1>1. Landed(n, g) \in Flights
  BY LandedType DEF ResolverInv
<1>2. ASSUME NEW m \in Theme
      PROVE  /\ Landed(n, g)[m] \in {None, cacheGeneration}
             /\ <<m, cacheGeneration>> \in loads \ {<<n, g>>}
                  <=> Landed(n, g)[m] = cacheGeneration
  BY <1>2, NoneNotGeneration
  DEF ResolverInv, ResolverTypeOK, CacheIsFresh, Landed
<1>3. QED
  BY <1>1, <1>2 DEF Agree

-----------------------------------------------------------------------------
(* Types. *)

LEMMA OverType ==
  ASSUME NEW s \in State, NEW p \in Patch
  PROVE  Over(s, p) \in State
BY DEF Over, State, Patch, Field, UserField

LEMMA OverPatchType ==
  ASSUME NEW p \in Patch, NEW q \in Patch
  PROVE  Over(p, q) \in Patch
BY DEF Over, Patch, Field, UserField

LEMMA NoPatchType == NoPatch \in Patch
BY DEF NoPatch, Patch, Field, UserField

LEMMA OnlyType ==
  /\ \A m \in Mode : Only("mode", m) \in Patch
  /\ \A m \in Mode, c \in Scheme :
       [Only("mode", m) EXCEPT !.scheme = c] \in Patch
  /\ \A c \in Scheme : Only("scheme", c) \in Patch
  /\ \A c \in Scheme, n \in Theme : Only(c, n) \in Patch
BY DEF Only, NoPatch, Patch, Field, UserField, Scheme

LEMMA ActiveThemeNameType ==
  ASSUME NEW s \in State
  PROVE  ActiveThemeName(s) \in Theme /\ s.scheme \in Scheme
BY DEF State, Scheme, ActiveThemeName

LEMMA ChoiceType ==
  ASSUME NEW s \in State
  PROVE  Choice(s) \in Selection
BY DEF State, Selection, Choice

LEMMA SchemeTypes ==
  /\ Scheme \subseteq Mode
  /\ \A m \in Mode, c \in Scheme : ResolveColorScheme(m, c) \in Scheme
  /\ \A c \in Scheme : Other(c) \in Scheme /\ Other(c) # c
BY DEF Scheme, Mode, ResolveColorScheme, Other

LEMMA PreloadsType ==
  ASSUME NEW s \in State, NEW cache
  PROVE  Preloads(s, cache) \in SUBSET Theme
<1>1. s[Other(s.scheme)] \in Theme
  BY DEF State, Scheme, Other
<1>2. QED
  BY <1>1 DEF Preloads

LEMMA IntendedType == ASSUME TypeOK PROVE IntendedState \in State
BY OverType DEF TypeOK, IntendedState

(* The inductive invariant for the types: attempts wait for loads, and what *)
(* is shared is a load.                                                     *)
TypeInv == TypeOK /\ ResolverInv

HistoryTyped ==
  renamed \in BOOLEAN /\ outrun \subseteq Scheme /\ overtaken \subseteq UserField

(* What Publish and a wait leave well typed. *)
LEMMA PublishType ==
  ASSUME NEW s \in State, NEW persist \in BOOLEAN, saved \in Selection,
         Publish(s, persist)
  PROVE  /\ applied' \in State /\ resolvedTheme' \in Theme
         /\ pending' = FALSE /\ error' = FALSE
         /\ patch' = NoPatch /\ patch' \in Patch
         /\ saved' \in Selection
BY ActiveThemeNameType, ChoiceType, NoPatchType DEF Publish

(* The resolver after loads are started in a consistent one. *)
LEMMA StartInConsistent ==
  ASSUME TypeInv, NEW ns \in SUBSET Theme,
         StartLoads(ns, inflight, loads),
         UNCHANGED <<cacheGeneration, resolved>>
  PROVE  ResolverInv' /\ loads \subseteq loads'
<1>1. /\ inflight \in Flights /\ loads \in SUBSET Load
      /\ cacheGeneration \in Generation /\ Agree(inflight, loads)
      /\ \A n \in Theme, g \in Generation :
           <<n, g>> \in loads => g <= cacheGeneration
  BY DEF TypeInv, TypeOK, ResolverInv, ResolverTypeOK, CacheIsFresh, Flights,
         Load, Agree
<1>2. inflight' \in Flights /\ loads' \in SUBSET Load /\ loads \subseteq loads'
  BY <1>1, StartLoadsType
<1>3. /\ \A n \in Theme :
           /\ inflight'[n] \in {None, cacheGeneration}
           /\ <<n, cacheGeneration>> \in loads'
                <=> inflight'[n] = cacheGeneration
      /\ \A n \in Theme, g \in Generation :
           <<n, g>> \in loads' => g <= cacheGeneration
  BY <1>1, StartLoadsAgree
<1>4. QED
  BY <1>2, <1>3 DEF TypeInv, TypeOK, ResolverInv, ResolverTypeOK, CacheIsFresh,
                    Flights, Load

(* The resolver after a load has settled and others are started. *)
LEMMA StartAfterLanding ==
  ASSUME TypeInv, NEW n \in Theme, NEW g \in Generation,
         NEW ns \in SUBSET Theme,
         StartLoads(ns, Landed(n, g), loads \ {<<n, g>>}),
         resolved' \in {resolved, Cached(n, g)},
         UNCHANGED cacheGeneration
  PROVE  ResolverInv' /\ loads \ {<<n, g>>} \subseteq loads'
<1>1. /\ Landed(n, g) \in Flights
      /\ Agree(Landed(n, g), loads \ {<<n, g>>})
      /\ loads \ {<<n, g>>} \in SUBSET Load
      /\ cacheGeneration \in Generation
      /\ \A m \in Theme, h \in Generation :
           <<m, h>> \in loads \ {<<n, g>>} => h <= cacheGeneration
  BY LandedAgree DEF TypeInv, TypeOK, ResolverInv, ResolverTypeOK, Load
<1>2. /\ inflight' \in Flights /\ loads' \in SUBSET Load
      /\ loads \ {<<n, g>>} \subseteq loads'
  BY <1>1, StartLoadsType
<1>3. /\ \A m \in Theme :
           /\ inflight'[m] \in {None, cacheGeneration}
           /\ <<m, cacheGeneration>> \in loads'
                <=> inflight'[m] = cacheGeneration
      /\ \A m \in Theme, h \in Generation :
           <<m, h>> \in loads' => h <= cacheGeneration
  BY <1>1, StartLoadsAgree
<1>4. /\ resolved' \in Flights
      /\ \A m \in Theme : resolved'[m] \in {None, cacheGeneration}
  <2>1. CASE resolved' = resolved
    BY <2>1 DEF TypeInv, ResolverInv, ResolverTypeOK, CacheIsFresh, Flights
  <2>2. CASE resolved' = Cached(n, g)
    <3>1. resolved' \in Flights
      BY <2>2, LandedType DEF TypeInv, ResolverInv
    <3>2. ASSUME NEW m \in Theme
          PROVE  resolved'[m] \in {None, cacheGeneration}
      BY <2>2 DEF TypeInv, ResolverInv, ResolverTypeOK, CacheIsFresh, Cached
    <3> QED BY <3>1, <3>2
  <2> QED BY <2>1, <2>2
<1>5. QED
  BY <1>1, <1>2, <1>3, <1>4 DEF ResolverInv, ResolverTypeOK, CacheIsFresh,
                                Flights, Load

(* The attempts that wait go on to wait for loads that go on. *)
AttemptsTyped(as, id, ls) ==
  /\ as \subseteq [id: 1..id, name: Theme, scheme: Scheme, load: Generation,
                   persist: BOOLEAN]
  /\ \A a \in as : <<a.name, a.load>> \in ls

LEMMA LoadOfType ==
  ASSUME TypeInv, NEW n \in Theme
  PROVE  /\ LoadOf(n) \in Generation
         /\ inflight[n] # None => <<n, LoadOf(n)>> \in loads
BY DEF TypeInv, TypeOK, ResolverInv, ResolverTypeOK, CacheIsFresh, LoadOf

LEMMA ResolveActiveType ==
  ASSUME TypeInv, NEW p \in Patch, NEW persist \in BOOLEAN,
         ResolveActive(p, persist),
         chosen' \in Selection, system' \in Scheme, UNCHANGED failures
  PROVE  TypeInv'
<1> DEFINE next == Over(applied, Over(patch, p))
           n == ActiveThemeName(next)
           a == [id |-> activeResolutionId + 1, name |-> n,
                 scheme |-> next.scheme, load |-> LoadOf(n),
                 persist |-> persist]
<1>1. /\ next \in State /\ n \in Theme /\ next.scheme \in Scheme
      /\ Over(patch, p) \in Patch
  BY OverType, OverPatchType, ActiveThemeNameType DEF TypeInv, TypeOK
<1>2. /\ activeResolutionId \in Nat
      /\ activeResolutionId' = activeResolutionId + 1
      /\ activeResolutionId' \in 1..MaxResolutions
      /\ UNCHANGED <<cacheGeneration, resolved>>
  BY ThemeControllerAssumption DEF ResolveActive, TypeInv, TypeOK
<1>3. AttemptsTyped(attempts, activeResolutionId', loads)
  BY <1>2, ThemeControllerAssumption DEF TypeInv, TypeOK, AttemptsTyped
<1>7. HistoryTyped'
  BY DEF ResolveActive, Publish, Overtaken, Again, TypeInv, TypeOK, HistoryTyped
<1>4. CASE resolved[n] # None
  <2>1. /\ Publish(next, persist)
        /\ StartLoads(Preloads(next, resolved), inflight, loads)
        /\ attempts' = attempts
    BY <1>4 DEF ResolveActive
  <2>2. /\ applied' \in State /\ resolvedTheme' \in Theme
        /\ pending' = FALSE /\ error' = FALSE
        /\ patch' \in Patch /\ saved' \in Selection
    BY <1>1, <2>1, PublishType DEF TypeInv, TypeOK
  <2>3. ResolverInv' /\ loads \subseteq loads'
    BY <1>1, <1>2, <2>1, PreloadsType, StartInConsistent
  <2>4. AttemptsTyped(attempts', activeResolutionId', loads')
    BY <1>3, <2>1, <2>3 DEF AttemptsTyped
  <2> HIDE DEF next, n
  <2>5. QED
    BY <1>2, <1>7, <2>2, <2>3, <2>4
    DEF TypeInv, TypeOK, AttemptsTyped, ResolverInv, HistoryTyped
<1>5. CASE resolved[n] = None
  <2>1. /\ pending' = TRUE /\ error' = FALSE
        /\ patch' = Over(patch, p)
        /\ attempts' = attempts \union {a}
        /\ StartLoads({n}, inflight, loads)
        /\ UNCHANGED <<applied, resolvedTheme, saved>>
    BY <1>5 DEF ResolveActive
  <2>2. ResolverInv' /\ loads \subseteq loads'
    BY <1>1, <1>2, <2>1, StartInConsistent
  <2>3. <<n, LoadOf(n)>> \in loads'
    <3>1. CASE inflight[n] = None
      BY <1>1, <2>1, <3>1 DEF StartLoads, LoadOf
    <3>2. CASE inflight[n] # None
      BY <1>1, <2>2, <3>2, LoadOfType
    <3> QED BY <3>1, <3>2
  <2>4. a \in [id: 1..activeResolutionId', name: Theme, scheme: Scheme,
               load: Generation, persist: BOOLEAN]
    <3>1. LoadOf(n) \in Generation
      BY <1>1, LoadOfType
    <3>2. activeResolutionId + 1 \in 1..activeResolutionId'
      BY <1>2, ThemeControllerAssumption
    <3> HIDE DEF next, n
    <3> QED BY <1>1, <3>1, <3>2
  <2>5. AttemptsTyped(attempts', activeResolutionId', loads')
    BY <1>3, <2>1, <2>2, <2>3, <2>4 DEF AttemptsTyped
  <2> HIDE DEF next, n, a
  <2>6. QED
    BY <1>1, <1>2, <1>7, <2>1, <2>2, <2>5
    DEF TypeInv, TypeOK, AttemptsTyped, ResolverInv, HistoryTyped
<1>6. QED
  BY <1>4, <1>5

LEMMA UpdateInactiveType ==
  ASSUME TypeInv, NEW scheme \in Scheme, NEW n \in Theme,
         UpdateInactiveThemeName(scheme, n),
         chosen' \in Selection, UNCHANGED <<system, failures>>
  PROVE  TypeInv'
<1> DEFINE next == [applied EXCEPT ![scheme] = n]
<1>1. next \in State
  BY DEF TypeInv, TypeOK, State, Scheme
<1>2. applied' = next /\ saved' = Choice(next) /\ saved' \in Selection
  BY <1>1, ChoiceType DEF UpdateInactiveThemeName
<1>3. /\ StartLoads(Preloads(next, resolved), inflight, loads)
      /\ UNCHANGED <<cacheGeneration, resolved, resolvedTheme, pending, patch,
                     activeResolutionId, attempts>>
      /\ error' = FALSE
      /\ HistoryTyped'
  BY DEF UpdateInactiveThemeName, HistoryTyped, TypeInv, TypeOK
<1>4. ResolverInv' /\ loads \subseteq loads'
  BY <1>1, <1>3, PreloadsType, StartInConsistent
<1> HIDE DEF next
<1>5. QED
  BY <1>1, <1>2, <1>3, <1>4 DEF TypeInv, TypeOK, ResolverInv, HistoryTyped

LEMMA LoadSucceedsType ==
  ASSUME TypeInv, NEW n \in Theme, NEW g \in Generation, LoadSucceeds(n, g)
  PROVE  TypeInv'
<1>1. /\ resolved' = Cached(n, g)
      /\ attempts' = attempts \ Waiting(n, g)
      /\ UNCHANGED <<cacheGeneration, activeResolutionId, system, chosen,
                     failures>>
  BY DEF LoadSucceeds
<1>2. IntendedState \in State
  BY IntendedType DEF TypeInv
<1>3. \E ns \in SUBSET Theme :
        StartLoads(ns, Landed(n, g), loads \ {<<n, g>>})
  BY <1>2, PreloadsType DEF LoadSucceeds
<1>4. ResolverInv' /\ loads \ {<<n, g>>} \subseteq loads'
  BY <1>1, <1>3, StartAfterLanding
<1>5. AttemptsTyped(attempts', activeResolutionId, loads')
  <2>1. \A a \in attempts' : /\ a \in attempts
                            /\ <<a.name, a.load>> \in loads
                            /\ <<a.name, a.load>> # <<n, g>>
    BY <1>1 DEF TypeInv, TypeOK, Waiting
  <2>2. QED
    BY <1>4, <2>1 DEF TypeInv, TypeOK, AttemptsTyped
<1>6. /\ applied' \in State /\ resolvedTheme' \in Theme \union {None}
      /\ pending' \in BOOLEAN /\ error' \in BOOLEAN
      /\ patch' \in Patch /\ saved' \in Selection
  <2>1. CASE UNCHANGED <<applied, resolvedTheme, pending, error, patch, saved>>
    BY <2>1 DEF TypeInv, TypeOK
  <2>2. CASE \E persist \in BOOLEAN : Publish(IntendedState, persist)
    <3>1. saved \in Selection
      BY DEF TypeInv, TypeOK
    <3>2. PICK persist \in BOOLEAN : Publish(IntendedState, persist)
      BY <2>2
    <3> QED BY <1>2, <3>1, <3>2, PublishType
  <2>3. \/ UNCHANGED <<applied, resolvedTheme, pending, error, patch, saved>>
        \/ \E persist \in BOOLEAN : Publish(IntendedState, persist)
    BY DEF LoadSucceeds
  <2> QED BY <2>1, <2>2, <2>3
<1>7. HistoryTyped'
  BY DEF LoadSucceeds, Publish, HistoryTyped, historyVars, TypeInv, TypeOK
<1>8. QED
  BY <1>1, <1>4, <1>5, <1>6, <1>7
  DEF TypeInv, TypeOK, AttemptsTyped, ResolverInv, HistoryTyped

LEMMA LoadFailsType ==
  ASSUME TypeInv, NEW n \in Theme, NEW g \in Generation, LoadFails(n, g)
  PROVE  TypeInv'
<1>1. /\ attempts' = attempts \ Waiting(n, g)
      /\ StartLoads({}, Landed(n, g), loads \ {<<n, g>>})
      /\ UNCHANGED <<cacheGeneration, resolved, applied, resolvedTheme,
                     activeResolutionId, saved, system, renamed, overtaken>>
  BY DEF LoadFails
<1>2. ResolverInv' /\ loads \ {<<n, g>>} \subseteq loads'
  BY <1>1, StartAfterLanding
<1>3. AttemptsTyped(attempts', activeResolutionId, loads')
  <2>1. \A a \in attempts' : /\ a \in attempts
                            /\ <<a.name, a.load>> \in loads
                            /\ <<a.name, a.load>> # <<n, g>>
    BY <1>1 DEF TypeInv, TypeOK, Waiting
  <2>2. QED
    BY <1>2, <2>1 DEF TypeInv, TypeOK, AttemptsTyped
<1>4. failures' \in 0..MaxFailures
  BY ThemeControllerAssumption DEF LoadFails, TypeInv, TypeOK
<1>5. /\ pending' \in BOOLEAN /\ error' \in BOOLEAN
      /\ patch' \in Patch /\ chosen' \in Selection
      /\ outrun' \subseteq Scheme
  BY NoPatchType, ChoiceType DEF LoadFails, TypeInv, TypeOK
<1>6. QED
  BY <1>1, <1>2, <1>3, <1>4, <1>5
  DEF TypeInv, TypeOK, AttemptsTyped, ResolverInv

(* Nothing of an earlier cycle counts after a clear. *)
LEMMA ClearType == ASSUME TypeInv, Clear PROVE TypeInv'
<1>1. /\ cacheGeneration \in Nat
      /\ cacheGeneration' = cacheGeneration + 1
      /\ cacheGeneration' \in Generation
      /\ resolved' = [n \in Theme |-> None]
      /\ inflight' = [n \in Theme |-> None]
      /\ loads' = loads
  BY ThemeResolverAssumption
  DEF Clear, ClearResolvedThemes, TypeInv, TypeOK, ResolverTypeOK, Generation
<1>2. \A n \in Theme : <<n, cacheGeneration'>> \notin loads
  BY <1>1 DEF TypeInv, ResolverInv
<1>3. \A n \in Theme, g \in Generation :
        <<n, g>> \in loads' => g <= cacheGeneration'
  BY <1>1 DEF TypeInv, ResolverInv, Generation
<1>4. ResolverTypeOK'
  BY <1>1 DEF TypeInv, TypeOK, ResolverTypeOK
<1>5. CacheIsFresh'
  BY <1>1, <1>2, NoneNotGeneration DEF CacheIsFresh
<1>6. QED
  BY <1>1, <1>3, <1>4, <1>5
  DEF TypeInv, TypeOK, ResolverInv, Clear, controllerVars, historyVars

LEMMA SeedType == ASSUME TypeInv, NEW n \in Theme, Seed(n) PROVE TypeInv'
<1>1. /\ resolved' = [resolved EXCEPT ![n] = cacheGeneration]
      /\ UNCHANGED <<cacheGeneration, inflight, loads, controllerVars>>
  BY DEF Seed, SeedResolvedTheme
<1>2. QED
  BY <1>1 DEF TypeInv, TypeOK, ResolverInv, ResolverTypeOK, CacheIsFresh,
              controllerVars, historyVars

LEMMA InitType == Init => TypeInv
<1> SUFFICES ASSUME Init PROVE TypeInv
  OBVIOUS
<1> DEFINE scheme == ResolveColorScheme(InitialSelection.mode, system)
           n == InitialSelection[scheme]
<1>1. /\ scheme \in Scheme /\ n \in Theme /\ system \in Scheme
      /\ InitialSelection \in Selection
  BY ThemeControllerAssumption, SchemeTypes DEF Init, Selection, Scheme
<1>2. 0 \in Generation /\ \A g \in Generation : g \in Nat
  BY ThemeResolverAssumption DEF Generation
<1>3. applied \in State
  BY <1>1 DEF Init, State, Selection, Field, UserField
<1>4. ResolverInv
  BY <1>1, <1>2, NoneNotGeneration
  DEF Init, ResolverInv, ResolverTypeOK, CacheIsFresh
<1>5. /\ activeResolutionId \in 1..MaxResolutions
      /\ failures \in 0..MaxFailures
  BY ThemeControllerAssumption DEF Init
<1>6. AttemptsTyped(attempts, 1, loads)
  BY <1>1, <1>2 DEF Init, AttemptsTyped
<1>7. QED
  BY <1>1, <1>3, <1>4, <1>5, <1>6, NoPatchType
  DEF Init, TypeInv, TypeOK, ResolverInv, AttemptsTyped

LEMMA NextType == TypeInv /\ [Next]_vars => TypeInv'
<1> SUFFICES ASSUME TypeInv, [Next]_vars PROVE TypeInv'
  OBVIOUS
<1>1. ASSUME NEW m \in Mode, SetColorMode(m) PROVE TypeInv'
  <2>1. system \in Scheme /\ chosen \in Selection
    BY DEF TypeInv, TypeOK
  <2>2. chosen' \in Selection
    BY <1>1, <2>1 DEF SetColorMode, Selection
  <2>3. [Only("mode", m) EXCEPT !.scheme = ResolveColorScheme(m, system)]
          \in Patch
    BY <2>1, OnlyType, SchemeTypes
  <2>4. QED
    BY <1>1, <2>1, <2>2, <2>3, ResolveActiveType DEF SetColorMode
<1>2. ASSUME NEW scheme \in Scheme, NEW n \in Theme,
             SetThemeNameForScheme(scheme, n)
      PROVE  TypeInv'
  <2>1. chosen' \in Selection
    BY <1>2 DEF SetThemeNameForScheme, TypeInv, TypeOK, Selection, Scheme
  <2>2. Only(scheme, n) \in Patch
    BY OnlyType
  <2>3. UNCHANGED <<system, failures>> /\ system' \in Scheme
    BY <1>2 DEF SetThemeNameForScheme, TypeInv, TypeOK
  <2>4. QED
    BY <1>2, <2>1, <2>2, <2>3, ResolveActiveType, UpdateInactiveType
    DEF SetThemeNameForScheme
<1>3. ASSUME SystemFlips PROVE TypeInv'
  <2>1. /\ system' = Other(system) /\ system' \in Scheme
        /\ UNCHANGED <<chosen, failures>> /\ chosen' \in Selection
    BY <1>3, SchemeTypes DEF SystemFlips, TypeInv, TypeOK
  <2>2. CASE ResolveActive(Only("scheme", Other(system)), FALSE)
    <3>1. Only("scheme", Other(system)) \in Patch
      BY <2>1, OnlyType
    <3>2. QED
      BY <2>1, <2>2, <3>1, ResolveActiveType
  <2>3. CASE UNCHANGED <<resolverVars, applied, resolvedTheme, pending, error,
                         patch, activeResolutionId, attempts, saved,
                         historyVars>>
    BY <2>1, <2>3
    DEF TypeInv, TypeOK, ResolverInv, ResolverTypeOK, CacheIsFresh,
        resolverVars, historyVars
  <2>4. QED
    BY <1>3, <2>2, <2>3 DEF SystemFlips
<1>4. ASSUME NEW n \in Theme, NEW g \in Generation, LoadSettles(n, g)
      PROVE  TypeInv'
  BY <1>4, LoadSucceedsType, LoadFailsType DEF LoadSettles
<1>5. CASE Clear
  BY <1>5, ClearType
<1>6. ASSUME NEW n \in Theme, Seed(n) PROVE TypeInv'
  BY <1>6, SeedType
<1>7. CASE UNCHANGED vars
  BY <1>7 DEF vars, controllerVars, historyVars, resolverVars, TypeInv, TypeOK, ResolverInv,
              ResolverTypeOK, CacheIsFresh
<1>8. QED
  BY <1>1, <1>2, <1>3, <1>4, <1>5, <1>6, <1>7 DEF Next

LEMMA TypeInvHolds == Spec => []TypeInv
<1> QED BY InitType, NextType, PTL DEF Spec

(* Every variable of the controller and the resolver keeps its type, and    *)
(* every attempt waits for a load that is under way.                        *)
THEOREM TypeCorrect == Spec => []TypeOK
<1>1. TypeInv => TypeOK
  BY DEF TypeInv
<1> QED BY <1>1, TypeInvHolds, PTL

(* For any themes and any number of clears, no load of an earlier cycle     *)
(* fills the cache or is shared, and callers of one cycle share one load.   *)
THEOREM CacheFresh == Spec => []CacheIsFresh
<1>1. TypeInv => CacheIsFresh
  BY DEF TypeInv, ResolverInv
<1> QED BY <1>1, TypeInvHolds, PTL

-----------------------------------------------------------------------------
(* Choices. *)

(* The inductive invariant for the choices.  A change that waits is a       *)
(* patch; what the user chose is what is intended, with or without it, but  *)
(* for what was outrun; and what waits for an attempt that will not save    *)
(* was overtaken.                                                           *)
ChoiceInv ==
  /\ ~pending => patch = NoPatch
  /\ \A f \in UserField \ outrun : IntendedState[f] = chosen[f]
  /\ SavedIsApplied
  /\ \A a \in attempts : a.id = activeResolutionId /\ ~a.persist =>
       \A f \in UserField \ overtaken : patch[f] = None
  /\ failures = 0 => IntendedState.scheme =
                       ResolveColorScheme(IntendedState.mode, system)
  /\ ThemeMatchesSelection

LEMMA OverField ==
  ASSUME NEW s, NEW p, NEW f \in Field
  PROVE  Over(s, p)[f] = IF p[f] = None THEN s[f] ELSE p[f]
BY DEF Over

LEMMA ChoiceField ==
  ASSUME NEW s \in State, NEW f \in UserField
  PROVE  Choice(s)[f] = s[f]
BY DEF Choice, UserField, State

LEMMA ChoiceOver ==
  ASSUME NEW s, NEW p
  PROVE  /\ Over(s, p).dark = IF p.dark = None THEN s.dark ELSE p.dark
         /\ Over(s, p).light = IF p.light = None THEN s.light ELSE p.light
         /\ Over(s, p).mode = IF p.mode = None THEN s.mode ELSE p.mode
         /\ Over(s, p).scheme = IF p.scheme = None THEN s.scheme ELSE p.scheme
BY DEF Over, Field, UserField

LEMMA OverNothing ==
  ASSUME NEW s \in State
  PROVE  Over(s, NoPatch) = s
BY DEF Over, NoPatch, Field, UserField, State

LEMMA OverTwice ==
  ASSUME NEW s, NEW p, NEW q
  PROVE  Over(s, Over(p, q)) = Over(Over(s, p), q)
BY DEF Over, Field, UserField

(* A change p of what is intended, at once or when its theme is there.  One *)
(* that is not the user's leaves the user's fields alone.                   *)
LEMMA ResolveActiveChoice ==
  ASSUME TypeInv, ChoiceInv, NEW p \in Patch, NEW persist \in BOOLEAN,
         ResolveActive(p, persist),
         persist \/ \A f \in UserField : p[f] = None,
         \A f \in UserField \ outrun' : Over(IntendedState, p)[f] = chosen'[f],
         failures = 0 =>
           Over(IntendedState, p).scheme =
             ResolveColorScheme(Over(IntendedState, p).mode, system'),
         UNCHANGED failures
  PROVE  ChoiceInv'
<1> DEFINE next == Over(applied, Over(patch, p))
           n == ActiveThemeName(next)
<1>1. /\ next \in State /\ n \in Theme /\ next.scheme \in Scheme
      /\ next = Over(IntendedState, p)
  <2>1. next \in State
    BY OverType, OverPatchType DEF TypeInv, TypeOK
  <2>2. next = Over(IntendedState, p)
    BY OverTwice DEF IntendedState
  <2> HIDE DEF next
  <2>3. QED
    BY <2>1, <2>2, ActiveThemeNameType
<1>0. UserField \subseteq Field
  BY DEF Field, UserField
(* What waits or is applied, of the fields that were not overtaken. *)
<1>3. ASSUME ~persist, NEW f \in UserField, f \notin Overtaken(FALSE)
      PROVE  /\ f \notin overtaken /\ Over(patch, p)[f] = None
             /\ next[f] = applied[f]
  <2>1. p[f] = None /\ patch[f] = None /\ f \notin overtaken
    BY <1>3 DEF Overtaken
  <2>2. Over(patch, p)[f] = None
    BY <1>0, <2>1, OverField
  <2>3. next[f] = applied[f]
    BY <1>0, <2>2, OverField
  <2> QED BY <2>1, <2>2, <2>3
<1>4. CASE resolved[n] # None
  <2>1. /\ Publish(next, persist) /\ attempts' = attempts
        /\ overtaken' = IF persist THEN {} ELSE Overtaken(persist)
    BY <1>4 DEF ResolveActive
  <2>2. /\ applied' = next /\ patch' = NoPatch /\ pending' = FALSE
        /\ resolvedTheme' = ActiveThemeName(next)
        /\ saved' = IF persist THEN Choice(next) ELSE saved
    BY <2>1 DEF Publish
  <2>3. IntendedState' = next
    BY <1>1, <2>2, OverNothing DEF IntendedState
  <2>4. SavedIsApplied'
    <3>1. CASE persist
      BY <1>1, <2>2, <3>1, ChoiceField DEF SavedIsApplied
    <3>2. CASE ~persist
      <4>1. /\ saved' = saved /\ overtaken' = Overtaken(FALSE)
        BY <2>1, <2>2, <3>2
      <4>2. \A f \in UserField \ overtaken' : saved[f] = next[f]
        BY <1>3, <3>2, <4>1 DEF ChoiceInv, SavedIsApplied
      <4> QED BY <2>2, <4>1, <4>2 DEF SavedIsApplied
    <3> QED BY <3>1, <3>2
  <2>5. \A f \in UserField : patch'[f] = None
    BY <1>0, <2>2 DEF NoPatch
  <2> HIDE DEF next, n
  <2>6. QED
    BY <1>1, <2>2, <2>3, <2>4, <2>5 DEF ChoiceInv, ThemeMatchesSelection
<1>5. CASE resolved[n] = None
  <2>1. /\ pending' = TRUE /\ patch' = Over(patch, p)
        /\ activeResolutionId' = activeResolutionId + 1
        /\ UNCHANGED <<applied, resolvedTheme, saved, renamed>>
        /\ overtaken' = Overtaken(persist)
        /\ \A a \in attempts' : a \in attempts \/ a.persist = persist
    BY <1>5 DEF ResolveActive
  <2>2. IntendedState' = next
    BY <2>1 DEF IntendedState
  <2>3. \A a \in attempts : a.id # activeResolutionId'
    BY <2>1, ThemeControllerAssumption DEF TypeInv, TypeOK
  <2>4. ASSUME NEW a \in attempts', a.id = activeResolutionId', ~a.persist
        PROVE  \A f \in UserField \ overtaken' : patch'[f] = None
    <3>1. ~persist
      BY <2>1, <2>3, <2>4
    <3>2. overtaken' = Overtaken(FALSE)
      BY <2>1, <3>1
    <3> HIDE DEF next
    <3> QED BY <1>3, <2>1, <3>1, <3>2
  <2>5. SavedIsApplied'
    BY <2>1 DEF ChoiceInv, SavedIsApplied, Overtaken
  <2> HIDE DEF next, n
  <2>6. QED
    BY <1>1, <2>1, <2>2, <2>4, <2>5
    DEF ChoiceInv, ThemeMatchesSelection, ActiveThemeName
<1>6. QED
  BY <1>4, <1>5

LEMMA NoPatchIntends == patch = NoPatch /\ TypeInv => IntendedState = applied
BY OverNothing DEF IntendedState, TypeInv, TypeOK

(* A name that is applied at once is what is intended, unless an earlier    *)
(* one for the same scheme waits.                                           *)
LEMMA UpdateInactiveChoice ==
  ASSUME TypeInv, ChoiceInv,
         NEW scheme \in Scheme, NEW n \in Theme,
         IntendedState.scheme # scheme,
         UpdateInactiveThemeName(scheme, n),
         chosen' = [chosen EXCEPT ![scheme] = n],
         UNCHANGED <<system, failures>>
  PROVE  ChoiceInv'
<1> DEFINE next == [applied EXCEPT ![scheme] = n]
<1>1. /\ applied' = next /\ saved' = Choice(next)
      /\ renamed' = (renamed \/ scheme = applied.scheme)
      /\ outrun' = IF patch[scheme] # None THEN outrun \union {scheme}
                   ELSE outrun \ {scheme}
      /\ UNCHANGED <<resolvedTheme, pending, patch, activeResolutionId,
                     attempts, overtaken>>
  BY DEF UpdateInactiveThemeName
<1>2. next \in State /\ applied \in State
  BY DEF TypeInv, TypeOK, State, Scheme
<1>3. /\ \A f \in Field \ {scheme} : next[f] = applied[f]
      /\ next[scheme] = n /\ scheme \in UserField
  BY <1>2 DEF State, Scheme, Field, UserField
<1>4. /\ \A f \in Field \ {scheme} : IntendedState'[f] = IntendedState[f]
      /\ patch[scheme] = None => IntendedState'[scheme] = n
  <2>1. IntendedState' = Over(next, patch)
    BY <1>1 DEF IntendedState
  <2> HIDE DEF next
  <2> QED BY <1>3, <2>1, OverField DEF IntendedState, Field
<1>5. /\ chosen'[scheme] = n
      /\ \A f \in UserField \ {scheme} : chosen'[f] = chosen[f]
  BY <1>3 DEF TypeInv, TypeOK, Selection, UserField
<1>6. \A f \in UserField \ outrun' : IntendedState'[f] = chosen'[f]
  BY <1>1, <1>4, <1>5 DEF ChoiceInv, Field, UserField
<1>7. SavedIsApplied'
  <2> HIDE DEF next
  <2> QED BY <1>1, <1>2, ChoiceField DEF SavedIsApplied
<1>8. /\ IntendedState'.scheme = IntendedState.scheme
      /\ IntendedState'.mode = IntendedState.mode
  BY <1>4 DEF Field, UserField, Scheme
<1>9. ThemeMatchesSelection'
  <2>1. scheme # applied.scheme => ActiveThemeName(next) = ActiveThemeName(applied)
    BY <1>2 DEF State, Scheme, ActiveThemeName
  <2> HIDE DEF next
  <2> QED BY <1>1, <2>1 DEF ChoiceInv, ThemeMatchesSelection
<1> HIDE DEF next
<1> QED BY <1>1, <1>6, <1>7, <1>8, <1>9 DEF ChoiceInv

LEMMA SetColorModeChoice ==
  ASSUME TypeInv, ChoiceInv, NEW m \in Mode, SetColorMode(m)
  PROVE  ChoiceInv'
<1> DEFINE p == [Only("mode", m) EXCEPT !.scheme = ResolveColorScheme(m, system)]
<1>1. /\ p \in Patch /\ system \in Scheme
      /\ ResolveColorScheme(m, system) \in Scheme
  BY OnlyType, SchemeTypes DEF TypeInv, TypeOK
<1>2. /\ p.dark = None /\ p.light = None /\ p.mode = m
      /\ p.scheme = ResolveColorScheme(m, system)
  BY DEF Only, NoPatch, Field, UserField
<1>3. m # None /\ ResolveColorScheme(m, system) # None
  BY <1>1, ThemeControllerAssumption, SchemeTypes
<1>4. ResolveActive(p, TRUE) /\ chosen' = [chosen EXCEPT !.mode = m]
      /\ UNCHANGED <<system, failures>>
  BY DEF SetColorMode
<1> HIDE DEF p
<1>5. /\ Over(IntendedState, p).dark = IntendedState.dark
      /\ Over(IntendedState, p).light = IntendedState.light
      /\ Over(IntendedState, p).mode = m
      /\ Over(IntendedState, p).scheme = ResolveColorScheme(m, system)
  BY <1>2, <1>3, ChoiceOver
<1>6. outrun' = outrun
  BY <1>2, <1>4 DEF ResolveActive, Again, Scheme, TypeInv, TypeOK
<1>7. \A f \in UserField \ outrun' : Over(IntendedState, p)[f] = chosen'[f]
  BY <1>4, <1>5, <1>6 DEF ChoiceInv, TypeInv, TypeOK, Selection, UserField
<1>8. QED
  BY <1>1, <1>4, <1>5, <1>7, ResolveActiveChoice

LEMMA SetThemeChoice ==
  ASSUME TypeInv, ChoiceInv,
         NEW scheme \in Scheme, NEW n \in Theme,
         SetThemeNameForScheme(scheme, n)
  PROVE  ChoiceInv'
<1>1. /\ chosen' = [chosen EXCEPT ![scheme] = n]
      /\ UNCHANGED <<system, failures>>
  BY DEF SetThemeNameForScheme
<1>2. CASE IntendedState.scheme = scheme
  <2> DEFINE p == Only(scheme, n)
  <2>1. p \in Patch /\ ResolveActive(p, TRUE)
    BY <1>2, OnlyType DEF SetThemeNameForScheme
  <2>2. n # None
    BY NoneNotGeneration
  <2>3. /\ p.scheme = None /\ p.mode = None
        /\ p.dark = IF scheme = "dark" THEN n ELSE None
        /\ p.light = IF scheme = "light" THEN n ELSE None
    BY DEF Only, NoPatch, Field, UserField, Scheme
  <2> HIDE DEF p
  <2>4. /\ Over(IntendedState, p).mode = IntendedState.mode
        /\ Over(IntendedState, p).scheme = IntendedState.scheme
        /\ Over(IntendedState, p).dark =
             IF scheme = "dark" THEN n ELSE IntendedState.dark
        /\ Over(IntendedState, p).light =
             IF scheme = "light" THEN n ELSE IntendedState.light
    BY <2>2, <2>3, ChoiceOver
  <2>5. outrun' = outrun \ {scheme}
    BY <2>1, <2>2, <2>3 DEF ResolveActive, Again, Scheme, TypeInv, TypeOK
  <2>6. \A f \in UserField \ outrun' : Over(IntendedState, p)[f] = chosen'[f]
    BY <1>1, <2>4, <2>5
    DEF ChoiceInv, TypeInv, TypeOK, Selection, UserField, Scheme
  <2>7. failures = 0 =>
          Over(IntendedState, p).scheme =
            ResolveColorScheme(Over(IntendedState, p).mode, system')
    BY <1>1, <2>4 DEF ChoiceInv
  <2>8. QED
    BY <1>1, <2>1, <2>6, <2>7, ResolveActiveChoice
<1>3. CASE IntendedState.scheme # scheme
  BY <1>1, <1>3, UpdateInactiveChoice DEF SetThemeNameForScheme
<1>4. QED
  BY <1>2, <1>3

LEMMA SystemFlipsChoice ==
  ASSUME TypeInv, ChoiceInv, SystemFlips
  PROVE  ChoiceInv'
<1> DEFINE p == Only("scheme", Other(system))
<1>1. /\ Other(system) \in Scheme /\ p \in Patch
      /\ system' = Other(system) /\ UNCHANGED <<chosen, failures>>
  BY OnlyType, SchemeTypes DEF SystemFlips, TypeInv, TypeOK
<1>2. Other(system) # None
  BY <1>1, ThemeControllerAssumption, SchemeTypes
<1>3. /\ \A f \in UserField : p[f] = None
      /\ p.dark = None /\ p.light = None /\ p.mode = None
      /\ p.scheme = Other(system)
  BY DEF Only, NoPatch, Field, UserField
<1> HIDE DEF p
<1>4. CASE IntendedState.mode = "system" /\ IntendedState.scheme # Other(system)
  <2>1. ResolveActive(p, FALSE)
    BY <1>4 DEF SystemFlips, p
  <2>2. outrun' = outrun
    BY <1>3, <2>1 DEF ResolveActive, Again, Scheme, TypeInv, TypeOK
  <2>3. /\ Over(IntendedState, p).dark = IntendedState.dark
        /\ Over(IntendedState, p).light = IntendedState.light
        /\ Over(IntendedState, p).mode = IntendedState.mode
        /\ Over(IntendedState, p).scheme = Other(system)
    BY <1>2, <1>3, ChoiceOver
  <2>4. \A f \in UserField \ outrun' : Over(IntendedState, p)[f] = chosen'[f]
    BY <1>1, <2>2, <2>3 DEF ChoiceInv, UserField
  <2>5. Over(IntendedState, p).scheme =
          ResolveColorScheme(Over(IntendedState, p).mode, system')
    BY <1>1, <1>4, <2>3 DEF ResolveColorScheme
  <2>6. QED
    BY <1>1, <1>3, <2>1, <2>4, <2>5, ResolveActiveChoice
<1>5. CASE ~(/\ IntendedState.mode = "system"
             /\ IntendedState.scheme # Other(system))
  <2>1. UNCHANGED <<applied, resolvedTheme, pending, patch,
                    activeResolutionId, attempts, saved, historyVars>>
    BY <1>5 DEF SystemFlips
  <2>2. UNCHANGED IntendedState
    BY <2>1 DEF IntendedState
  <2>3. failures = 0 => IntendedState.scheme =
                         ResolveColorScheme(IntendedState.mode, system')
    BY <1>1, <1>5 DEF ChoiceInv, ResolveColorScheme
  <2>4. QED
    BY <1>1, <2>1, <2>2, <2>3
    DEF ChoiceInv, SavedIsApplied, ThemeMatchesSelection, historyVars
<1>6. QED
  BY <1>4, <1>5

(* The theme that the current attempt waits for is there: what is intended  *)
(* is applied; an attempt that does not save applies only what was          *)
(* overtaken.                                                               *)
LEMMA LoadSucceedsChoice ==
  ASSUME TypeInv, ChoiceInv, NEW n \in Theme, NEW g \in Generation,
         LoadSucceeds(n, g)
  PROVE  ChoiceInv'
<1>1. /\ attempts' \subseteq attempts
      /\ UNCHANGED <<activeResolutionId, system, chosen, failures>>
  BY DEF LoadSucceeds
<1>2. CASE UNCHANGED <<applied, resolvedTheme, pending, error, patch, saved,
                       historyVars>>
  <2>1. UNCHANGED IntendedState
    BY <1>2 DEF IntendedState
  <2>2. QED
    BY <1>1, <1>2, <2>1
    DEF ChoiceInv, SavedIsApplied, ThemeMatchesSelection, historyVars
<1>3. ASSUME NEW useful \in SUBSET Current(n, g), useful # {},
             Publish(IntendedState, \E a \in useful : a.persist),
             overtaken' = IF \E a \in useful : a.persist THEN {}
                          ELSE overtaken,
             UNCHANGED outrun
      PROVE  ChoiceInv'
  <2>1. /\ applied' = IntendedState /\ patch' = NoPatch /\ pending' = FALSE
        /\ resolvedTheme' = ActiveThemeName(IntendedState)
        /\ saved' = IF \E a \in useful : a.persist THEN Choice(IntendedState)
                    ELSE saved
    BY <1>3 DEF Publish
  <2>2. IntendedState \in State
    BY IntendedType DEF TypeInv
  <2>3. IntendedState' = IntendedState
    BY <2>1, <2>2, OverNothing DEF IntendedState
  <2>4. UserField \subseteq Field
    BY DEF Field, UserField
  <2>5. SavedIsApplied'
    <3>1. CASE \E a \in useful : a.persist
      BY <1>3, <2>1, <2>2, <3>1, ChoiceField DEF SavedIsApplied
    <3>2. CASE \A a \in useful : ~a.persist
      <4>1. \A f \in UserField \ overtaken : patch[f] = None
        BY <1>3, <3>2 DEF Current, Waiting, ChoiceInv
      <4>2. \A f \in UserField \ overtaken : IntendedState[f] = applied[f]
        BY <2>4, <4>1, OverField DEF IntendedState
      <4>3. QED
        BY <1>3, <2>1, <3>2, <4>2 DEF ChoiceInv, SavedIsApplied
    <3>3. QED
      BY <3>1, <3>2
  <2>6. \A f \in UserField : patch'[f] = None
    BY <2>1, <2>4 DEF NoPatch
  <2>7. QED
    BY <1>1, <1>3, <2>1, <2>3, <2>5, <2>6
    DEF ChoiceInv, ThemeMatchesSelection
<1>4. QED
  BY <1>2, <1>3 DEF LoadSucceeds

LEMMA LoadFailsChoice ==
  ASSUME TypeInv, ChoiceInv, NEW n \in Theme, NEW g \in Generation,
         LoadFails(n, g)
  PROVE  ChoiceInv'
<1>1. /\ attempts' \subseteq attempts
      /\ UNCHANGED <<applied, resolvedTheme, activeResolutionId, saved, system,
                     renamed, overtaken>>
      /\ failures' = failures + 1 /\ failures \in Nat
  BY ThemeControllerAssumption DEF LoadFails, TypeInv, TypeOK
<1>2. failures' # 0
  BY <1>1
<1>3. CASE UNCHANGED <<pending, error, patch, chosen, outrun>>
  <2>1. UNCHANGED IntendedState
    BY <1>1, <1>3 DEF IntendedState
  <2>2. QED
    BY <1>1, <1>2, <1>3, <2>1
    DEF ChoiceInv, SavedIsApplied, ThemeMatchesSelection
<1>4. CASE pending' = FALSE /\ patch' = NoPatch /\ chosen' = Choice(applied)
  <2>1. IntendedState' = applied /\ applied \in State
    BY <1>1, <1>4, OverNothing DEF IntendedState, TypeInv, TypeOK
  <2>2. \A f \in UserField : patch'[f] = None /\ chosen'[f] = applied[f]
    BY <1>4, <2>1, ChoiceField DEF NoPatch, Field, UserField
  <2>3. QED
    BY <1>1, <1>2, <1>4, <2>1, <2>2
    DEF ChoiceInv, SavedIsApplied, ThemeMatchesSelection
<1>5. QED
  BY <1>3, <1>4 DEF LoadFails

LEMMA InitChoice == Init => ChoiceInv
<1> SUFFICES ASSUME Init PROVE ChoiceInv
  OBVIOUS
<1>1. TypeInv
  BY InitType
<1>2. /\ patch = NoPatch /\ saved = InitialSelection
      /\ chosen = InitialSelection /\ resolvedTheme = None /\ pending = TRUE
      /\ InitialSelection \in Selection
  BY ThemeControllerAssumption DEF Init
<1>3. IntendedState = applied
  BY <1>1, <1>2, NoPatchIntends
<1>4. /\ \A f \in UserField : applied[f] = InitialSelection[f]
      /\ applied.scheme = ResolveColorScheme(applied.mode, system)
  BY <1>2 DEF Init, Field, UserField
<1>5. \A f \in UserField : patch[f] = None
  BY <1>2 DEF NoPatch, Field, UserField
<1>6. QED
  BY <1>2, <1>3, <1>4, <1>5
  DEF ChoiceInv, SavedIsApplied, ThemeMatchesSelection

LEMMA NextChoice == TypeInv /\ ChoiceInv /\ [Next]_vars => ChoiceInv'
<1> SUFFICES ASSUME TypeInv, ChoiceInv, [Next]_vars PROVE ChoiceInv'
  OBVIOUS
<1>1. ASSUME UNCHANGED controllerVars PROVE ChoiceInv'
  <2>1. UNCHANGED IntendedState
    BY <1>1 DEF IntendedState, controllerVars
  <2>2. QED
    BY <1>1, <2>1
    DEF ChoiceInv, SavedIsApplied, ThemeMatchesSelection, controllerVars,
        historyVars
<1>2. ASSUME NEW n \in Theme, NEW g \in Generation, LoadSettles(n, g)
      PROVE  ChoiceInv'
  BY <1>2, LoadSucceedsChoice, LoadFailsChoice DEF LoadSettles
<1>3. QED
  BY <1>1, <1>2, SetColorModeChoice, SetThemeChoice, SystemFlipsChoice
  DEF Next, Clear, Seed, vars

LEMMA ChoiceInvHolds == Spec => [](TypeInv /\ ChoiceInv)
<1>1. Init => TypeInv /\ ChoiceInv
  BY InitType, InitChoice
<1>2. TypeInv /\ ChoiceInv /\ [Next]_vars => (TypeInv /\ ChoiceInv)'
  BY NextType, NextChoice
<1> QED BY <1>1, <1>2, PTL DEF Spec

(* For any themes, and any order of choices, flips, clears, loads and       *)
(* failures: a name is shown with the tokens of another theme only after it *)
(* was given to the shown scheme while a change to the other one waited,    *)
(* and until the next change is applied.                                    *)
THEOREM ThemeMatches == Spec => []ThemeMatchesSelection
<1>1. ChoiceInv => ThemeMatchesSelection
  BY DEF ChoiceInv
<1> QED BY <1>1, ChoiceInvHolds, PTL

(* Whatever order loads settle in, what is applied once nothing waits is    *)
(* what was chosen last, field by field, but for names that were applied at *)
(* once while an earlier one for the same scheme waited.                    *)
THEOREM LastChoiceApplied == Spec => []LastChoiceWins
<1>1. TypeInv /\ ChoiceInv => LastChoiceWins
  BY NoPatchIntends DEF ChoiceInv, LastChoiceWins
<1> QED BY <1>1, ChoiceInvHolds, PTL

(* What is persisted is what is applied, but for what waited when the       *)
(* system flipped, until another choice is applied.                         *)
THEOREM AppliedIsSaved == Spec => []SavedIsApplied
<1>1. ChoiceInv => SavedIsApplied
  BY DEF ChoiceInv
<1> QED BY <1>1, ChoiceInvHolds, PTL

(* As long as no load fails, the scheme follows the mode and the system,    *)
(* also when the system flips while a choice waits.                         *)
THEOREM SchemeFollows == Spec => []SchemeFollowsSystem
<1>1. TypeInv /\ ChoiceInv => SchemeFollowsSystem
  BY NoPatchIntends DEF ChoiceInv, SchemeFollowsSystem
<1> QED BY <1>1, ChoiceInvHolds, PTL
=============================================================================
