-------------------------- MODULE MCThemeController --------------------------
(* Instances of ThemeController for TLC. *)
EXTENDS ThemeController

CONSTANTS a, b

StartInSystemMode == [dark |-> a, light |-> b, mode |-> "system"]

CONSTANT MaxEvents  \* bound on Events

Events == activeResolutionId + cacheGeneration + failures
FewEvents == Events <= MaxEvents
=============================================================================
