--------------------------- MODULE InputContract ---------------------------
(***************************************************************************)
(* What the input handle promises its callers: a set of settings, each     *)
(* given or not, changed one at a time.  The settings for the sections of  *)
(* a motion belong to the intermediate positions that divide it: they are  *)
(* given for all of its sections, and given up when there are more or      *)
(* fewer.  A solver knows the settings it last calculated with.            *)
(***************************************************************************)
CONSTANTS
  Fields,
  PerSection,   \* the settings made for each section
  Points,       \* the intermediate positions
  NotGiven

VARIABLES
  settings,     \* [Fields -> what was given, or NotGiven]
  known         \* the solver's, NotGiven before its first calculation

vars == <<settings, known>>

Init ==
  /\ \A f \in PerSection : settings[f] = NotGiven
  /\ known = NotGiven

Changed == {f \in Fields : settings'[f] # settings[f]}

\* One setting is given or given up; the number of positions stays.
Give ==
  /\ \A f, g \in Changed : f = g
  /\ DOMAIN settings[Points]' = DOMAIN settings[Points]
  /\ UNCHANGED known

\* New positions, and nothing is known of their sections.
Divide ==
  /\ \A f \in PerSection : settings'[f] = NotGiven
  /\ Changed \subseteq PerSection \cup {Points}
  /\ UNCHANGED known

Calculate ==
  /\ known' = settings
  /\ UNCHANGED settings

Next == Give \/ Divide \/ Calculate

Spec == Init /\ [][Next]_vars
=============================================================================
