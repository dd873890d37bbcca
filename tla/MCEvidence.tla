----------------------------- MODULE MCEvidence -----------------------------
(***************************************************************************)
(* The scripts that gather evidence for an acceptance on small instances,  *)
(* one at a time and chosen at the start: three runs of any of the six UI  *)
(* tests, the seeding of two inputs with the three attempts of the code,   *)
(* and two runs on one system calendar.                                    *)
(***************************************************************************)
EXTENDS UiTestRunner, SeedRequests, CalendarEvidence

VARIABLE part

All == AllTests

FourEvents == {"seed1", "denied1", "seed2", "denied2"}
SeedOf(n) == IF n = 1 THEN "seed1" ELSE "seed2"
DeniedOf(n) == IF n = 1 THEN "denied1" ELSE "denied2"
SomeOptions == {{"facts", "cleanup", "denial"}, {"facts"}, {"denial"}}

ASSUME SeedsAssumption == SeedsDiffer

EvidenceInit ==
    /\ part \in {"uitest", "seeding", "calendar"}
    /\ Init /\ (part # "uitest" => test = "keyboard")
    /\ SeedingInit
    /\ CalendarInit /\ (part # "calendar" => auth = "denied")

EvidenceNext ==
    /\ UNCHANGED part
    /\ \/ part = "uitest" /\ Next /\ UNCHANGED <<seedingVars, calendarVars>>
       \/ part = "seeding" /\ SeedingNext /\ UNCHANGED <<vars, calendarVars>>
       \/ part = "calendar" /\ CalendarNext /\ UNCHANGED <<vars, seedingVars>>

EvidenceSpec == EvidenceInit /\ [][EvidenceNext]_<<part, vars, seedingVars, calendarVars>>
=============================================================================
