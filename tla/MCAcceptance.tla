---------------------------- MODULE MCAcceptance ----------------------------
(***************************************************************************)
(* The acceptance package and its audit on small instances, one part at a  *)
(* time and chosen at the start: two runs of the collector into one        *)
(* directory; a package under three writes, of which an audit takes the    *)
(* latest record or the one it is given; two packages, from which an audit *)
(* chooses the best; and a package under two writes while the product is   *)
(* being edited and committed twice.                                       *)
(***************************************************************************)
EXTENDS CollectorRun, AcceptanceFlow, TLC

CONSTANTS p1, p2, i1, i2

VARIABLE part

(* Everything; what --seed-supported-system-evidence asks for, on a build  *)
(* made before; and nothing.                                               *)
SomeOptions == {Arguments \ {"skip build"}, SupportedParts \union {"skip build"}, {}}
SomeUrls == {"none", "private_lan"}

OnePackage == INSTANCE AcceptanceFlow WITH Packages <- {p1}, Strategies <- {"latest", "path"}
TwoPackages == INSTANCE AcceptanceFlow WITH
    Strategies <- {"best"}, MaxCommits <- 1
Editing == INSTANCE AcceptanceFlow WITH
    Packages <- {p1}, Strategies <- {"best"}, MayEdit <- TRUE, MaxCommits <- 3, MaxWrites <- 2

(* Packages are alike: it is enough to have them done in this order.       *)
Collected(p) == files'[p]["review"] # None
PackagesInOrder == Collected(p2) => Collected(p1)

AcceptanceInit ==
    /\ part \in {"collector", "one package", "two packages", "editing"}
    /\ Init
    /\ part # "collector" =>
          /\ options = {}
          /\ url = "none" /\ fallback = "loopback"
    /\ FlowInit

AcceptanceNext ==
    /\ UNCHANGED part
    /\ \/ part = "collector" /\ Next /\ UNCHANGED flowVars
       \/ part = "one package" /\ OnePackage!FlowNext /\ UNCHANGED vars
       \/ part = "two packages" /\ TwoPackages!FlowNext /\ PackagesInOrder /\ UNCHANGED vars
       \/ part = "editing" /\ Editing!FlowNext /\ UNCHANGED vars

AcceptanceSpec == AcceptanceInit /\ [][AcceptanceNext]_<<part, vars, flowVars>>

=============================================================================
