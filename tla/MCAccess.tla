------------------------------- MODULE MCAccess -------------------------------
(***************************************************************************)
(* The two services that decide who may do what: the roles of a tenant and   *)
(* the sessions of a user.  They share Redis but none of each other's        *)
(* state, so one run checks both: the steps of one of them are taken, the    *)
(* other stays as it began.                                                 *)
(***************************************************************************)
EXTENDS RolesCache, TLC

CONSTANTS Calls, MaxTokens, MaxTime, MaxLogins, AccessTTL, RefreshTTL, Tolerance   \* of Sessions

ASSUME SessionsAssumption == MaxTokens \in Nat /\ MaxTime \in Nat /\ AccessTTL \in Nat

VARIABLES
    part,       \* whose steps are taken
    row, born, parent, until, step, token, now,
    overlapped, purged, escaping, spared, loggedOut

Sessions == INSTANCE Sessions WITH pc <- step

sessionVars == <<row, born, parent, until, step, token, now,
                 overlapped, purged, escaping, spared, loggedOut>>
accessVars == <<vars, part, sessionVars>>

AccessInit == part \in {"roles", "sessions"} /\ Init /\ Sessions!Init

RolesNext == part = "roles" /\ Next /\ UNCHANGED <<part, sessionVars>>
SessionsNext == part = "sessions" /\ Sessions!Next /\ UNCHANGED <<part, vars>>

AccessNext == RolesNext \/ SessionsNext

AccessSpec == AccessInit /\ [][AccessNext]_accessVars

Symmetry == Permutations(Calls)

-------------------------------------------------------------------------------
(* What the run checks of the sessions *)

RotationIsSafe == part = "sessions" => Sessions!RotationIsSafe
LoggedOutIsRefused == Sessions!LoggedOutIsRefused
===============================================================================
