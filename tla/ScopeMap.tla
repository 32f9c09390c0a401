------------------------------ MODULE ScopeMap ------------------------------
(***************************************************************************)
(* What the virtual machine counts on when it uses a Scope (scope.h, and    *)
(* get_var, set_var and scope_to_object of vm.cpp): variables that are       *)
(* assigned once and never change, over a base object that they may hide.    *)
(***************************************************************************)
EXTENDS Objects

CONSTANTS Names,  \* names of variables
          Values, \* their values
          Bases   \* base objects: functions from some names to values

VARIABLES base,     \* the base object
          assigned, \* the variables: a function from some names to values
          answer    \* what the last call gave back, as an object: the variable that was
                    \* assigned or found, or the whole scope; empty if the call said false

mapVars == <<base, assigned, answer>>

MapInit == base \in Bases /\ assigned = Nothing /\ answer = Nothing

\* A new scope.
MapBegin(b) == base' = b /\ assigned' = Nothing /\ answer' = Nothing

\* A variable can be assigned once in a scope.
MapSet(n, v) ==
    /\ UNCHANGED base
    /\ IF n \in DOMAIN assigned THEN answer' = Nothing /\ UNCHANGED assigned
       ELSE answer' = One(n, v) /\ assigned' = Over(One(n, v), assigned)

MapGet(n) ==
    /\ UNCHANGED <<base, assigned>>
    /\ LET all == Over(assigned, base)
       IN answer' = IF n \in DOMAIN all THEN One(n, all[n]) ELSE Nothing

MapToObject == answer' = Over(assigned, base) /\ UNCHANGED <<base, assigned>>

MapNext ==
    \/ \E b \in Bases : MapBegin(b)
    \/ \E n \in Names, v \in Values : MapSet(n, v)
    \/ \E n \in Names : MapGet(n)
    \/ MapToObject

MapSpec == MapInit /\ [][MapNext]_mapVars
=============================================================================
