------------------------------- MODULE Keeper -------------------------------
(***************************************************************************)
(* What the operator promises for a whole installation, whatever calls,    *)
(* passes, caches and queues it takes.  While the operator owes nothing,   *)
(* the objects suit the spec and the status tells the truth.  It works     *)
(* only while it owes, on one object at a time: it makes what is missing   *)
(* and clears what is in the way, but nothing of what it has to preserve.  *)
(* The rest of the cluster makes nothing and rewrites nothing.             *)
(***************************************************************************)

CONSTANTS
    Objects,        \* the objects of an installation
    Preserved,      \* those that the operator never clears
    Absent,         \* there is no such object
    Suits(_, _),    \* the objects are as the resource asks for
    Tells(_, _, _)  \* the status is that of the objects

VARIABLES
    want,  \* the resource: its spec, and whether it lives
    have,  \* the objects, each one there, going or Absent
    told,  \* the status of the resource
    owed   \* the operator still has something to do or to find out

vars == <<want, have, told, owed>>

Right == Suits(want, have) /\ Tells(want, have, told)

\* Nothing is left undone or untold at rest.
Kept == ~owed => Right

Init == owed = TRUE

\* The user wants something else, or nothing any more.
Ask == want' # want /\ owed' = TRUE /\ UNCHANGED <<have, told>>

Made(o) == have[o] = Absent

Cleared(o) ==
    /\ o \notin Preserved /\ have[o] # Absent
    /\ have'[o] # Absent => have'[o].dying /\ have'[o].spec = have[o].spec

\* The operator calls the API server, for an object, for the status or, when
\* it reports what became of the first call, for both.
Work ==
    /\ owed /\ owed' = TRUE /\ UNCHANGED want
    /\ \E o \in Objects :
         /\ \A p \in Objects \ {o} : have'[p] = have[p]
         /\ have'[o] # have[o] => Made(o) \/ Cleared(o)

\* Objects change their condition, go and are deleted by others.  That may put
\* right again what others have changed before.
Drift ==
    /\ UNCHANGED <<want, told>>
    /\ \A o \in Objects : have'[o] # have[o] =>
         have[o] # Absent /\ (have'[o] # Absent => have'[o].spec = have[o].spec)
    /\ owed' = TRUE \/ (owed /\ owed' = FALSE /\ Right')

\* News, and the end of what is owed.
Wake == owed' = TRUE /\ UNCHANGED <<want, have, told>>
Rest == owed /\ owed' = FALSE /\ Right /\ UNCHANGED <<want, have, told>>

Next == Ask \/ Work \/ Drift \/ Wake \/ Rest

Spec == Init /\ [][Next]_vars

=============================================================================
