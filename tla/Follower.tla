------------------------------ MODULE Follower ------------------------------
(***************************************************************************)
(* What the operator promises for one object of an installation, whatever  *)
(* calls, caches and queues it takes: the object follows the content that  *)
(* is wanted.  While the operator owes nothing the object is there, it     *)
(* suits what is wanted, and only somebody else changes it; the operator   *)
(* replaces an object in two steps and owes until both are done.           *)
(***************************************************************************)
EXTENDS Naturals

CONSTANTS
    Contents,  \* what may be wanted, and what the object may hold
    Accepts,   \* <<w, c>> when an object with content c will do for w
    Absent     \* there is no object

VARIABLES
    want,   \* what is wanted of the object
    have,   \* what it holds, or Absent
    owed,   \* the operator still has something to do or to find out
    hands   \* how often others may still change the object

vars == <<want, have, owed, hands>>

Suits(w, h) == <<w, h>> \in Accepts

TypeOK ==
    /\ want \in Contents /\ have \in Contents \cup {Absent}
    /\ owed \in BOOLEAN /\ hands \in Nat

\* At rest the object exists and will do for what is wanted.
Followed == ~owed => Suits(want, have)

Init == TypeOK /\ owed = TRUE

\* The user wants something else.
Ask(w) == want' = w /\ owed' = TRUE /\ UNCHANGED <<have, hands>>

\* Somebody else changes or deletes the object.
Meddle(h) ==
    /\ hands > 0 /\ hands' = hands - 1
    /\ have' = h /\ owed' = TRUE /\ UNCHANGED want

Make(c) ==
    /\ owed /\ have = Absent
    /\ have' = c /\ UNCHANGED <<want, owed, hands>>

Clear ==
    /\ owed /\ have # Absent
    /\ have' = Absent /\ UNCHANGED <<want, owed, hands>>

\* News that turn out to need nothing, and the end of what is owed.
Wake == owed' = TRUE /\ UNCHANGED <<want, have, hands>>
Rest == Suits(want, have) /\ owed' = FALSE /\ UNCHANGED <<want, have, hands>>

Next ==
    \/ \E w \in Contents : Ask(w)
    \/ \E h \in Contents \cup {Absent} : Meddle(h)
    \/ \E c \in Contents : Make(c)
    \/ Clear \/ Wake \/ Rest

Spec == Init /\ [][Next]_vars

\* Whatever is owed is done in the end.
Served == []<>(~owed)

FairSpec == Spec /\ Served

=============================================================================
