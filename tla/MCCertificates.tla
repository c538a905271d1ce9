--------------------------- MODULE MCCertificates ---------------------------
(***************************************************************************)
(* An instance of Certificates for TLC: one resource at first and a second *)
(* that may join, the deployed operator and one started by hand, and the   *)
(* disturbances in groups, on both platforms.                              *)
(***************************************************************************)
EXTENDS Certificates

MCKeys == {"k1", "k2", "k3", "k4", "k5"}

Scenario(isOpenShift, fault, crash, discovery, second, delete, remove, create) ==
    [openshift |-> isOpenShift,
     budget |-> [fault |-> fault, crash |-> crash, discovery |-> discovery,
                 second |-> second, delete |-> delete, remove |-> remove,
                 create |-> create]]

MCScenarios == {
    Scenario(FALSE, 1, 1, 0, 0, 1, 0, 0),
    Scenario(FALSE, 1, 0, 0, 1, 0, 0, 0),
    Scenario(FALSE, 0, 0, 0, 0, 0, 1, 1),
    Scenario(TRUE,  0, 1, 1, 0, 1, 0, 0),
    Scenario(TRUE,  0, 0, 0, 0, 0, 1, 0)
}

=============================================================================
