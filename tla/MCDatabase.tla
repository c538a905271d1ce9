----------------------------- MODULE MCDatabase -----------------------------
(***************************************************************************)
(* An instance of Database for TLC: Keycloak's user, its database, or the  *)
(* volume changes, and the application's secret is one the user made.      *)
(***************************************************************************)
EXTENDS Database

DbOf(user, name, claim) == [kcUser |-> user, kcDb |-> name, pvc |-> claim]

MCSpecs == {DbOf("kc", "keycloak", TRUE), DbOf("sso", "sso", TRUE),
            DbOf("kc", "sso", FALSE)}

Scenario(abort, upset, delete, meddle, edit, reinstall) ==
    [abort |-> abort, upset |-> upset, delete |-> delete, meddle |-> meddle,
     edit |-> edit, reinstall |-> reinstall]

MCScenarios == {
    Scenario(0, 1, 0, 0, 1, 0),
    Scenario(1, 0, 1, 0, 0, 0),
    Scenario(0, 1, 0, 1, 0, 0),
    Scenario(0, 0, 0, 0, 0, 1)
}

=============================================================================
