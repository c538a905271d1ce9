--------------------------- MODULE MCResourceSync ---------------------------
(***************************************************************************)
(* An instance of ResourceSync for TLC: a pod that is asked for with and   *)
(* without its last option.  comparePods takes the pod that has the option *)
(* for the one without.                                                    *)
(***************************************************************************)
EXTENDS ResourceSync

MCContents == {"plain", "java"}
MCAccepts  == {<<"plain", "plain">>, <<"java", "java">>, <<"plain", "java">>}

OneOfEach == [fault |-> 1, crash |-> 1, edit |-> 1, meddle |-> 1]

=============================================================================
