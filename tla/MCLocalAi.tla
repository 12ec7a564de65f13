------------------------------ MODULE MCLocalAi ------------------------------
(***************************************************************************)
(* A small instance of LocalAi: a built-in deployment b0 and two that can  *)
(* be installed, v1 and v2.                                                *)
(***************************************************************************)
EXTENDS LocalAi, TLC

CONSTANTS b0, v1, v2, c1

MCVersion == {b0, v1, v2}
MCCaller == {c1}

(* A fresh installation, and one after two updates: v1 and v2 can be
   exchanged, the other deployments are an event or a restart away.  The
   built-in deployment works, or nothing does. *)
MCInit ==
    /\ Init
    /\ <<current, previous>> \in {<<NoVersion, NoVersion>>, <<v1, v2>>}
    /\ b0 \in works \/ works = {}
MCSpec == MCInit /\ [][Next]_vars /\ Fairness
=============================================================================
