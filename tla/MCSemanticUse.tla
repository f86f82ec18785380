---------------------------- MODULE MCSemanticUse ----------------------------
(* A long plain decoy and the gold memory that shares words with it, a short  *)
(* one with a value, one inside another, one without a salient token and one  *)
(* that is blank.                                                             *)
EXTENDS SemanticUse

MCTokensOf ==
    [decoy |-> {"deploys", "friday", "team", "moved", "v4"},
     gold  |-> {"v4"},
     port  |-> {"8080"},
     stop  |-> {},
     blank |-> {}]
MCWithin == [decoy |-> {"decoy", "stop"}, gold |-> {"gold"}, port |-> {"port"},
             stop |-> {"stop"}, blank |-> {"blank"}]
=============================================================================
