----------------------------- MODULE MCEntities ------------------------------
(* Instance of Entities for TLC: one declaration of any form, and one of a *)
(* form that lives as long as the session.                                 *)
EXTENDS Entities, TLC

CONSTANTS e1, e2

MCEntities == {e1, e2}
MCFormsOf == (e1 :> Forms) @@ (e2 :> {"background"})

=============================================================================
