------------------------------ MODULE MCScopes ------------------------------
(***************************************************************************)
(* Two names are enough to tell a name from another; maps start with room   *)
(* for one entry, so that every one of them has to grow.                    *)
(***************************************************************************)
EXTENDS Scopes

MCNames == {<<"x">>, <<"y">>}
=============================================================================
