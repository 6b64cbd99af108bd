------------------------------ MODULE MCHelper ------------------------------
(***************************************************************************)
(* Three launches, so that a third finds what two left behind, and two     *)
(* calls of the helper.                                                    *)
(***************************************************************************)
EXTENDS Helper
=============================================================================
