-------------------------- MODULE MCConfiguration ---------------------------
(***************************************************************************)
(* Configuration with three images: one with another version of the same   *)
(* layout, one with another layout.                                        *)
(***************************************************************************)
EXTENDS Configuration

MCImages == 1 .. 3
MCLayout == <<1, 1, 2>>
MCVersion == <<1, 2, 2>>

=============================================================================
