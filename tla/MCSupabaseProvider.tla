------------------------- MODULE MCSupabaseProvider -------------------------
(* A small instance of SupabaseProvider for TLC.                           *)
EXTENDS SupabaseProvider, TLC

CONSTANTS c1, c2, old, new

TwoCallers == {c1, c2}

\* The new key is published beside the old one, then the old one is withdrawn.
Rotation == (0 :> {old}) @@ (1 :> {old, new}) @@ (2 :> {new})
=============================================================================
