----------------------------- MODULE MCTerminal -----------------------------
(***************************************************************************)
(* An instance of Terminal for TLC: pages of one or two columns, as        *)
(* DynamoDB items may have them, on a display of a few rows.               *)
(***************************************************************************)
EXTENDS Terminal

CONSTANTS id, name

OneOrTwo == {<<id>>, <<id, name>>}

=============================================================================
