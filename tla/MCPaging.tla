------------------------------ MODULE MCPaging ------------------------------
(***************************************************************************)
(* Instances of Paging for TLC: pages of one or two columns, which may     *)
(* change their name from page to page as DynamoDB items do.               *)
(***************************************************************************)
EXTENDS Paging

CONSTANTS id, name

OneColumn == {<<id>>}
OneOrTwo == {<<id>>, <<id, name>>}

=============================================================================
