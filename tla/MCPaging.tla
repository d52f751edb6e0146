------------------------------ MODULE MCPaging ------------------------------
(* Seven frames: fewer than the tables and the pages need together.         *)
EXTENDS Paging
MCPool == <<1, 2, 3, 4, 5, 6, 7>>
=============================================================================
