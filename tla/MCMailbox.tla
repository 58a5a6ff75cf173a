------------------------------ MODULE MCMailbox -----------------------------
(* A small instance of Mailbox for TLC: two channels, one filter.            *)
EXTENDS Mailbox

MCRank == "a" :> 1 @@ "b" :> 2

MCFilters == {None, {"a"}}
=============================================================================
