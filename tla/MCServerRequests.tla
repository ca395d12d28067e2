-------------------------- MODULE MCServerRequests --------------------------
(***************************************************************************)
(* Instances of ServerRequests: the requests the dataserver may send.      *)
(***************************************************************************)
EXTENDS ServerRequests

CONSTANTS a, b, x, y

NoIds(forms) == {[form |-> f, ids |-> <<>>] : f \in forms}
List(s) == [form |-> "list", ids |-> s]

\* No list, an empty one, and lists of two cells, x, which no cell has, and y,
\* which is too long, in different orders.
MCRequests == NoIds(Forms) \cup
    {List(<<a, b>>), List(<<x>>), List(<<a, y>>), List(<<a, a>>), List(<<a, x, b>>), List(<<x, x, a>>), List(<<b, a, x>>)}

\* Fewer of them, for the temporal properties
MCFew == NoIds({"all", "none"}) \cup {List(<<a, b>>), List(<<x, a>>), List(<<a, y>>)}
=============================================================================
