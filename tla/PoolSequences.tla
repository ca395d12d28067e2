--------------------------- MODULE PoolSequences ---------------------------
(***************************************************************************)
(* The two pool lists as their users see them: a sequence of pools for     *)
(* each algorithm, every id in one of them only. PoolLists implements it   *)
(* with the linked lists of list.c.                                        *)
(***************************************************************************)
EXTENDS Integers, Sequences

CONSTANT MaxItems   \* the pools of a command

Algos == {"BTC", "LTC"}
Other(a) == CHOOSE b \in Algos : b # a

VARIABLE pools

Init == pools = [a \in Algos |-> <<>>]

Ids(s) == {s[i].id : i \in DOMAIN s}

\* Another command begins: the pools in the lists are those of the one before.
Age == pools' = [a \in Algos |-> [i \in DOMAIN pools[a] |-> [pools[a][i] EXCEPT !.now = FALSE]]]

DropFirst(a) ==
    /\ pools[a] # <<>>
    /\ pools' = [pools EXCEPT ![a] = Tail(@)]

Without(s, i) == [j \in 1 .. Len(s) - 1 |-> IF j < i THEN s[j] ELSE s[j + 1]]

\* The pool with this id is taken out.
Drop(a, id) ==
    \E i \in DOMAIN pools[a] :
        /\ pools[a][i].id = id
        /\ pools' = [pools EXCEPT ![a] = Without(@, i)]

\* A pool that is in the list keeps its place and gets the new data.
Put(a, p) ==
    /\ p.id \notin Ids(pools[Other(a)])
    /\ pools' = [pools EXCEPT
           ![a] = IF p.id \in Ids(@)
                  THEN [i \in DOMAIN @ |-> IF @[i].id = p.id THEN p ELSE @[i]]
                  ELSE Append(@, p)]

Next ==
    \/ Age
    \/ \E a \in Algos : DropFirst(a)
    \/ \E a \in Algos, id \in 1 .. MaxItems : Drop(a, id) \/ Put(a, [id |-> id, now |-> TRUE])

Spec == Init /\ [][Next]_pools
=============================================================================
