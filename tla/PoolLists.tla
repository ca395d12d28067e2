----------------------------- MODULE PoolLists -----------------------------
(***************************************************************************)
(* How cell.setpool collects its pools. ParseSetPoolCommand puts each item *)
(* of the command into one of two doubly linked lists of list.c, by its    *)
(* algorithm, under the number of the item as its id; SetSpecifyPoolMonitor *)
(* then looks the ids up and copies the pools to gPoolSpecifyConf. All of  *)
(* it runs in the thread of the monitor.                                   *)
(* The lists are modelled with their nodes and pointers. The fields of a   *)
(* pool are abstracted to whether this command gave them or an earlier one.*)
(***************************************************************************)
EXTENDS Integers, FiniteSets, Sequences

CONSTANTS Nodes,      \* what malloc can return
          Null,
          MaxItems,   \* bound: the pools of a command
          MaxPools    \* of an algorithm, 3

ASSUME NodesAssumption == IsFiniteSet(Nodes) /\ Null \notin Nodes
ASSUME ItemsAssumption == MaxItems \in Nat /\ MaxPools \in Nat

VARIABLES
  next, prev, val,   \* list_node_t
  used,              \* the nodes that are allocated
  list,              \* list_t of stBTCPoolConfList and stLTCPoolConfList
  cmd,               \* where the command is
  specify            \* gPoolSpecifyConf

mem == <<next, prev, val, used, list>>
listVars == <<next, prev, val, used, list, cmd, specify>>

Algos == {"BTC", "LTC"}
Other(a) == CHOOSE b \in Algos : b # a
Pool == [id : 0 .. MaxItems, now : BOOLEAN]
Idle == [at |-> "idle"]

EmptyList == [head |-> Null, tail |-> Null, len |-> 0]
NoPools == [a \in Algos |-> <<>>]

ListInit ==
    /\ next = [x \in Nodes |-> Null] /\ prev = [x \in Nodes |-> Null]
    /\ val = [x \in Nodes |-> [id |-> 0, now |-> FALSE]]
    /\ used = {}
    /\ list = [a \in Algos |-> EmptyList]
    /\ cmd = Idle
    /\ specify = NoPools

-----------------------------------------------------------------------------
(* list.c *)

\* list_iterator_next from the head on
Chain(a) ==
    LET at[i \in 1 .. Cardinality(Nodes) + 1] ==
            IF i = 1 THEN list[a].head ELSE IF at[i - 1] = Null THEN Null ELSE next[at[i - 1]]
    IN  [i \in 1 .. Cardinality({j \in DOMAIN at : at[j] # Null}) |-> at[i]]

\* list_find; UserEqual compares the ids as strings, which is right below 256.
Found(a, id) == {x \in {Chain(a)[i] : i \in DOMAIN Chain(a)} : val[x].id = id}

ListRpush(a, x, p) ==
    /\ x \in Nodes \ used
    /\ used' = used \cup {x}
    /\ val' = [val EXCEPT ![x] = p]
    /\ IF list[a].len # 0
       THEN /\ prev' = [prev EXCEPT ![x] = list[a].tail]
            /\ next' = [next EXCEPT ![x] = Null, ![list[a].tail] = x]
            /\ list' = [list EXCEPT ![a].tail = x, ![a].len = @ + 1]
       ELSE /\ prev' = [prev EXCEPT ![x] = Null]
            /\ next' = [next EXCEPT ![x] = Null]
            /\ list' = [list EXCEPT ![a] = [head |-> x, tail |-> x, len |-> 1]]

\* Mutant: the tail stays on a node that was freed.
ListRemoveKeepsTail(a, x) ==
    /\ next' = IF prev[x] # Null THEN [next EXCEPT ![prev[x]] = next[x]] ELSE next
    /\ prev' = IF next[x] # Null THEN [prev EXCEPT ![next[x]] = prev[x]] ELSE prev
    /\ list' = [list EXCEPT ![a].head = IF prev[x] = Null THEN next[x] ELSE @,
                            ![a].len = @ - 1]
    /\ used' = used \ {x}
    /\ UNCHANGED val

\* The node is freed; its pointers stay what they were.
ListRemove(a, x) ==
    /\ next' = IF prev[x] # Null THEN [next EXCEPT ![prev[x]] = next[x]] ELSE next
    /\ prev' = IF next[x] # Null THEN [prev EXCEPT ![next[x]] = prev[x]] ELSE prev
    /\ list' = [list EXCEPT ![a].head = IF prev[x] = Null THEN next[x] ELSE @,
                            ![a].tail = IF next[x] = Null THEN prev[x] ELSE @,
                            ![a].len = @ - 1]
    /\ used' = used \ {x}
    /\ UNCHANGED val

-----------------------------------------------------------------------------
(* ParseSetPoolCommand *)

Begin ==
    /\ cmd = Idle
    /\ cmd' = [at |-> "item", k |-> 1, last |-> 0, algo |-> "BTC", named |-> FALSE,
               ids |-> <<>>, given |-> NoPools]
    /\ val' = [x \in Nodes |-> [val[x] EXCEPT !.now = FALSE]]
    /\ UNCHANGED <<next, prev, used, list, specify>>

NextItem == [cmd EXCEPT !.at = "item", !.k = @ + 1]

HasItem == cmd.at = "item" /\ cmd.k <= MaxItems

\* Mutant: a broken item is not counted.
ItemBrokenUncounted ==
    /\ HasItem
    /\ cmd' = NextItem
    /\ UNCHANGED <<mem, specify>>

\* SetParseAddPoolToString counts gCrrMaxPoolId up, then finds a field missing.
ItemBroken ==
    /\ HasItem
    /\ cmd' = [NextItem EXCEPT !.last = @ + 1]
    /\ UNCHANGED <<mem, specify>>

ItemRead ==
    /\ HasItem
    /\ cmd' = [cmd EXCEPT !.at = IF cmd.k = 1 THEN "delete" ELSE "add", !.last = @ + 1]
    /\ UNCHANGED <<mem, specify>>

\* SetDelAllPoolList: the first node of BTC until there is none, then of LTC.
DeleteFirst ==
    /\ cmd.at = "delete"
    /\ \E a \in Algos :
          /\ list[a].len # 0
          /\ a = "LTC" => list["BTC"].len = 0
          /\ ListRemove(a, list[a].head)
    /\ UNCHANGED <<cmd, specify>>

Deleted ==
    /\ cmd.at = "delete" /\ \A a \in Algos : list[a].len = 0
    /\ cmd' = [cmd EXCEPT !.at = "add"]
    /\ UNCHANGED <<mem, specify>>

\* The algorithm is neither, or a field is empty.
AddRefused ==
    /\ cmd.at = "add"
    /\ cmd' = NextItem
    /\ UNCHANGED <<mem, specify>>

\* Mutant: the other list keeps its node.
UnlinkNever(a) == UNCHANGED mem

\* SetAddPoolToList takes the id from the list of the other algorithm.
Unlink(a) ==
    IF Found(Other(a), cmd.last) = {}
    THEN UNCHANGED mem
    ELSE \E x \in Found(Other(a), cmd.last) : ListRemove(Other(a), x)

AddUnlinks(a) ==
    /\ cmd.at = "add"
    /\ Unlink(a)
    /\ cmd' = [cmd EXCEPT !.at = "put", !.algo = a]
    /\ UNCHANGED specify

This == [id |-> cmd.last, now |-> TRUE]

\* A pool that is in its list is overwritten.
Put(a) ==
    IF Found(a, This.id) = {}
    THEN \E x \in Nodes : ListRpush(a, x, This)
    ELSE /\ val' = [x \in Nodes |-> IF x \in Found(a, This.id) THEN This ELSE val[x]]
         /\ UNCHANGED <<next, prev, used, list>>

\* The number of the item goes into the text; the first one brings "pool_id,".
AddPuts ==
    /\ cmd.at = "put"
    /\ Put(cmd.algo)
    /\ cmd' = [NextItem EXCEPT !.ids = Append(@, cmd.k),
                               !.named = @ \/ cmd.k = 1,
                               !.given[cmd.algo] = Append(@, This)]
    /\ UNCHANGED specify

\* Without "pool_id," in front PackSetPoolMonitorToComm never looks the ids up.
EndUnnamed ==
    /\ cmd.at = "item" /\ cmd.k > 1 /\ ~cmd.named
    /\ cmd' = Idle
    /\ UNCHANGED <<mem, specify>>

-----------------------------------------------------------------------------
(* SetSpecifyPoolMonitor *)

ListOf(id) == IF Found("BTC", id) # {} THEN "BTC"
              ELSE IF Found("LTC", id) # {} THEN "LTC" ELSE "none"

\* The ids that are found in list a, in their order
Looked(a) ==
    LET look[n \in 0 .. Len(cmd.ids)] ==
            IF n = 0 THEN <<>>
            ELSE IF ListOf(cmd.ids[n]) = a THEN Append(look[n - 1], cmd.ids[n]) ELSE look[n - 1]
    IN  look[Len(cmd.ids)]

Copied(a) == [i \in DOMAIN Looked(a) |-> val[CHOOSE x \in Found(a, Looked(a)[i]) : TRUE]]

\* An id in neither list is answered and passed over.
LookUp ==
    /\ cmd.at = "item" /\ cmd.k > 1 /\ cmd.named
    /\ specify' = IF \E a \in Algos : Len(Looked(a)) > MaxPools
                  THEN NoPools ELSE [a \in Algos |-> Copied(a)]
    /\ cmd' = Idle
    /\ UNCHANGED mem

ListNext ==
    \/ Begin
    \/ ItemBroken
    \/ ItemRead
    \/ DeleteFirst
    \/ Deleted
    \/ AddRefused
    \/ \E a \in Algos : AddUnlinks(a)
    \/ AddPuts
    \/ EndUnnamed
    \/ LookUp

ListSpec == ListInit /\ [][ListNext]_listVars

-----------------------------------------------------------------------------
ListTypeOK ==
    /\ next \in [Nodes -> Nodes \cup {Null}] /\ prev \in [Nodes -> Nodes \cup {Null}]
    /\ val \in [Nodes -> Pool]
    /\ used \subseteq Nodes
    /\ \A a \in Algos : list[a] \in [head : Nodes \cup {Null}, tail : Nodes \cup {Null},
                                     len : 0 .. Cardinality(Nodes)]
    /\ \A a \in Algos : \A i \in DOMAIN specify[a] : specify[a][i] \in Pool

Members(a) == {Chain(a)[i] : i \in DOMAIN Chain(a)}

\* From the head the chain is as long as len says, ends at the tail and is
\* mirrored by prev; every allocated node is in exactly one of the two lists,
\* so that none is lost and none is reached after its free: list.c.
WellLinked ==
    /\ ListTypeOK
    /\ \A a \in Algos :
          LET c == Chain(a)
          IN  /\ Len(c) = list[a].len
              /\ list[a].tail = IF c = <<>> THEN Null ELSE c[Len(c)]
              /\ Cardinality(Members(a)) = Len(c)
              /\ \A i \in DOMAIN c : prev[c[i]] = IF i = 1 THEN Null ELSE c[i - 1]
    /\ Members("BTC") \cup Members("LTC") = used
    /\ Members("BTC") \cap Members("LTC") = {}

\* A command whose first pool was accepted leaves in gPoolSpecifyConf its own
\* pools in their order, or nothing when an algorithm has too many: never a
\* pool of the command before, whose lists are emptied only by the first item
\* (api_monitor.c:1921, 2041).
SpecifyIsCommand ==
    [][cmd # Idle /\ cmd' = Idle /\ cmd.named =>
         specify' = IF \E a \in Algos : Len(cmd.given[a]) > MaxPools
                    THEN NoPools ELSE cmd.given]_listVars

Lists == INSTANCE PoolSequences WITH
    pools <- [a \in Algos |-> [i \in DOMAIN Chain(a) |-> val[Chain(a)[i]]]]

\* The pointers of list.c give two sequences in which each id is once.
ImplementsSequences == Lists!Spec
=============================================================================
