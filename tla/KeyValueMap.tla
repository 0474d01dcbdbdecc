------------------------------ MODULE KeyValueMap -------------------------------
(***************************************************************************)
(* What clog_hashmap promises its callers, whatever the buckets look like:  *)
(* a map from keys to values.  Each call answers with a pair, its kind and  *)
(* what it returns.                                                         *)
(***************************************************************************)
EXTENDS Naturals, FiniteSets

CONSTANTS Keys, Values, NULL

VARIABLES
    map,        \* the value of each key, NULL for none
    answer      \* what the last call returned

mapVars == <<map, answer>>

Stored == {k \in Keys : map[k] # NULL}

MapInit ==
    /\ map = [k \in Keys |-> NULL]
    /\ answer = <<"none">>

Put(k, v) == answer' = <<"put", "SUCCESS">> /\ map' = [map EXCEPT ![k] = v]

\* No memory: nothing has changed.
PutFails == answer' = <<"put", "NO_MEMORY">> /\ UNCHANGED map

Get(k) == answer' = <<"get", map[k]>> /\ UNCHANGED map

GetDup(k) == answer' \in {<<"get_dup", map[k]>>, <<"get_dup", NULL>>} /\ UNCHANGED map

Take(k) ==
    /\ answer' = <<"take", map[k]>>
    /\ map' = [map EXCEPT ![k] = NULL]

Remove(k) ==
    /\ answer' = <<"remove", map[k] # NULL>>
    /\ map' = [map EXCEPT ![k] = NULL]

IsExists(k) == answer' = <<"exists", map[k] # NULL>> /\ UNCHANGED map

Size == answer' = <<"size", Cardinality(Stored)>> /\ UNCHANGED map

Clear == answer' \in {<<"clear">>, <<"destroy">>} /\ map' = [k \in Keys |-> NULL]

MapNext ==
    \/ \E k \in Keys : \/ \E v \in Values : Put(k, v)
                       \/ Get(k) \/ GetDup(k) \/ Take(k) \/ Remove(k) \/ IsExists(k)
    \/ PutFails
    \/ Size
    \/ Clear

MapSpec == MapInit /\ [][MapNext]_mapVars

================================================================================
