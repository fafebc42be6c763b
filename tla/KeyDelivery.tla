---------------------------- MODULE KeyDelivery ----------------------------
(***************************************************************************)
(* What the key management entity promises to the applications, stated     *)
(* without the data structure that keeps the promise: the life of every    *)
(* key of every route.  A key arrives, waits its turn in the line of its   *)
(* route, is issued to the master, then completed by the slave and gone.   *)
(* Each completion spends one arrival: a key that is completed again has   *)
(* arrived again, waited behind the others and been issued again.  All     *)
(* keys may be forgotten at once, at any stage, and arrive anew.           *)
(*                                                                         *)
(* KMEKeyStore implements this module (see KMEKeyStore!Delivery).          *)
(***************************************************************************)
EXTENDS Naturals, Sequences, FiniteSets

CONSTANTS Route,   \* the routes, one per pair of applications
          KeyId    \* the key identifiers of a route

VARIABLES stage,     \* stage[r][k]: how far key k of route r has come,
                     \* "absent", "waiting", "issued" or "burnt"
          line,      \* line[r]: the keys that wait for a master, oldest first
          completed  \* completed[r][k]: how often a slave was handed the key

vars == <<stage, line, completed>>

Init == /\ stage = [r \in Route |-> [k \in KeyId |-> "absent"]]
        /\ line = [r \in Route |-> <<>>]
        /\ completed = [r \in Route |-> [k \in KeyId |-> 0]]

\* The sequences that list every element of S exactly once.
Listings(S) ==
  {f \in [1..Cardinality(S) -> S] :
     \A k \in S : \E i \in 1..Cardinality(S) :
        /\ f[i] = k
        /\ \A j \in 1..Cardinality(S) : f[j] = k => j = i}

\* Sets the stage of the keys S of route r to s.
Move(r, S, s) == [k \in KeyId |-> IF k \in S THEN s ELSE stage[r][k]]

\* Keys arrive on any number of routes and queue up behind the waiting ones.
Arrive ==
  \E new \in [Route -> SUBSET KeyId] :
    /\ \A r \in Route : \A k \in new[r] : stage[r][k] = "absent"
    /\ stage' = [r \in Route |-> Move(r, new[r], "waiting")]
    /\ \E order \in [Route -> UNION {Listings(new[r]) : r \in Route}] :
         /\ \A r \in Route : order[r] \in Listings(new[r])
         /\ line' = [r \in Route |-> line[r] \o order[r]]
    /\ UNCHANGED completed

\* The n oldest waiting keys of route r are issued to a master.
Issue(r) ==
  \E n \in 1..Len(line[r]) :
    /\ stage' = [stage EXCEPT ![r] =
                   Move(r, {line[r][i] : i \in 1..n}, "issued")]
    /\ line' = [line EXCEPT ![r] = SubSeq(line[r], n + 1, Len(line[r]))]
    /\ UNCHANGED completed

\* Issued keys of route r are handed to the slave, once each, and gone.
Complete(r) ==
  \E S \in SUBSET {k \in KeyId : stage[r][k] = "issued"} :
    /\ stage' = [stage EXCEPT ![r] = Move(r, S, "absent")]
    /\ completed' = [completed EXCEPT ![r] = [k \in KeyId |->
                       IF k \in S THEN @[k] + 1 ELSE @[k]]]
    /\ UNCHANGED line

\* A failed request spends issued keys of route r without handing them out.
Burn(r) ==
  \E S \in SUBSET {k \in KeyId : stage[r][k] = "issued"} :
    /\ stage' = [stage EXCEPT ![r] = Move(r, S, "burnt")]
    /\ UNCHANGED <<line, completed>>

\* All keys are forgotten: they may arrive again.
Forget ==
  /\ stage' = [r \in Route |-> [k \in KeyId |-> "absent"]]
  /\ line' = [r \in Route |-> <<>>]
  /\ UNCHANGED completed

Next == \/ Arrive
        \/ Forget
        \/ \E r \in Route : Issue(r) \/ Complete(r) \/ Burn(r)

Spec == Init /\ [][Next]_vars
=============================================================================
