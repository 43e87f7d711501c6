------------------------------ MODULE EnrollOnce ------------------------------
(* What enrollment promises, without the requests, the answers and the files:
   a token gives out one identity at most, to one host or to nobody, and an
   identity never goes to another host, nor comes back once it is lost.     *)
EXTENDS NoRecord

CONSTANTS Hosts, Tokens, Identities

VARIABLES
    spent,   \* the tokens that give out nothing any more
    place    \* of each identity: Unused (not given out), its host, Gone (lost)

onceVars == <<spent, place>>

Init == spent = {} /\ place = [i \in Identities |-> Unused]

Enroll(k, i, where) ==
    /\ k \notin spent /\ place[i] = Unused
    /\ spent' = spent \cup {k}
    /\ place' = [place EXCEPT ![i] = where]

Void(ks) == spent' = spent \cup ks /\ UNCHANGED place

\* One host at a time loses what it has, or a part of it
Lose(h, ids) ==
    /\ \A i \in ids : place[i] = h
    /\ place' = [i \in Identities |-> IF i \in ids THEN Gone ELSE place[i]]
    /\ UNCHANGED spent

Next ==
    \/ \E ks \in SUBSET Tokens : Void(ks)
    \/ \E k \in Tokens, i \in Identities, where \in Hosts \cup {Gone} : Enroll(k, i, where)
    \/ \E h \in Hosts, ids \in SUBSET Identities : Lose(h, ids)

Spec == Init /\ [][Next]_onceVars
==============================================================================
