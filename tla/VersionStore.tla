---------------------------- MODULE VersionStore ----------------------------
(***************************************************************************)
(* What an object store promises about versions, without tables, files or  *)
(* tasks: an id is published at most once, a published body never changes, *)
(* and a version that has been retired does not come back.                 *)
(***************************************************************************)
CONSTANTS Ids, Bodies

VARIABLES
    published,  \* id -> body of the versions a reader can find
    free        \* ids that may still be published

Init ==
    /\ DOMAIN published = {}
    /\ free = Ids

\* One write: it retires the versions it replaces and publishes its own.
Publish ==
    \E i \in free, S \in SUBSET DOMAIN published, body \in Bodies :
        /\ free' = free \ {i}
        /\ published' = [j \in (DOMAIN published \ S) \cup {i} |->
                            IF j = i THEN body ELSE published[j]]

\* Versions are removed; ids of writes that came to nothing are wasted.
Retire ==
    \E S \in SUBSET DOMAIN published :
        /\ published' = [j \in DOMAIN published \ S |-> published[j]]
        /\ free' \subseteq free

Next == Publish \/ Retire

Spec == Init /\ [][Next]_<<published, free>>
=============================================================================
