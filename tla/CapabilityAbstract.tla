------------------------- MODULE CapabilityAbstract -------------------------
(***************************************************************************)
(* What the capability layer promises its users, with no tables, slots or  *)
(* generations in it: a set of objects that only grows, and a map from the *)
(* tokens that are currently honoured to the object and the rights each of *)
(* them conveys.  One operation changes one token and nothing else.        *)
(***************************************************************************)

CONSTANTS Ids,        \* object identifiers
          Tokens,     \* capability tokens
          Types,      \* object types
          Rights      \* right bits

VARIABLES objects,    \* the type of each existing object
          granted     \* what each honoured token conveys

absVars == <<objects, granted>>

Conveyed == [object : Ids, rights : (SUBSET Rights) \ {{}}]

Init ==
    /\ objects = [id \in {} |-> id]
    /\ granted = [t \in {} |-> t]

\* f with x mapped to v as well.
With(f, x, v) == [y \in DOMAIN f \cup {x} |-> IF y = x THEN v ELSE f[y]]

\* f without x.
Without(f, x) == [y \in DOMAIN f \ {x} |-> f[y]]

NewObject(id, type) ==
    /\ id \notin DOMAIN objects
    /\ objects' = With(objects, id, type)
    /\ UNCHANGED granted

Grant(t, c) ==
    /\ t \notin DOMAIN granted
    /\ c.object \in DOMAIN objects
    /\ granted' = With(granted, t, c)
    /\ UNCHANGED objects

Revoke(t) ==
    /\ t \in DOMAIN granted
    /\ granted' = Without(granted, t)
    /\ UNCHANGED objects

Next ==
    \/ \E id \in Ids, type \in Types : NewObject(id, type)
    \/ \E t \in Tokens, c \in Conveyed : Grant(t, c)
    \/ \E t \in Tokens : Revoke(t)

Spec == Init /\ [][Next]_absVars

=============================================================================
