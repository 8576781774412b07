---------------------------- MODULE DerivedIndex ----------------------------
(***************************************************************************)
(* What the search index of ForgetBase promises, without saying how: it is *)
(* a derived copy that may lag behind the content it is derived from, but  *)
(* never shows anything else than the content's present value or nothing,  *)
(* and it says truthfully (settled) when it has caught up.                 *)
(***************************************************************************)
CONSTANTS
    Keys,       \* what is indexed
    Values,     \* what a key may show
    Nothing     \* no value

VARIABLES
    source,     \* the value readers should see, by key
    served,     \* the value readers are given, by key
    settled     \* keys whose derived copy is reported up to date

derivedVars == <<source, served, settled>>

Init ==
    /\ source = [k \in Keys |-> Nothing]
    /\ served = source
    /\ settled = Keys

\* The content changes.  What is served follows at once, or disappears until
\* the copy has been rebuilt; the key is no longer settled.
Change(k) ==
    /\ \E value \in Values \cup {Nothing} : source' = [source EXCEPT ![k] = value]
    /\ served' \in {[served EXCEPT ![k] = Nothing], [served EXCEPT ![k] = source'[k]]}
    /\ settled' = settled \ {k}

\* The copy of an unsettled key is rebuilt or dropped.
Rebuild(k) ==
    /\ k \notin settled
    /\ served' \in {[served EXCEPT ![k] = Nothing], [served EXCEPT ![k] = source[k]]}
    /\ UNCHANGED <<source, settled>>

\* The key is reported up to date, which it must be.
Settle(k) ==
    /\ k \notin settled
    /\ served[k] = source[k]
    /\ settled' = settled \cup {k}
    /\ UNCHANGED <<source, served>>

Next == \E k \in Keys : Change(k) \/ Rebuild(k) \/ Settle(k)

Spec == Init /\ [][Next]_derivedVars
=============================================================================
