---------------------------- MODULE SyncPromise ----------------------------
(***************************************************************************)
(* What a local-sync server promises its devices, without saying how: each *)
(* manifest is made in one moment, of what the principal may cache then,   *)
(* for a device that is not revoked then, and under counters that name     *)
(* that content and have never named another.                              *)
(***************************************************************************)
EXTENDS Naturals

VARIABLES
    content,    \* what the principal may cache: which assets, and their records
    keys,       \* the key of each device, 0 when it is revoked
    counted,    \* the counters, and the content they are for
    told        \* the manifests

promiseVars == <<content, keys, counted, told>>

Init ==
    /\ counted.epoch = 0 /\ counted.gen = 0 /\ counted.content = content
    /\ told = {}

\* Editors, administrators and devices change what there is.
Change == UNCHANGED <<counted, told>>

\* A number stays only for the same assets, or the same records.
Count ==
    /\ counted'.content = content
    /\ counted'.epoch >= counted.epoch /\ counted'.gen >= counted.gen
    /\ counted'.epoch = counted.epoch => content.scope = counted.content.scope
    /\ counted'.gen = counted.gen => content.records = counted.content.records
    /\ UNCHANGED <<content, keys, told>>

\* A device was revoked: what the others hold is to be compared again.
Raise ==
    /\ counted' = [counted EXCEPT !.epoch = @ + 1]
    /\ UNCHANGED <<content, keys, told>>

Answer(d) ==
    /\ keys[d] # 0
    /\ counted.content = content
    /\ told' = told \cup {[device |-> d, key |-> keys[d], epoch |-> counted.epoch,
                           gen |-> counted.gen, content |-> content]}
    /\ UNCHANGED <<content, keys, counted>>

Next == Change \/ Count \/ Raise \/ \E d \in DOMAIN keys : Answer(d)

Spec == Init /\ [][Next]_promiseVars
=============================================================================
