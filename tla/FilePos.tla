------------------------------ MODULE FilePos ------------------------------
(***************************************************************************)
(* What a handle promises about the position in its file: handles that     *)
(* share a position move together, all others move alone; a duplicate      *)
(* begins where its source is; closing a handle moves nobody.              *)
(***************************************************************************)
EXTENDS Integers

CONSTANTS Slot,     \* handles
          MaxPos    \* bound: positions

VARIABLES with,     \* handles that share the position of a handle, {} if closed
          at        \* its position, 0 if closed

Shut == {h \in Slot : with[h] = {}}

Init == /\ with = [h \in Slot |-> {}]
        /\ at = [h \in Slot |-> 0]

(* a position of its own: at the start of the file, or where g is          *)
New(h, p) == /\ h \in Shut
             /\ with' = [with EXCEPT ![h] = {h}]
             /\ at' = [at EXCEPT ![h] = p]
Open == \E h \in Shut : New(h, 0)
Copy == \E h \in Shut, g \in Slot \ Shut : New(h, at[g])

(* every new handle h shares the position of f[h]                          *)
Attach(f) ==
    LET Joined(g) == {h \in DOMAIN f : f[h] \in with[g]}
        Root(x) == IF x \in DOMAIN f THEN f[x] ELSE x
    IN  /\ with' = [x \in Slot |-> IF with[Root(x)] = {} THEN {}
                                   ELSE with[Root(x)] \cup Joined(Root(x))]
        /\ at' = [x \in Slot |-> at[Root(x)]]
Share == /\ with' # with
         /\ \E H \in SUBSET Shut : \E f \in [H -> Slot \ Shut] : Attach(f)

Close == \E h \in Slot \ Shut :
    /\ with' = [x \in Slot |-> IF x = h THEN {} ELSE with[x] \ {h}]
    /\ at' = [at EXCEPT ![h] = 0]

Move == \E h \in Slot \ Shut, p \in 0..MaxPos :
    /\ UNCHANGED with
    /\ at' = [x \in Slot |-> IF x \in with[h] THEN p ELSE at[x]]

Next == Move \/ Open \/ Copy \/ Close \/ Share

Spec == Init /\ [][Next]_<<with, at>>
=============================================================================
