------------------------------ MODULE PageMap ------------------------------
(***************************************************************************)
(* What page_table_map and page_table_unmap promise: an address space is a *)
(* function from virtual pages to physical frames, a map call sets one     *)
(* value or, out of memory, none, and an unmap call clears one.  Once the  *)
(* tables are lost there is no such function, and nothing is promised.     *)
(***************************************************************************)
CONSTANTS Pages, Frames, None

VARIABLES mapping, status

Init == mapping = [v \in Pages |-> None] /\ status = "intact"

Map(v, f) == mapping' = [mapping EXCEPT ![v] = f]
Unmap(v) == mapping' = [mapping EXCEPT ![v] = None]
Lost == status' = "lost"

Next ==
    \/ /\ status = "intact" /\ UNCHANGED status
       /\ \E v \in Pages : Unmap(v) \/ \E f \in Frames : Map(v, f)
    \/ Lost

Spec == Init /\ [][Next]_<<mapping, status>>

=============================================================================
