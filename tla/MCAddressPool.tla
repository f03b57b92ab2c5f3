----------------------------- MODULE MCAddressPool -----------------------------
(***************************************************************************)
(* firstAvailable on every table of taken offsets: the table grows by the  *)
(* offset the search returns and shrinks by any.                           *)
(***************************************************************************)
EXTENDS AddressPool

VARIABLE taken

Init == taken = {}

Take ==
    LET free == firstAvailable(taken)
    IN  free.found /\ taken' = taken \cup {free.offset}

GiveBack == \E offset \in taken : taken' = taken \ {offset}

Next == Take \/ GiveBack

Spec == Init /\ [][Next]_taken

\* The bitmap search finds the least free offset of the pool, in whichever word
\* it lies, and reports that there is none only when the pool is used up.
FindsLeastFree ==
    LET free == firstAvailable(taken)
    IN  IF taken = Offset
        THEN ~ free.found
        ELSE /\ free.found
             /\ free.offset \in Offset \ taken
             /\ \A offset \in Offset \ taken : free.offset <= offset

=============================================================================
