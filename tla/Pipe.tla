-------------------------------- MODULE Pipe --------------------------------
(***************************************************************************)
(* What one direction of a tunnel promises ("guaranteed delivery",         *)
(* client/core/udp_reliable.go): what is read from the source's connection *)
(* is written to the sink's at least once, in any order, as long as the    *)
(* source is open; nothing is written to a sink that has ended, an end     *)
(* does not open again, and the end of the sink ends the source.           *)
(***************************************************************************)
EXTENDS Integers

CONSTANT Max       \* bound: segments read

VARIABLES taken,   \* segments read from the source
          got,     \* segments written to the sink
          src, dst \* the ends are open

vars == <<taken, got, src, dst>>

Init == taken = 0 /\ got = {} /\ src = TRUE /\ dst = TRUE

Take    == src /\ taken < Max /\ taken' = taken + 1 /\ UNCHANGED <<got, src, dst>>
Give(n) == dst /\ n <= taken /\ got' = got \cup {n} /\ UNCHANGED <<taken, src, dst>>
EndSrc  == src /\ src' = FALSE /\ UNCHANGED <<taken, got, dst>>
EndDst  == dst /\ dst' = FALSE /\ UNCHANGED <<taken, got, src>>

Next == Take \/ EndSrc \/ EndDst \/ \E n \in 1 .. Max : Give(n)

Safe == Init /\ [][Next]_vars
Spec == /\ Safe
        /\ \A n \in 1 .. Max : WF_vars(src /\ n \notin got /\ Give(n))
        /\ WF_vars(~dst /\ EndSrc)
=============================================================================
