---------------------------- MODULE ReleaseShelf ----------------------------
(***************************************************************************)
(* What the release lifecycle promises about one stored binary, without    *)
(* journals, leases, markers or crashes: it is written once; it is offered *)
(* only when it is whole, and withdrawn for good; downloads take only whole *)
(* binaries; and its bytes are erased only after the withdrawal, with no   *)
(* download on them, and never come back.                                  *)
(* AgentReleases implements this specification (Shelf!Spec there).         *)
(***************************************************************************)

CONSTANTS Arts, Readers

VARIABLES
    shelf,  \* absent, offered, withdrawn
    bytes,  \* none, part, full, gone
    taken   \* pairs of a download and the binary it is sending

Init ==
    /\ shelf = [a \in Arts |-> "absent"]
    /\ bytes = [a \in Arts |-> "none"]
    /\ taken = {}

Write(a, from, to) ==
    /\ shelf[a] # "offered" /\ bytes[a] = from
    /\ bytes' = [bytes EXCEPT ![a] = to]
    /\ UNCHANGED <<shelf, taken>>

Offer(a) ==
    /\ shelf[a] = "absent" /\ bytes[a] = "full"
    /\ shelf' = [shelf EXCEPT ![a] = "offered"]
    /\ UNCHANGED <<bytes, taken>>

Withdraw(a) ==
    /\ shelf[a] # "withdrawn"
    /\ shelf' = [shelf EXCEPT ![a] = "withdrawn"]
    /\ UNCHANGED <<bytes, taken>>

Erase(a) ==
    /\ shelf[a] = "withdrawn" /\ \A d \in Readers : <<d, a>> \notin taken
    /\ bytes' = [bytes EXCEPT ![a] = "gone"]
    /\ UNCHANGED <<shelf, taken>>

Take(d, a) ==
    /\ bytes[a] = "full" /\ shelf[a] # "absent"
    /\ taken' = taken \cup {<<d, a>>}
    /\ UNCHANGED <<shelf, bytes>>

Return(d) ==
    /\ taken' = {t \in taken : t[1] # d}
    /\ UNCHANGED <<shelf, bytes>>

Next ==
    \/ \E d \in Readers : Return(d) \/ \E a \in Arts : Take(d, a)
    \/ \E a \in Arts : \/ Write(a, "none", "part") \/ Write(a, "part", "full")
                       \/ Offer(a) \/ Withdraw(a) \/ Erase(a)

Spec == Init /\ [][Next]_<<shelf, bytes, taken>>
=============================================================================
