------------------------------ MODULE MCDashScan -----------------------------
(* DashScan on tables with buckets of one slot. *)
EXTENDS DashScan, TLC

CONSTANTS stays, leaves, leavesLate  \* three of the keys of Crowd

Hash(seg, home, fp) == [seg |-> seg, home |-> home, fp |-> fp]

(* Most keys share a segment and a home bucket however often the table     *)
(* grows.  Key `stays` remains in the segment with them, `leaves` leaves   *)
(* it when the table first grows, `leavesLate` a growth later.             *)
Crowd == [k \in Keys |-> CASE k = stays -> Hash(0, 1, 0)
                            [] k = leaves -> Hash(1, 0, 0)
                            [] k = leavesLate -> Hash(2, 0, 0)
                            [] OTHER -> Hash(0, 0, 0)]
CrowdSymmetry == Permutations(Keys \ {stays, leaves, leavesLate})
DropTwo == {{stays, leaves}}

ScanContents == <<segs, size, job, it>>
=============================================================================
