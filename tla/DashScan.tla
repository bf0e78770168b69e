------------------------------- MODULE DashScan ------------------------------
(***************************************************************************)
(* A client iterating over a DashTable with SCAN while other calls change  *)
(* the table.  A cursor is the number of entries, in table order, to skip. *)
(***************************************************************************)
EXTENDS DashTable

CONSTANT Counts  \* the COUNTs of SCAN calls (10 by default)

ASSUME CountsAssumption == Counts \subseteq Nat \ {0}

VARIABLE
  it  \* the iteration: its cursor, the keys it returned, the keys that were
      \* in the table all along, and whether entries were removed or moved

scanVars == <<segs, size, job, last, it>>

PresentKeys(t) == {EntryKey(t, x) : x \in Entries(t)}

Rank(t, x) == Cardinality({y \in Entries(t) : EntryBefore(y, x)})

(* Mutant: the entry at the cursor is skipped. *)
scan_past_cursor(t, start, count) ==
  LET total == Cardinality(Entries(t))
      end == IF start + count < total THEN start + count ELSE total
  IN  [keys |-> {EntryKey(t, x) : x \in {y \in Entries(t) : Rank(t, y) \in start .. end - 1}},
       cursor |-> IF end >= total THEN 0 ELSE end + 1]

(* The entries from index start on, and the cursor for the next call. *)
scan(t, start, count) ==
  LET total == Cardinality(Entries(t))
      end == IF start + count < total THEN start + count ELSE total
  IN  [keys |-> {EntryKey(t, x) : x \in {y \in Entries(t) : Rank(t, y) \in start .. end - 1}},
       cursor |-> IF start >= total \/ end >= total THEN 0 ELSE end]

NoIteration == [state |-> "none", cursor |-> 0, seen |-> {}, stable |-> {}, moved |-> FALSE]

ScanInit == Init /\ it = NoIteration

(* One SCAN call; with cursor 0 it starts a new iteration. *)
cmd_scan(count) ==
  /\ ~Busy
  /\ LET r == scan(segs, it.cursor, count)
         state == IF r.cursor = 0 THEN "done" ELSE "on"
     IN  it' = IF it.state = "on"
               THEN [it EXCEPT !.state = state, !.cursor = r.cursor, !.seen = @ \cup r.keys]
               ELSE [state |-> state, cursor |-> r.cursor, seen |-> r.keys,
                     stable |-> PresentKeys(segs), moved |-> FALSE]
  /\ UNCHANGED vars

(* Any other call on the table, or a step of one, during an iteration. *)
OtherCall ==
  /\ Next
  /\ it' = CASE it.state # "on" -> NoIteration
             [] it.state = "on" /\ job' = Idle ->
                  [it EXCEPT !.stable = @ \cap PresentKeys(segs'),
                             !.moved = @ \/ ~ (Entries(segs) \subseteq Entries(segs'))
                                         \/ Count(segs) # Count(segs')]
             [] OTHER -> [it EXCEPT !.moved = TRUE]

ScanNext == OtherCall \/ \E count \in Counts : cmd_scan(count)

ScanSpec == ScanInit /\ [][ScanNext]_scanVars

-----------------------------------------------------------------------------
(* An iteration returns every key that was in the table from its first to  *)
(* its last SCAN call, whatever else was inserted, removed or grown.       *)
ScanComplete == it.state = "done" => it.stable \subseteq it.seen

(* The same for an iteration during which entries were only added, or      *)
(* replaced in place: new entries push others back, never forward.         *)
ScanCompleteUnmoved == it.state = "done" /\ ~it.moved => it.stable \subseteq it.seen
=============================================================================
