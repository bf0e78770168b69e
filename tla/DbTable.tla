------------------------------- MODULE DbTable -------------------------------
(***************************************************************************)
(* One database of a shard: the prime table (key -> value) and the expire  *)
(* table (key -> deadline in ms), with the operations that never look at   *)
(* the clock.  Both DashTables are taken as the maps they implement; how   *)
(* they do so is the subject of module DashTable.                          *)
(*                                                                         *)
(* Keys are natural numbers, numbered in the order in which the expire     *)
(* table iterates over them.  A table with at most one key per home bucket *)
(* (and hence no probing, stash or growth) iterates in (segment, bucket)   *)
(* order, so that the order does not depend on the history of insertions.  *)
(***************************************************************************)
EXTENDS Integers, FiniteSets

CONSTANTS
  Keys,       \* keys, in the iteration order of the expire table
  Strings,    \* string values whose bytes are not a canonical i64
  Trimmed,    \* the i64 that some of Strings read as once trimmed (" 5", "+5")
  List,       \* a (non-empty) collection value: any type that is no string
  IntMax,     \* i64::MAX for the integers stored as values
  U64,        \* 2^64: the width of the deadline arithmetic
  Absent,     \* no entry in the prime table
  NoDeadline  \* no entry in the expire table

IntMin == -IntMax - 1
Integers64 == IntMin .. IntMax
Deadlines == 0 .. U64 - 1

(* PrimeValue::String of a canonical integer and PrimeValue::Integer give  *)
(* the same bytes, length and integer, so one abstract value stands for    *)
(* both.                                                                   *)
StringValues == Strings \cup Integers64
Values == StringValues \cup {List}

ASSUME ConstantsAssumption ==
  /\ Keys \subseteq Nat /\ IsFiniteSet(Keys)
  /\ IntMax \in Nat
  /\ U64 \in Nat \ {0}
  /\ Absent \notin Values
  /\ List \notin StringValues
  /\ DOMAIN Trimmed \subseteq Strings
  /\ \A v \in DOMAIN Trimmed : Trimmed[v] \in Integers64
  /\ NoDeadline \notin Int

Tables == [prime : [Keys -> Values \cup {Absent}],
           expire : [Keys -> Deadlines \cup {NoDeadline}]]

EmptyTable == [prime |-> [k \in Keys |-> Absent],
               expire |-> [k \in Keys |-> NoDeadline]]

is_string(v) == v \in StringValues

(* An i64 where v reads as one. *)
as_integer(v) == IF v \in DOMAIN Trimmed THEN Trimmed[v] ELSE v

Contains(d, k) == d.prime[k] # Absent

Present(d) == {k \in Keys : Contains(d, k)}

HasDeadline(d) == {k \in Keys : d.expire[k] # NoDeadline}

-----------------------------------------------------------------------------
(* Both tables forget the keys of K. *)
Remove(d, K) ==
  [prime |-> [k \in Keys |-> IF k \in K THEN Absent ELSE d.prime[k]],
   expire |-> [k \in Keys |-> IF k \in K THEN NoDeadline ELSE d.expire[k]]]

add_or_update(d, k, v) == [d EXCEPT !.prime[k] = v]

(* Mutant: the deadline stays behind. *)
del_prime_only(d, k) == [d EXCEPT !.prime[k] = Absent]

del(d, k) == Remove(d, {k})

add_expire(d, k, deadline) ==
  IF Contains(d, k) THEN [d EXCEPT !.expire[k] = deadline] ELSE d

remove_expire(d, k) == [d EXCEPT !.expire[k] = NoDeadline]

(* Mutant: the deadline is copied, not moved. *)
rename_copies_deadline(d, from, to) ==
  IF Contains(d, from)
  THEN [prime |-> [d.prime EXCEPT ![from] = Absent, ![to] = d.prime[from]],
        expire |-> [d.expire EXCEPT ![to] = d.expire[from]]]
  ELSE remove_expire(d, from)

rename(d, from, to) ==
  IF Contains(d, from)
  THEN LET r == Remove(d, {from})
       IN  [prime |-> [r.prime EXCEPT ![to] = d.prime[from]],
            expire |-> [r.expire EXCEPT ![to] = d.expire[from]]]
  ELSE remove_expire(d, from)

-----------------------------------------------------------------------------
(* Arithmetic on deadlines is u64 arithmetic of a release build.  A TTL or *)
(* timestamp argument is an i64; `as u64` maps it to its residue.          *)
Wrap(n) == n % U64

RelativeDeadline(t, n, unit) == Wrap(t + Wrap(Wrap(n) * unit))

AbsoluteDeadline(n, unit) == Wrap(Wrap(n) * unit)

(* Mutant: the sum is not checked. *)
Fits_unchecked(n) == TRUE

(* A stored integer plus delta, when i64 holds the sum (checked_add). *)
Fits(n) == n \in Integers64

(* -delta of an i64: the least one is its own negation in a release build. *)
WrappingNeg(delta) == IF delta = IntMin THEN IntMin ELSE -delta

-----------------------------------------------------------------------------
(* Replies, up to wording. *)
Ok == <<"ok">>
Err == <<"err">>
WrongType == <<"wrongtype">>
Nil == <<"nil">>
IntReply(n) == <<"int", n>>
Bulk(v) == <<"bulk", v>>
KeyList(S) == <<"keys", S>>
ValueList(f) == <<"values", f>>

StringReply(v) ==
  CASE v = Absent -> Nil
    [] is_string(v) -> Bulk(v)
    [] OTHER -> WrongType
=============================================================================
