-------------------------------- MODULE Glob ---------------------------------
(***************************************************************************)
(* Pattern matching of KEYS and SCAN: glob_match against a definition of   *)
(* what a pattern means.  Characters are byte values.                      *)
(***************************************************************************)
EXTENDS Integers, Sequences

LOCAL INSTANCE SequencesExt
LOCAL INSTANCE FiniteSetsExt

CONSTANTS
  Chars,           \* bytes of keys; InvalidByte occurs in no UTF-8 text
  MaxGlob, MaxText \* bounds on the lengths

VARIABLES pat,  \* the parts of a pattern
          text  \* the key it is matched with

Star == 42
Dash == 45
Question == 63
Open == 91
Close == 93
Caret == 94
InvalidByte == 255

-----------------------------------------------------------------------------
RECURSIVE Class(_, _, _, _)
(* Mutant: the upper end of a range is left out. *)
Class_half_open(p, c, pi, matched) ==
  IF pi > Len(p) \/ p[pi] = Close THEN [matched |-> matched, pi |-> Min({pi + 1, Len(p) + 1})]
  ELSE IF pi + 2 <= Len(p) /\ p[pi + 1] = Dash
       THEN Class(p, c, pi + 3, matched \/ (p[pi] <= c /\ c < p[pi + 2]))
       ELSE Class(p, c, pi + 1, matched \/ c = p[pi])

(* The inside of [...] from place pi on: whether c is named in it, and the *)
(* place after its end.  Without a ] the class runs to the end.            *)
Class(p, c, pi, matched) ==
  IF pi > Len(p) \/ p[pi] = Close THEN [matched |-> matched, pi |-> Min({pi + 1, Len(p) + 1})]
  ELSE IF pi + 2 <= Len(p) /\ p[pi + 1] = Dash
       THEN Class(p, c, pi + 3, matched \/ (p[pi] <= c /\ c <= p[pi + 2]))
       ELSE Class(p, c, pi + 1, matched \/ c = p[pi])

RECURSIVE Loop(_, _, _, _, _, _)
(* The loop of glob_match_str at pattern place pi and input place ii; the  *)
(* last star was met at pattern place sp (0: none) and now stands for the  *)
(* input up to si.                                                         *)
Loop(p, t, pi, ii, sp, si) ==
  LET in == pi <= Len(p)
      negate == pi + 1 <= Len(p) /\ p[pi + 1] = Caret
      class == Class(p, t[ii], IF negate THEN pi + 2 ELSE pi + 1, FALSE)
      backtrack == sp # 0 /\ Loop(p, t, sp, si + 1, sp, si + 1)
  IN  CASE ii > Len(t) -> \A i \in pi .. Len(p) : p[i] = Star
        [] ii <= Len(t) /\ in /\ p[pi] \in {Question, t[ii]} -> Loop(p, t, pi + 1, ii + 1, sp, si)
        [] ii <= Len(t) /\ in /\ p[pi] = Star /\ t[ii] # Star -> Loop(p, t, pi + 1, ii, pi, ii)
        [] ii <= Len(t) /\ in /\ p[pi] = Open /\ t[ii] # Open ->
             IF class.matched = negate THEN backtrack ELSE Loop(p, t, class.pi, ii + 1, sp, si)
        [] OTHER -> backtrack

glob_match(p, t) == InvalidByte \notin Range(t) /\ Loop(p, t, 1, 1, 0, 1)

-----------------------------------------------------------------------------
(* Patterns by their parts, and how each is written. *)

Lit(c) == [part |-> "literal", chars |-> {c}, bytes |-> <<c>>]
AnyOne == [part |-> "any", chars |-> 0 .. 255, bytes |-> <<Question>>]
AnyRun == [part |-> "run", chars |-> {}, bytes |-> <<Star>>]
OneOf == [part |-> "class", chars |-> {97, 99}, bytes |-> <<Open, 97, 99, Close>>]
Between == [part |-> "class", chars |-> 97 .. 98, bytes |-> <<Open, 97, Dash, 98, Close>>]
NotIn == [part |-> "class", chars |-> (0 .. 255) \ {97}, bytes |-> <<Open, Caret, 97, Close>>]
Parts == {Lit(97), Lit(98), AnyOne, AnyRun, OneOf, Between, NotIn}

(* Classes without their ], which end where the pattern does.  A range     *)
(* that has no upper end is two characters.                                *)
Unclosed == {[part |-> "class", chars |-> {97, Dash}, bytes |-> <<Open, 97, Dash>>],
             [part |-> "class", chars |-> (0 .. 255) \ {97}, bytes |-> <<Open, Caret, 97>>]}
Patterns ==
  SeqOf(Parts, MaxGlob) \cup {Append(ps, u) : ps \in SeqOf(Parts, MaxGlob - 1), u \in Unclosed}

Written(ps) == FlattenSeq([i \in DOMAIN ps |-> ps[i].bytes])

RECURSIVE Means(_, _)
Means(ps, t) ==
  IF ps = <<>> THEN t = <<>>
  ELSE IF ps[1].part = "run" THEN \E n \in 0 .. Len(t) : Means(Tail(ps), SubSeq(t, n + 1, Len(t)))
  ELSE t # <<>> /\ t[1] \in ps[1].chars /\ Means(Tail(ps), Tail(t))

GlobInit == pat \in Patterns /\ text \in SeqOf(Chars, MaxText)

(* KEYS and SCAN MATCH select the keys that the pattern means, also when   *)
(* its last class is left open.  Exempt are keys that are not UTF-8, which *)
(* never match, and keys with a * or a [ for patterns with a star or a     *)
(* class: the character is compared with the pattern's before its meaning  *)
(* is looked at.                                                           *)
GlobExact ==
  LET has(part) == \E i \in DOMAIN pat : pat[i].part = part
  IN  \/ InvalidByte \in Range(text)
      \/ Star \in Range(text) /\ has("run")
      \/ Open \in Range(text) /\ has("class")
      \/ glob_match(Written(pat), text) = Means(pat, text)
=============================================================================
