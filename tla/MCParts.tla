------------------------------- MODULE MCParts -------------------------------
(* Saves, collections, the RESP parser, patterns and the string encoding,   *)
(* each on its own instance.  They share no state: a behaviour is one of    *)
(* the part that the initial state picks, the others resting.               *)
EXTENDS Persistence, CollectionReads, RespParser, Glob, RdbCodec, TLC

VARIABLE part

(* Keys x and y on two shards and two databases: strings with and without a *)
(* deadline, a collection with one.                                         *)
KeyOrder == <<"x", "y">>
Shard == [x |-> 0, y |-> 1]
SomeCommands ==
  {<<<<0, "x">>, [value |-> "a", expire |-> 1]>>, <<<<1, "y">>, [value |-> "b", expire |-> None]>>,
   <<<<0, "x">>, [value |-> Collection, expire |-> 1]>>}
SaverSymmetry == Permutations(Savers)

(* k1 gets the commands of one key; k2 and k3 are sets, k3 on the other     *)
(* shard.                                                                   *)
Home == [k \in DataKeys |-> IF k = "k3" THEN 1 ELSE 0]
PlusMinusOne == {-1, 1}
PastBothEnds == -4 .. 4

(* Payloads that are empty, that look like a line end, and that are not     *)
(* text.                                                                    *)
SomePayloads == {<<>>, <<Byte(1)>>, <<CR, LF>>, <<NotUtf8, LF>>}

(* On both sides of every change of the encoding below 2^31; at 2^31 only   *)
(* from below, because TLC has no larger integers.                          *)
EdgeLengths == {0, 1, 11, 63, 64, 255, 256, 16383, 16384, 65535, 65536, 2147483647}
EdgeIntegers ==
  {-2147483647 - 1, -32769, -32768, -129, -128, -1, 0, 127, 128, 255, 256, 32767, 32768, 65535, 2147483647}

RespRests ==
  sent = <<>> /\ wire = <<>> /\ buf = <<>> /\ state = AtInit /\ conn = "closed" /\ out = <<>>
GlobRests == pat = <<>> /\ text = <<>>
CodecRests == written = <<>>

PartsInit ==
  /\ Init /\ ColInit
  /\ \/ part \in {"saves", "collections"} /\ RespRests /\ GlobRests /\ CodecRests
     \/ part = "parser" /\ RespInit /\ GlobRests /\ CodecRests
     \/ part = "patterns" /\ RespRests /\ GlobInit /\ CodecRests
     \/ part = "strings" /\ RespRests /\ GlobRests /\ CodecInit

Saves == part = "saves" /\ Next /\ UNCHANGED <<colvars, respvars, pat, text, written>>
DataCommands == part = "collections" /\ ColNext /\ UNCHANGED <<vars, respvars, pat, text, written>>
Connection == part = "parser" /\ RespNext /\ UNCHANGED <<vars, colvars, pat, text, written>>

PartsNext == (Saves \/ DataCommands \/ Connection) /\ UNCHANGED part

PartsSpec == PartsInit /\ [][PartsNext]_<<part, vars, colvars, respvars, pat, text, written>>
=============================================================================
