----------------------------- MODULE RespParser ------------------------------
(***************************************************************************)
(* The incremental RESP parser of a connection: a client sends commands,   *)
(* the network delivers their bytes in any pieces, and handle_connection   *)
(* parses after every read until the parser asks for more.  One action is  *)
(* one iteration of the loop in parse().                                   *)
(*                                                                         *)
(* A token is a byte, or the bytes of a header line before its terminator: *)
(* <<"$", 3>> stands for "$3".  Splitting inside it is splitting before    *)
(* its terminator, which are tokens of their own.                          *)
(***************************************************************************)
EXTENDS Integers, Sequences

LOCAL INSTANCE SequencesExt
LOCAL INSTANCE FiniteSetsExt

CONSTANTS
  Payloads,   \* contents of bulk strings, sequences of bytes
  MaxArrLen,  \* max_arr_len
  MaxBulkLen, \* max_bulk_len
  MaxItems    \* bound on what a client sends

VARIABLES
  sent,   \* (history) the items the client sends
  wire,   \* bytes on their way
  buf,    \* read_buf
  state,  \* RespParser.state
  conn,   \* "parsing", "reading" or "closed"
  out     \* the commands given to dispatch_command, and the final error

respvars == <<sent, wire, buf, state, conn, out>>

-----------------------------------------------------------------------------
Byte(b) == <<"byte", b>>
Header(c, n) == <<c, n>>
CR == <<"cr", 0>>
LF == <<"lf", 0>>
Blank == <<"space", 0>>
NotUtf8 == Byte(255)
NoNumber == 1000  \* the text of a header that is no integer

String(bytes) == [type |-> "string", bytes |-> bytes]
NilArg == [type |-> "nil"]
IntArg(n) == [type |-> "int", int |-> n]
ErrorArg(n) == [type |-> "error", text |-> n]
Complete(args) == [result |-> "complete", args |-> args]
ProtocolError == [result |-> "error"]

AtInit == [name |-> "Init"]
AtInline == [name |-> "Inline"]
AtArray(expected, args) == [name |-> "Array", expected |-> expected, args |-> args]
AtBulk(len, expected, args) == [name |-> "BulkString", len |-> len, expected |-> expected, args |-> args]

(* A line ends at the first CR LF of the buffer; only when there is none,  *)
(* at the first LF.                                                        *)
CrLfs(b) == {i \in 1 .. Len(b) - 1 : b[i] = CR /\ b[i + 1] = LF}
Lfs(b) == {i \in DOMAIN b : b[i] = LF}
HasLine(b) == Lfs(b) # {}
consume_line(b) ==
  IF CrLfs(b) # {} THEN [line |-> SubSeq(b, 1, Min(CrLfs(b)) - 1), rest |-> SubSeq(b, Min(CrLfs(b)) + 2, Len(b))]
  ELSE [line |-> SubSeq(b, 1, Min(Lfs(b)) - 1), rest |-> SubSeq(b, Min(Lfs(b)) + 1, Len(b))]

(* The number after the type byte of a header line. *)
parse_int(line) == IF Len(line) = 1 THEN line[1][2] ELSE NoNumber

(* Words between white space; none when the line is not UTF-8. *)
parse_inline_args(line) ==
  LET step(acc, t) ==
        CASE t \in {Blank, CR, LF} -> [acc EXCEPT !.open = FALSE]
          [] acc.open -> [acc EXCEPT !.words[Len(acc.words)] = String(Append(@.bytes, t))]
          [] OTHER -> [open |-> TRUE, words |-> Append(acc.words, String(<<t>>))]
  IN  IF \E i \in DOMAIN line : line[i] = NotUtf8 THEN <<>>
      ELSE FoldLeft(step, [open |-> FALSE, words |-> <<>>], line).words

-----------------------------------------------------------------------------
(* How an iteration of the loop ends. *)

Continue(s, b) == state' = s /\ buf' = b /\ UNCHANGED <<out, conn>>
Incomplete(s) == state' = s /\ conn' = "reading" /\ UNCHANGED <<out, buf>>
Returns(args, b) == state' = AtInit /\ buf' = b /\ out' = Append(out, Complete(args)) /\ UNCHANGED conn
Fails(b) == state' = AtInit /\ buf' = b /\ out' = Append(out, ProtocolError) /\ conn' = "closed"

(* An argument was read: the command is complete with its last one. *)
Push(expected, args, arg, b) ==
  LET all == Append(args, arg)
  IN  IF Len(all) = expected THEN Returns(all, b) ELSE Continue(AtArray(expected, all), b)

InitStep ==
  /\ state.name = "Init"
  /\ \/ buf = <<>> /\ Incomplete(AtInit)
     \/ /\ buf # <<>> /\ buf[1][1] = "*" /\ ~HasLine(buf)
        /\ Incomplete(AtInit)
     \/ /\ buf # <<>> /\ buf[1][1] = "*" /\ HasLine(buf)
        /\ LET l == consume_line(buf)
               n == parse_int(l.line)
           IN  CASE n \notin 0 .. MaxArrLen -> Fails(l.rest)
                 [] n = 0 -> Returns(<<>>, l.rest)
                 [] OTHER -> Continue(AtArray(n, <<>>), l.rest)
     \/ buf # <<>> /\ buf[1] \in {CR, LF} /\ Continue(AtInit, Tail(buf))
     \/ buf # <<>> /\ buf[1] \notin {CR, LF} /\ buf[1][1] # "*" /\ Continue(AtInline, buf)

InlineStep ==
  /\ state.name = "Inline"
  /\ \/ ~HasLine(buf) /\ Incomplete(AtInline)
     \/ /\ HasLine(buf)
        /\ LET l == consume_line(buf)
               args == parse_inline_args(l.line)
           IN  IF args = <<>> THEN Continue(AtInit, l.rest) ELSE Returns(args, l.rest)

ArrayStep ==
  /\ state.name = "Array"
  /\ \/ buf = <<>> /\ Incomplete(state)
     \/ buf # <<>> /\ buf[1][1] \notin {"$", "+", ":", "-"} /\ Fails(buf)
     \/ buf # <<>> /\ buf[1][1] \in {"$", "+", ":", "-"} /\ ~HasLine(buf) /\ Incomplete(state)
     \/ /\ buf # <<>> /\ buf[1][1] \in {"$", "+", ":", "-"} /\ HasLine(buf)
        /\ LET l == consume_line(buf)
               n == parse_int(l.line)
               push(arg) == Push(state.expected, state.args, arg, l.rest)
           IN  CASE buf[1][1] = "$" /\ n = -1 -> push(NilArg)
                 [] buf[1][1] = "$" /\ n \in 0 .. MaxBulkLen ->
                      Continue(AtBulk(n, state.expected, state.args), l.rest)
                 [] buf[1][1] = "+" -> push(String(l.line))
                 [] buf[1][1] = "-" -> push(ErrorArg(l.line))
                 [] buf[1][1] = ":" /\ n # NoNumber -> push(IntArg(n))
                 [] OTHER -> Fails(l.rest)

(* Mutant: the state taken out for the iteration is not put back. *)
BulkStep_forgets_state ==
  /\ state.name = "BulkString"
  /\ \/ Len(buf) < state.len + 2 /\ Incomplete(AtInit)
     \/ /\ Len(buf) >= state.len + 2
        /\ Push(state.expected, state.args, String(SubSeq(buf, 1, state.len)),
                SubSeq(buf, state.len + 3, Len(buf)))

(* The two bytes after the data are dropped unseen. *)
BulkStep ==
  /\ state.name = "BulkString"
  /\ \/ Len(buf) < state.len + 2 /\ Incomplete(state)
     \/ /\ Len(buf) >= state.len + 2
        /\ Push(state.expected, state.args, String(SubSeq(buf, 1, state.len)),
                SubSeq(buf, state.len + 3, Len(buf)))

(* handle_connection: parse until more bytes are needed, then read some. *)
Parse ==
  /\ conn = "parsing"
  /\ InitStep \/ InlineStep \/ ArrayStep \/ BulkStep
  /\ UNCHANGED <<sent, wire>>

ReadSome ==
  /\ conn = "reading"
  /\ \E n \in 1 .. Len(wire) :
       /\ buf' = buf \o SubSeq(wire, 1, n)
       /\ wire' = SubSeq(wire, n + 1, Len(wire))
  /\ conn' = "parsing"
  /\ UNCHANGED <<sent, state, out>>

HangUp == conn = "reading" /\ conn' = "closed" /\ UNCHANGED <<sent, wire, buf, state, out>>

RespNext == Parse \/ ReadSome \/ HangUp

-----------------------------------------------------------------------------
(* What clients send: an item has its bytes, what it is for the parser,    *)
(* and whether a line of it ends in a bare LF.                             *)

CRLF == <<CR, LF>>
Line(c, n) == <<Header(c, n)>> \o CRLF

Args ==
  {[bytes |-> Line("$", Len(p)) \o p \o CRLF, arg |-> String(p)] : p \in Payloads}
  \cup {[bytes |-> Line("$", -1), arg |-> NilArg],
        [bytes |-> Line(":", 7), arg |-> IntArg(7)],
        [bytes |-> Line("+", 1), arg |-> String(<<Header("+", 1)>>)],
        [bytes |-> Line("-", 1), arg |-> ErrorArg(<<Header("-", 1)>>)]}

Item(bytes, gives, bare) == [bytes |-> bytes, gives |-> gives, bare |-> bare]

Arrays ==
  {Item(Line("*", 0), <<Complete(<<>>)>>, FALSE)}
  \cup {Item(Line("*", 1) \o a.bytes, <<Complete(<<a.arg>>)>>, FALSE) : a \in Args}
  \cup {Item(Line("*", 2) \o a[1].bytes \o a[2].bytes, <<Complete(<<a[1].arg, a[2].arg>>)>>, FALSE) :
          a \in {x \in Args \X Args : x[1].arg = String(<<Byte(1)>>)}}

Inlines ==
  LET a == Byte(1)
      pair == <<a, Blank, Blank, a, a>>
      args == <<String(<<a>>), String(<<a, a>>)>>
  IN  {Item(CRLF, <<>>, FALSE), Item(<<Blank>> \o CRLF, <<>>, FALSE),
       Item(pair \o CRLF, <<Complete(args)>>, FALSE),
       Item(<<a, NotUtf8>> \o CRLF, <<>>, FALSE),
       Item(Append(pair, LF), <<Complete(args)>>, TRUE)}

Malformed ==
  {Item(b, <<ProtocolError>>, FALSE) :
     b \in {Line("*", NoNumber), Line("*", -1), Line("*", MaxArrLen + 1)}
           \cup {Line("*", 1) \o Line("$", n) : n \in {-2, MaxBulkLen + 1, NoNumber}}
           \cup {Line("*", 1) \o Line(":", NoNumber), Line("*", 1) \o <<Byte(1)>> \o CRLF}}

Streams == UNION {[1 .. n -> Arrays \cup Inlines \cup Malformed] : n \in 0 .. MaxItems}

RespInit ==
  /\ sent \in Streams
  /\ wire = FlattenSeq([i \in DOMAIN sent |-> sent[i].bytes])
  /\ buf = <<>> /\ state = AtInit /\ conn = "parsing" /\ out = <<>>

RespSpec == RespInit /\ [][RespNext]_respvars

-----------------------------------------------------------------------------
(* What the items mean, up to the first error, which ends the connection. *)
Meant ==
  LET bad == {i \in DOMAIN sent : sent[i].gives = <<ProtocolError>>}
      read == IF bad = {} THEN sent ELSE SubSeq(sent, 1, Min(bad))
  IN  FlattenSeq([i \in DOMAIN read |-> read[i].gives])

(* However the bytes are split into reads, the parser gives the commands   *)
(* that were sent, in their order, byte for byte, and nothing else; when   *)
(* all bytes are there, all commands are given and none is half-read.      *)
(* Lines that end in a bare LF are exempt: with more bytes in the buffer   *)
(* they run on to the next CR LF.                                          *)
CommandsAsSent ==
  (\A i \in DOMAIN sent : ~sent[i].bare) =>
    /\ IsPrefix(out, Meant)
    /\ conn = "reading" /\ wire = <<>> => out = Meant /\ buf = <<>> /\ state = AtInit
=============================================================================
