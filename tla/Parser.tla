--------------------------------- MODULE Parser --------------------------------
(* gnatsd's protocol parser (gnatsd/server/parser.go, with the argument         *)
(* handling of client.go): one connection's stream of operations, which arrives *)
(* in reads cut anywhere. parse looks at a read's bytes one by one, and what a  *)
(* read leaves unfinished is kept in argBuf, msgBuf and pa for the next. The    *)
(* slices in pa may still point into the read buffer, which the next read       *)
(* overwrites: pa.inBuf tells, and Read spoils them.                            *)
(* A byte is a letter of a keyword (either case), a blank, CR, LF, or data.     *)
EXTENDS Integers, SequencesExt, FiniteSetsExt

CONSTANTS Inputs,       \* [typ, auth, ops]: who connects, and what it sends
          ScratchCap,   \* MAX_CONTROL_LINE_SIZE
          MaxPayload,   \* c.mpay
          MaxReads      \* bound: reads the stream is cut into

VARIABLES input,        \* the chosen input and its stream of bytes; never changes
          reads, lo, hi,   \* reads so far; the current one is bytes lo+1 .. hi
          parsing,      \* in parse, or waiting for the next read
          i,            \* parse's index into the read
          state, start, drop, argBuf, msgBuf, pa,  \* parseState; start is c.as, its
                        \* index of the argument or message in the read
          msgCap,       \* the capacity behind msgBuf
          authTimer, authSet,   \* c.atmr is set; parse's copy of that
          closed,       \* the connection has been closed by the handler of -ERR
          err,          \* what ended the connection's read loop
          infoSplit,    \* history: a read ended within the argument of an INFO
          calls         \* history: the handlers called, with what they were given

vars == <<input, reads, lo, hi, parsing, i, state, start, drop, argBuf, msgBuf, pa,
          msgCap, authTimer, authSet, closed, err, infoSplit, calls>>

SP == "SP"
CR == "CR"
LF == "LF"
Blank == {SP, "TAB"}
LenCRLF == 2

Digit == [d \in {"0", "1", "2", "3", "4", "5", "6", "7", "8", "9"} |->
            CASE d = "0" -> 0 [] d = "1" -> 1 [] d = "2" -> 2 [] d = "3" -> 3 [] d = "4" -> 4
              [] d = "5" -> 5 [] d = "6" -> 6 [] d = "7" -> 7 [] d = "8" -> 8 [] d = "9" -> 9]

(* A slice or nil: {} is nil. *)
The(s) == CHOOSE x \in s : TRUE
Spoilt == <<"spoilt">>

(* What goes over the wire for an operation [kind, args, payload, eol]. *)
Keyword == [CONNECT |-> <<"C", "O", "N", "N", "E", "C", "T">>, PING |-> <<"P", "I", "N", "G">>,
            PONG |-> <<"P", "O", "N", "G">>, PUB |-> <<"P", "U", "B">>,
            SUB |-> <<"S", "U", "B">>, UNSUB |-> <<"U", "N", "S", "U", "B">>,
            MSG |-> <<"M", "S", "G">>, INFO |-> <<"I", "N", "F", "O">>,
            OK |-> <<"+", "O", "K">>, ERR |-> <<"-", "E", "R", "R">>]

Encode(op) ==
  Keyword[op.kind] \o FlattenSeq([k \in DOMAIN op.args |-> <<SP>> \o op.args[k]])
  \o op.eol \o (IF op.kind \in {"PUB", "MSG"} THEN op.payload \o <<CR, LF>> ELSE <<>>)

Stream(ops) == FlattenSeq([k \in DOMAIN ops |-> Encode(ops[k])])
-----------------------------------------------------------------------------
(* The words between blanks: those before the first n bytes end, and the one    *)
(* that is under way there.                                                     *)
Cut(c, x) == IF x \in Blank \union {CR, LF}
             THEN [words |-> IF c.word = <<>> THEN c.words ELSE Append(c.words, c.word),
                   word |-> <<>>]
             ELSE [c EXCEPT !.word = Append(@, x)]

splitArg(arg) ==
  LET cut[n \in 0..Len(arg)] ==
        IF n = 0 THEN [words |-> <<>>, word |-> <<>>] ELSE Cut(cut[n - 1], arg[n])
  IN Cut(cut[Len(arg)], SP).words

(* -1 signals an error. *)
parseSize(d) ==
  LET size[n \in 0..Len(d)] == IF n = 0 THEN 0 ELSE size[n - 1] * 10 + Digit[d[n]]
  IN IF d = <<>> \/ \E n \in 1..Len(d) : d[n] \notin DOMAIN Digit THEN -1
     ELSE size[Len(d)]

-----------------------------------------------------------------------------
(* What a client or a server may send: the words an operation takes, the last   *)
(* of a message's its size; an argument that is no list of words is one line.   *)
Words == [PUB |-> {2, 3}, MSG |-> {3, 4}, SUB |-> {2, 3}, UNSUB |-> {1, 2},
          CONNECT |-> {1}, INFO |-> {1}, ERR |-> {1}, PING |-> {0}, PONG |-> {0}, OK |-> {0}]

Lines == {"CONNECT", "INFO", "ERR"}

Operation == [kind : DOMAIN Keyword, args : Seq(Seq(STRING)), payload : Seq(STRING),
              eol : {<<LF>>, <<CR, LF>>}]

Sendable(typ, op) ==
  /\ Len(op.args) \in Words[op.kind]
  /\ \A n \in 1..Len(op.args) :
        /\ op.args[n] # <<>> /\ op.args[n][1] \notin Blank
        /\ \A m \in 1..Len(op.args[n]) : /\ op.args[n][m] \notin {CR, LF}
                                         /\ op.kind \notin Lines => op.args[n][m] \notin Blank
  /\ op.kind \in {"PUB", "MSG"} => parseSize(Last(op.args)) = Len(op.payload)
  /\ op.kind = "PUB" => typ = "CLIENT"
  /\ op.kind = "MSG" => typ = "ROUTER"

ASSUME InputAssumption ==
  \A in \in Inputs :
    /\ in \in [typ : {"CLIENT", "ROUTER"}, auth : BOOLEAN, ops : Seq(Operation)]
    /\ \A k \in 1..Len(in.ops) : Sendable(in.typ, in.ops[k])

ASSUME BoundAssumption == ScratchCap \in Nat /\ MaxPayload \in Int /\ MaxReads \in Nat \ {0}
-----------------------------------------------------------------------------
buf == SubSeq(input.stream, lo + 1, hi)
b == input.stream[lo + i + 1]

(* Some byte of the read is to be looked at in this state. *)
In(st) == parsing /\ err = "nil" /\ i < hi - lo /\ state \in st

Call(kind, args) == calls' = Append(calls, [kind |-> kind, args |-> args])
Fail(e) == err' = e /\ i' = i /\ UNCHANGED <<state, start, drop, argBuf, msgBuf, pa, calls>>

(* What the connection's other state does while a byte is looked at: nothing. *)
Rest == UNCHANGED <<input, reads, lo, hi, parsing, msgCap, infoSplit>>
Same == Rest /\ UNCHANGED <<authTimer, authSet, closed>>

Init ==
  /\ \E in \in Inputs : /\ input = [typ |-> in.typ, ops |-> in.ops, auth |-> in.auth,
                                    stream |-> Stream(in.ops)]
                        /\ authTimer = in.auth
  /\ reads = 0 /\ lo = 0 /\ hi = 0 /\ parsing = FALSE /\ i = 0
  /\ state = "OP_START" /\ start = 0 /\ drop = 0 /\ argBuf = {} /\ msgBuf = {} /\ msgCap = 0
  /\ pa = [subject |-> <<>>, reply |-> {}, sid |-> {}, szb |-> <<>>, size |-> 0,
         inBuf |-> FALSE]
  /\ authSet = FALSE /\ closed = FALSE /\ err = "nil" /\ infoSplit = FALSE /\ calls = <<>>

(* readLoop: the next n bytes land in the same buffer; parse snapshots the auth *)
(* timer.                                                                       *)
Read(n) ==
  /\ ~parsing /\ err = "nil" /\ ~closed
  /\ reads + 1 < MaxReads \/ hi + n = Len(input.stream)
  /\ reads' = reads + 1 /\ lo' = hi /\ hi' = hi + n /\ i' = 0
  /\ parsing' = TRUE /\ authSet' = authTimer
  /\ pa' = IF pa.inBuf
           THEN [pa EXCEPT !.subject = Spoilt, !.reply = {Spoilt : r \in @},
                           !.sid = {Spoilt : s \in @}, !.szb = Spoilt]
           ELSE pa
  /\ UNCHANGED <<input, state, start, drop, argBuf, msgBuf, msgCap, authTimer, closed, err, infoSplit, calls>>

(* The first letter; before an expected CONNECT no other is taken. *)
OpStart ==
  LET next == {p \in {<<"P", "OP_P">>, <<"S", "OP_S">>, <<"U", "OP_U">>, <<"C", "OP_C">>,
                      <<"I", "OP_I">>, <<"+", "OP_PLUS">>, <<"-", "OP_MINUS">>,
                      <<"M", "OP_M">>} :
                 p[1] = b /\ (b = "M" => input.typ # "CLIENT")}
  IN /\ In({"OP_START"})
     /\ IF b # "C" /\ authSet THEN Fail("authorization")
        ELSE IF next = {} THEN Fail("parse")
        ELSE /\ state' = The(next)[2] /\ i' = i + 1
             /\ UNCHANGED <<start, drop, argBuf, msgBuf, pa, err, calls>>
     /\ Same

(* The letters of the keywords: state, letter, next state. *)
PubLetters == {<<"OP_P", "U", "OP_PU">>, <<"OP_P", "I", "OP_PI">>, <<"OP_P", "O", "OP_PO">>,
               <<"OP_PU", "B", "OP_PUB">>, <<"OP_PUB", SP, "OP_PUB_SPC">>}
SubLetters == {<<"OP_S", "U", "OP_SU">>, <<"OP_SU", "B", "OP_SUB">>, <<"OP_SUB", SP, "OP_SUB_SPC">>}
UnsubLetters == {<<"OP_U", "N", "OP_UN">>, <<"OP_UN", "S", "OP_UNS">>, <<"OP_UNS", "U", "OP_UNSU">>,
                 <<"OP_UNSU", "B", "OP_UNSUB">>}
PingLetters == {<<"OP_PI", "N", "OP_PIN">>, <<"OP_PIN", "G", "OP_PING">>}
PongLetters == {<<"OP_PO", "N", "OP_PON">>, <<"OP_PON", "G", "OP_PONG">>}
ConnectLetters == {<<"OP_C", "O", "OP_CO">>, <<"OP_CO", "N", "OP_CON">>, <<"OP_CON", "N", "OP_CONN">>,
                   <<"OP_CONN", "E", "OP_CONNE">>, <<"OP_CONNE", "C", "OP_CONNEC">>,
                   <<"OP_CONNEC", "T", "OP_CONNECT">>}
MsgLetters == {<<"OP_M", "S", "OP_MS">>, <<"OP_MS", "G", "OP_MSG">>, <<"OP_MSG", SP, "OP_MSG_SPC">>}
InfoLetters == {<<"OP_I", "N", "OP_IN">>, <<"OP_IN", "F", "OP_INF">>, <<"OP_INF", "O", "OP_INFO">>}
OkLetters == {<<"OP_PLUS", "O", "OP_PLUS_O">>, <<"OP_PLUS_O", "K", "OP_PLUS_OK">>}
ErrLetters == {<<"OP_MINUS", "E", "OP_MINUS_E">>, <<"OP_MINUS_E", "R", "OP_MINUS_ER">>,
               <<"OP_MINUS_ER", "R", "OP_MINUS_ERR">>, <<"OP_MINUS_ERR", SP, "OP_MINUS_ERR_SPC">>}

Letters == UNION {PubLetters, SubLetters, UnsubLetters, PingLetters, PongLetters, ConnectLetters,
                  MsgLetters, InfoLetters, OkLetters, ErrLetters}

Letter ==
  LET byte == IF b \in Blank THEN SP ELSE b
      next == {l \in Letters : l[1] = state /\ l[2] = byte}
  IN /\ In({l[1] : l \in Letters})
     /\ IF next = {} THEN Fail("parse")
        ELSE /\ state' = The(next)[3] /\ i' = i + 1
             /\ UNCHANGED <<start, drop, argBuf, msgBuf, pa, err, calls>>
     /\ Same

(* Blanks before the argument are skipped; the first byte's index is kept. *)
Spaces == {<<"OP_PUB_SPC", "PUB_ARG">>, <<"OP_SUB_SPC", "SUB_ARG">>, <<"OP_UNSUB", "UNSUB_ARG">>,
           <<"OP_CONNECT", "CONNECT_ARG">>, <<"OP_MSG_SPC", "MSG_ARG">>, <<"OP_INFO", "INFO_ARG">>,
           <<"OP_MINUS_ERR_SPC", "MINUS_ERR_ARG">>}
Space ==
  /\ In({s[1] : s \in Spaces})
  /\ i' = i + 1
  /\ IF b \in Blank THEN UNCHANGED <<state, start>>
     ELSE start' = i /\ state' = The({s \in Spaces : s[1] = state})[2]
  /\ UNCHANGED <<drop, argBuf, msgBuf, pa, err, calls>> /\ Same
-----------------------------------------------------------------------------
(* Within an argument: CR is dropped from the end, the rest collected if a read *)
(* ended within the argument already.                                           *)
ArgByte ==
  /\ b # LF
  /\ drop' = IF b = CR THEN 1 ELSE drop
  /\ argBuf' = IF b = CR THEN argBuf ELSE {Append(a, b) : a \in argBuf}
  /\ i' = i + 1
  /\ UNCHANGED <<state, start, msgBuf, pa, err, calls>> /\ Same

Arg == IF argBuf # {} THEN The(argBuf) ELSE SubSeq(buf, start + 1, i - drop)

(* Variant: that the line ended with CR is remembered for the next. *)
Done_keepsDrop == i' = i + 1 /\ drop' = drop /\ state' = "OP_START"

(* The line is done: on to what follows, next byte. *)
Done == i' = i + 1 /\ drop' = 0 /\ state' = "OP_START"

(* PUB subject [reply] size: pa gets slices of the argument, wherever that is. *)
processPub(arg) ==
  LET args == splitArg(arg)
      size == parseSize(Last(args))
  IN IF Len(args) \notin {2, 3} \/ size < 0 THEN [err |-> "parse"]
     ELSE IF MaxPayload > 0 /\ size > MaxPayload THEN [err |-> "payload"]
     ELSE [err |-> "nil",
           pa |-> [pa EXCEPT !.subject = args[1], !.size = size, !.szb = Last(args),
                             !.inBuf = argBuf = {},
                             !.reply = IF Len(args) = 3 THEN {args[2]} ELSE {}]]

(* A message that is not split yet need not be looked at: on to its last bytes. *)
PubArg ==
  /\ In({"PUB_ARG"})
  /\ \/ ArgByte
     \/ LET done == processPub(Arg)
        IN /\ b = LF
           /\ IF done.err # "nil" THEN Fail(done.err)
              ELSE /\ pa' = done.pa /\ drop' = 0 /\ start' = i + 1 /\ state' = "MSG_PAYLOAD"
                   /\ i' = IF msgBuf = {} THEN (i + 1) + done.pa.size - LenCRLF + 1 ELSE i + 1
                   /\ UNCHANGED <<argBuf, msgBuf, err, calls>>
           /\ Same

(* MSG subject sid [reply] size, from a route. *)
processMsgArgs(arg) ==
  LET args == splitArg(arg)
      size == parseSize(Last(args))
  IN IF Len(args) \notin {3, 4} \/ size < 0 THEN [err |-> "parse"]
     ELSE [err |-> "nil",
           pa |-> [subject |-> args[1], sid |-> {args[2]}, size |-> size, szb |-> Last(args),
                   inBuf |-> argBuf = {},
                   reply |-> IF Len(args) = 4 THEN {args[3]} ELSE {}]]

MsgArg ==
  /\ In({"MSG_ARG"})
  /\ \/ ArgByte
     \/ LET done == processMsgArgs(Arg)
        IN /\ b = LF
           /\ IF done.err # "nil" THEN Fail(done.err)
              ELSE /\ pa' = done.pa /\ drop' = 0 /\ start' = i + 1 /\ state' = "MSG_PAYLOAD"
                   /\ i' = i + 1
                   /\ UNCHANGED <<argBuf, msgBuf, err, calls>>
           /\ Same

(* With a message buffer, copy what the read has of the payload, or the one     *)
(* byte after it; without, just see its end go by.                              *)
MsgPayload ==
  /\ In({"MSG_PAYLOAD"})
  /\ IF msgBuf # {}
     THEN LET have == The(msgBuf)
              toCopy == Min({pa.size - Len(have), hi - lo - i})
              got == IF toCopy > 0 THEN have \o SubSeq(buf, i + 1, i + toCopy) ELSE Append(have, b)
          IN IF toCopy > 0 /\ Len(got) > msgCap THEN Fail("panic")
             ELSE /\ msgBuf' = {got}
                  /\ i' = i + Max({toCopy, 1})
                  /\ state' = IF Len(got) >= pa.size THEN "MSG_END" ELSE state
                  /\ UNCHANGED <<start, drop, argBuf, pa, err, calls>>
     ELSE /\ i' = i + 1
          /\ state' = IF i - start >= pa.size THEN "MSG_END" ELSE state
          /\ UNCHANGED <<start, drop, argBuf, msgBuf, pa, err, calls>>
  /\ Same

(* At the line feed the message is complete, and its length is checked. *)
MsgEnd ==
  /\ In({"MSG_END"})
  /\ IF b = LF
     THEN LET msg == IF msgBuf # {} THEN Append(The(msgBuf), b) ELSE SubSeq(buf, start + 1, i + 1)
          IN IF Len(msg) # pa.size + LenCRLF THEN Fail("parse")
             ELSE /\ Call("processMsg", [subject |-> pa.subject, reply |-> pa.reply,
                                         sid |-> pa.sid, msg |-> msg])
                  /\ argBuf' = {} /\ msgBuf' = {} /\ start' = i + 1 /\ Done
                  /\ UNCHANGED <<pa, err>>
     ELSE /\ msgBuf' = {Append(m, b) : m \in msgBuf}
          /\ i' = i + 1
          /\ UNCHANGED <<state, start, drop, argBuf, pa, err, calls>>
  /\ Same

(* SUB subject [queue] sid; the handler copies the argument. *)
SubArg ==
  /\ In({"SUB_ARG"})
  /\ \/ ArgByte
     \/ /\ b = LF
        /\ IF Len(splitArg(Arg)) \notin {2, 3} THEN Fail("parse")
           ELSE /\ Call("processSub", splitArg(Arg)) /\ argBuf' = {} /\ start' = i + 1 /\ Done
                /\ UNCHANGED <<msgBuf, pa, err>>
        /\ Same

(* UNSUB sid [max] *)
UnsubArg ==
  /\ In({"UNSUB_ARG"})
  /\ \/ ArgByte
     \/ /\ b = LF
        /\ IF Len(splitArg(Arg)) \notin {1, 2} THEN Fail("parse")
           ELSE /\ Call("processUnsub", splitArg(Arg)) /\ argBuf' = {} /\ start' = i + 1 /\ Done
                /\ UNCHANGED <<msgBuf, pa, err>>
        /\ Same

(* CONNECT options: clears the auth timer, and the notion of it here. *)
ConnectArg ==
  /\ In({"CONNECT_ARG"})
  /\ \/ ArgByte
     \/ /\ b = LF
        /\ Call("processConnect", Arg) /\ argBuf' = {} /\ Done
        /\ authTimer' = FALSE /\ authSet' = FALSE
        /\ UNCHANGED <<start, msgBuf, pa, closed, err>> /\ Rest

(* INFO options: never collected. What start says of an earlier read is applied *)
(* to this one, and may lie beyond it.                                          *)
InfoArg ==
  /\ In({"INFO_ARG"})
  /\ i' = i + 1
  /\ \/ /\ b # LF
        /\ drop' = IF b = CR THEN 1 ELSE drop
        /\ UNCHANGED <<state, calls, err>>
     \/ /\ b = LF
        /\ IF start > i - drop THEN err' = "panic" /\ UNCHANGED <<drop, state, calls>>
           ELSE /\ Call("processInfo", SubSeq(buf, start + 1, i - drop))
                /\ drop' = 0 /\ state' = "OP_START" /\ UNCHANGED err
  /\ UNCHANGED <<start, argBuf, msgBuf, pa>> /\ Same

MinusErrArg ==
  /\ In({"MINUS_ERR_ARG"})
  /\ \/ ArgByte
     \/ /\ b = LF
        /\ Call("processErr", Arg) /\ argBuf' = {} /\ start' = i + 1 /\ Done
        /\ closed' = TRUE
        /\ UNCHANGED <<msgBuf, pa, authTimer, authSet, err>> /\ Rest

(* PING, PONG and +OK wait for the line feed, whatever comes before it. *)
Line(st, handler) ==
  /\ In({st})
  /\ i' = i + 1
  /\ IF b = LF THEN /\ drop' = 0 /\ state' = "OP_START"
                    /\ IF handler = "nil" THEN UNCHANGED calls ELSE Call(handler, <<>>)
     ELSE UNCHANGED <<drop, state, calls>>
  /\ UNCHANGED <<start, argBuf, msgBuf, pa, err>> /\ Same

Ping == Line("OP_PING", "processPing")
Pong == Line("OP_PONG", "processPong")
PlusOk == Line("OP_PLUS_OK", "nil")
-----------------------------------------------------------------------------
Bytes(slice) == IF slice = {} THEN <<>> ELSE The(slice)

(* Variant: pa is left pointing into the read buffer. *)
clonePubArg_not == [argBuf |-> {}, pa |-> pa]

(* argBuf becomes a copy of what pa points to, and pa points there. *)
clonePubArg ==
  [argBuf |-> {pa.subject \o Bytes(pa.reply) \o Bytes(pa.sid) \o pa.szb},
   pa |-> [pa EXCEPT !.inBuf = FALSE]]

(* Variant: the arguments are thought to take no room. *)
Overflows_alone(args) == pa.size > ScratchCap

(* The message does not fit behind the arguments in the scratch buffer. *)
Overflows(args) == pa.size > ScratchCap - Len(Bytes(args))

SplitStates == {"SUB_ARG", "UNSUB_ARG", "PUB_ARG", "MSG_ARG", "MINUS_ERR_ARG", "CONNECT_ARG"}

(* A read that ends within an argument: keep what there is of it. *)
SplitArgument ==
  /\ state \in SplitStates
  /\ argBuf = {}
  /\ argBuf' = {SubSeq(buf, start + 1, hi - lo - drop)}
  /\ UNCHANGED <<pa, msgBuf, msgCap>>

(* A read that ends within a message: the arguments are taken out of the read   *)
(* buffer if they are there, and the bytes so far go behind them in the scratch *)
(* buffer, or to a buffer of their own if the message does not fit.             *)
SplitMessage ==
  LET kept == IF argBuf = {} THEN clonePubArg ELSE [argBuf |-> argBuf, pa |-> pa]
  IN /\ state \in {"MSG_PAYLOAD", "MSG_END"}
     /\ msgBuf = {}
     /\ argBuf' = kept.argBuf
     /\ pa' = kept.pa
     /\ msgBuf' = {SubSeq(buf, start + 1, hi - lo)}
     /\ msgCap' = IF Overflows(kept.argBuf) THEN pa.size + LenCRLF
                  ELSE ScratchCap - Len(Bytes(kept.argBuf))

EndOfRead ==
  /\ parsing /\ err = "nil" /\ i >= hi - lo
  /\ parsing' = FALSE
  /\ infoSplit' = (infoSplit \/ state = "INFO_ARG")
  /\ \/ SplitArgument
     \/ SplitMessage
     \/ /\ state \in SplitStates => argBuf # {}
        /\ state \in {"MSG_PAYLOAD", "MSG_END"} => msgBuf # {}
        /\ UNCHANGED <<argBuf, pa, msgBuf, msgCap>>
  /\ UNCHANGED <<input, reads, lo, hi, i, state, start, drop, authTimer, authSet, closed, err, calls>>

Byte == \/ OpStart \/ Letter \/ Space \/ PubArg \/ MsgArg \/ MsgPayload \/ MsgEnd \/ SubArg
        \/ UnsubArg \/ ConnectArg \/ InfoArg \/ MinusErrArg \/ Ping \/ Pong \/ PlusOk

Next == (\E n \in 1..(Len(input.stream) - hi) : Read(n)) \/ Byte \/ EndOfRead

Spec == Init /\ [][Next]_vars
-----------------------------------------------------------------------------
(* What an operation asks of the server: its handler and what it is given. *)
Asks(op) ==
  CASE op.kind \in {"PUB", "MSG"} ->
         <<[kind |-> "processMsg",
            args |-> [subject |-> op.args[1], msg |-> op.payload \o <<CR, LF>>,
                      sid |-> IF op.kind = "MSG" THEN {op.args[2]} ELSE {},
                      reply |-> IF Len(op.args) = (IF op.kind = "MSG" THEN 4 ELSE 3)
                                THEN {op.args[Len(op.args) - 1]} ELSE {}]]>>
    [] op.kind \in {"SUB", "UNSUB"} ->
         <<[kind |-> IF op.kind = "SUB" THEN "processSub" ELSE "processUnsub", args |-> op.args]>>
    [] op.kind \in {"CONNECT", "INFO", "ERR"} ->
         <<[kind |-> CASE op.kind = "CONNECT" -> "processConnect" [] op.kind = "INFO" -> "processInfo"
                       [] OTHER -> "processErr",
            args |-> op.args[1]]>>
    [] op.kind \in {"PING", "PONG"} ->
         <<[kind |-> IF op.kind = "PING" THEN "processPing" ELSE "processPong", args |-> <<>>]>>
    [] OTHER -> <<>>

(* What ends the connection: anything before a CONNECT that is waited for, a    *)
(* published message beyond the maximum.                                        *)
Refusal(k) ==
  LET op == input.ops[k]
  IN IF k = 1 /\ input.auth /\ op.kind # "CONNECT" THEN "authorization"
     ELSE IF op.kind = "PUB" /\ MaxPayload > 0 /\ Len(op.payload) > MaxPayload THEN "payload"
          ELSE "nil"

Heard == {k \in DOMAIN input.ops : \A j \in 1..k : Refusal(j) = "nil"}
Asked == FlattenSeq([k \in 1..Cardinality(Heard) |-> Asks(input.ops[k])])

(* The state fits its types: parse never looks behind the read, nor writes      *)
(* beyond a buffer (a panic in Go).                                             *)
TypeOK ==
  /\ lo <= hi /\ hi <= Len(input.stream) /\ reads <= MaxReads
  /\ state \in {"OP_START"} \union {"OP_P", "OP_S", "OP_U", "OP_C", "OP_I", "OP_M", "OP_PLUS", "OP_MINUS"}
       \union {l[3] : l \in Letters} \union {s[2] : s \in Spaces} \union {"MSG_PAYLOAD", "MSG_END"}
  /\ i >= 0 /\ start >= 0 /\ drop \in {0, 1}
  /\ Cardinality(argBuf) <= 1 /\ Cardinality(msgBuf) <= 1
  /\ err \in {"nil", "parse", "payload", "authorization"} \union (IF infoSplit THEN {"panic"} ELSE {})

(* However the stream is cut into reads, the handlers are called with what was  *)
(* sent and in its order: no argument is read from a buffer that has been read  *)
(* into again, no byte is lost or taken twice (parser.go:614-639). An INFO cut  *)
(* within its argument is the exception: nothing keeps it.                      *)
CallsAsSent == ~infoSplit => IsPrefix(calls, Asked)

(* Everything sent is heard: a stream read to its end has had all its handlers  *)
(* called and leaves the parser at a start, and the only errors are those the   *)
(* stream deserves.                                                             *)
WholeStream ==
  ~infoSplit =>
    /\ ~parsing /\ hi = Len(input.stream) =>
         calls = Asked /\ Heard = DOMAIN input.ops /\ state = "OP_START"
    /\ err # "nil" => calls = Asked /\ Heard # DOMAIN input.ops /\ err = Refusal(Cardinality(Heard) + 1)
================================================================================
