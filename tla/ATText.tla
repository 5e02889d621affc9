------------------------------- MODULE ATText -------------------------------
(***************************************************************************)
(* The text side of components/at_client/at_client.c, character by         *)
(* character and without concurrency (ATClient has that): how the receive  *)
(* loop cuts the stream into lines, how the parser packs lines into the    *)
(* buffer of a response, and how at_resp_get_line and its relatives find   *)
(* them again.                                                             *)
(*                                                                         *)
(* A character stands for what the code tells apart: "k" for a text OK,    *)
(* "e" for ERROR, "+" for the prefix of a registered URC, "r" and "n" for  *)
(* CR and LF, ">" for the end sign, "x" and "y" for any other, "0" for the *)
(* terminating zero, which the modem does not send in a line.              *)
(***************************************************************************)
EXTENDS Naturals, Sequences, FiniteSetsExt

CONSTANTS
  Chunks,    \* the pieces of text the modem sends
  Keyword,   \* the keyword callers look for
  LineBuf,   \* client->recv_bufsz
  BufSize,   \* resp->buf_size
  LineNums,  \* the values of resp->line_num in use
  MaxChunks, \* bound: pieces sent
  MaxExecs   \* bound: commands

Chars == {"x", "y", "k", "e", "+", ">", "r", "n"}

ASSUME TextConstantsOK ==
  /\ \A c \in Chunks : c \in Seq(Chars) /\ c # <<>>
  /\ Keyword \in Chars
  /\ {LineBuf, BufSize, MaxChunks, MaxExecs} \subseteq Nat
  /\ LineBuf > 0 /\ BufSize > 0
  /\ LineNums \subseteq Nat

VARIABLES
  line,     \* client->recv_line_buf, its first recv_line_len characters
  isFull,   \* at_recv_readline's is_full
  lastCh,   \* its last_ch; "0" is the initial 0
  got,      \* at_recv_readline has returned a line
  endSign,  \* client->end_sign is '>'
  urcs,     \* client->urc_table holds the entry for "+"
  waiting,  \* client->resp # RT_NULL
  status,   \* client->resp_status
  text,     \* resp->buf
  len,      \* resp->buf_len
  count,    \* resp->line_counts
  num,      \* resp->line_num
  rx,       \* what the modem has sent and the client not yet received
  nchunks, execs,
  raw, ended,  \* history: the characters since the last line end, and whether
               \* they end there
  stored       \* history: the lines stored since the last command

readVars == <<line, isFull, lastCh, got>>
respVars == <<text, len, count, stored>>
historyVars == <<raw, ended>>
vars == <<readVars, endSign, urcs, waiting, status, respVars, num, rx,
          nchunks, execs, historyVars>>

-----------------------------------------------------------------------------
(* Finding a line in a response *)

\* The offset behind the string that starts at offset i: i + strlen + 1.
After(i) ==
  LET zeros == {j \in i .. BufSize : text[j] = "0"}
  IN  IF zeros = {} THEN BufSize + 1 ELSE Min(zeros) + 1

\* The offset of line i, found by walking over the lines before it.
Start(i) ==
  LET start[j \in 1 .. i] == IF j = 1 THEN 1 ELSE After(start[j - 1])
  IN  start[i]

StringAt(i) == SubSeq(text, i, After(i) - 2)

\* at_resp_get_line; <<"null">> is RT_NULL.
GetLine(i) == IF i \in 1 .. count THEN StringAt(Start(i)) ELSE <<"null">>

Contains(s, c) == \E i \in DOMAIN s : s[i] = c

\* at_resp_get_line_by_kw.
GetLineByKw(kw) ==
  LET hits == {i \in 1 .. count : Contains(GetLine(i), kw)}
  IN  IF hits = {} THEN <<"null">> ELSE GetLine(Min(hits))

-----------------------------------------------------------------------------
Init ==
  /\ line = <<>> /\ isFull = FALSE /\ lastCh = "0" /\ got = FALSE
  /\ endSign = FALSE /\ urcs = FALSE
  /\ waiting = FALSE /\ status = "ok"
  /\ text = [i \in 1 .. BufSize |-> "0"] /\ len = 0 /\ count = 0
  /\ num = 0
  /\ rx = <<>> /\ nchunks = 0 /\ execs = 0
  /\ raw = <<>> /\ ended = TRUE /\ stored = <<>>

-----------------------------------------------------------------------------
(* The caller *)

\* Mutant: the previous command's lines are still counted.
ExecKeepsCount(n) ==
  /\ ~waiting /\ execs < MaxExecs
  /\ execs' = execs + 1
  /\ num' = n /\ len' = 0 /\ stored' = <<>>
  /\ waiting' = TRUE /\ status' = "ok"
  /\ UNCHANGED <<readVars, endSign, urcs, text, count, rx, nchunks, historyVars>>

\* at_obj_exec_cmd: the counts start again, the text stays where it is.
Exec(n) ==
  /\ ~waiting /\ execs < MaxExecs
  /\ execs' = execs + 1
  /\ num' = n /\ len' = 0 /\ count' = 0 /\ stored' = <<>>
  /\ waiting' = TRUE /\ status' = "ok"
  /\ UNCHANGED <<readVars, endSign, urcs, text, rx, nchunks, historyVars>>

TimeOut ==
  /\ waiting
  /\ waiting' = FALSE /\ status' = "timeout"
  /\ UNCHANGED <<readVars, endSign, urcs, respVars, num, rx, nchunks, execs,
                 historyVars>>

SetEndSign ==
  /\ ~waiting /\ endSign' = ~endSign
  /\ UNCHANGED <<readVars, urcs, waiting, status, respVars, num, rx, nchunks, execs,
                 historyVars>>

\* at_obj_set_urc_table, unless there is no memory: a driver registers its
\* table while the parser may be in the middle of a line.
SetUrcTable ==
  /\ ~urcs /\ urcs' = TRUE
  /\ UNCHANGED <<readVars, endSign, waiting, status, respVars, num, rx,
                 nchunks, execs, historyVars>>

-----------------------------------------------------------------------------
(* at_recv_readline *)

Last2(s) == IF Len(s) < 2 THEN <<>> ELSE <<s[Len(s) - 1], s[Len(s)]>>

\* get_urc_obj: every entry of the driver's tables has the suffix CR LF.
IsUrc(l) == urcs /\ l # <<>> /\ Head(l) = "+" /\ Last2(l) = <<"r", "n">>

\* Reference: what ends a line of the stream, whatever its length.
EndsStream(s) ==
  Last2(s) = <<"r", "n">> \/ (endSign /\ s # <<>> /\ s[Len(s)] = ">")

NoteChar(c) ==
  /\ raw' = IF ended THEN <<c>> ELSE Append(raw, c)
  /\ ended' = EndsStream(raw')

\* The body of at_recv_readline's loop for the character c: the buffer takes it
\* if it has room; a line that had none is thrown away when it ends.
\* Mutant: it is thrown away as soon as the buffer is full.
CutLineAtOnce(c) ==
  LET buf == Append(line, c)
      ends == (c = "n" /\ lastCh = "r") \/ (endSign /\ c = ">") \/ IsUrc(buf)
  IN  IF Len(line) = LineBuf
      THEN [line |-> <<>>, isFull |-> FALSE, lastCh |-> "0", got |-> FALSE]
      ELSE [line |-> buf, isFull |-> FALSE, lastCh |-> IF ends THEN "0" ELSE c,
            got |-> ends]

CutLine(c) ==
  LET full == isFull \/ Len(line) = LineBuf
      buf  == IF Len(line) < LineBuf THEN Append(line, c) ELSE line
      ends == (c = "n" /\ lastCh = "r") \/ (endSign /\ c = ">") \/ IsUrc(buf)
  IN  CASE ends /\ full -> [line |-> <<>>, isFull |-> FALSE, lastCh |-> "0",
                            got |-> FALSE]
        [] ends /\ ~full -> [line |-> buf, isFull |-> FALSE, lastCh |-> "0",
                             got |-> TRUE]
        [] OTHER -> [line |-> buf, isFull |-> full, lastCh |-> c, got |-> FALSE]

Receive ==
  /\ ~got /\ rx # <<>>
  /\ LET r == CutLine(Head(rx)) IN
       line' = r.line /\ isFull' = r.isFull /\ lastCh' = r.lastCh /\ got' = r.got
  /\ NoteChar(Head(rx))
  /\ rx' = Tail(rx)
  /\ UNCHANGED <<endSign, urcs, waiting, status, respVars, num, nchunks, execs>>

-----------------------------------------------------------------------------
(* client_parser *)

\* The buffer with the line l at offset len, its last character replaced by a
\* zero.
Terminated(l) == [l EXCEPT ![Len(l)] = "0"]
Copied(l) == [i \in 1 .. BufSize |->
                IF i \in len + 1 .. len + Len(l) THEN Terminated(l)[i - len]
                                                ELSE text[i]]

\* Mutant: the line is copied as it is.
StoreUnterminated(l) ==
  IF len + Len(l) < BufSize
  THEN /\ text' = [i \in 1 .. BufSize |->
                     IF i \in len + 1 .. len + Len(l) THEN l[i - len] ELSE text[i]]
       /\ len' = len + Len(l) /\ count' = count + 1
       /\ stored' = Append(stored, l)
  ELSE UNCHANGED respVars

\* Mutant: the comparison is one off.
StoreOneMore(l) ==
  IF len + Len(l) <= BufSize
  THEN /\ text' = Copied(l)
       /\ len' = len + Len(l) /\ count' = count + 1
       /\ stored' = Append(stored, l)
  ELSE UNCHANGED respVars

Store(l) ==
  IF len + Len(l) < BufSize
  THEN /\ text' = Copied(l)
       /\ len' = len + Len(l) /\ count' = count + 1
       /\ stored' = Append(stored, l)
  ELSE UNCHANGED respVars

\* Mutant: an OK ends every response.
VerdictOfAnyOk(l) ==
  IF \/ num = 0 /\ endSign /\ l[Len(l)] = ">"
     \/ Head(Terminated(l)) = "k"            THEN "ok"
  ELSE IF Contains(Terminated(l), "e")       THEN "error"
  ELSE IF num # 0 /\ count' = num            THEN "ok"
  ELSE "none"

\* What the line says about the response: the zero has replaced its last
\* character by now, and line_counts is the new one.
Verdict(l) ==
  IF num = 0 /\ (\/ endSign /\ l[Len(l)] = ">"
                 \/ Head(Terminated(l)) = "k") THEN "ok"
  ELSE IF Contains(Terminated(l), "e")       THEN "error"
  ELSE IF num # 0 /\ count' = num            THEN "ok"
  ELSE "none"

ParseUrc ==
  /\ got /\ IsUrc(line)
  /\ UNCHANGED <<waiting, status, respVars>>

ParseUnrecognized ==
  /\ got /\ ~IsUrc(line) /\ ~waiting
  /\ UNCHANGED <<waiting, status, respVars>>

ParseResponse ==
  /\ got /\ ~IsUrc(line) /\ waiting
  /\ Store(line)
  /\ IF Verdict(line) = "none"
     THEN /\ status' = IF len + Len(line) < BufSize THEN status ELSE "full"
          /\ UNCHANGED waiting
     ELSE status' = Verdict(line) /\ waiting' = FALSE

\* The loop then calls at_recv_readline again, which empties the line buffer.
Parse ==
  /\ ParseUrc \/ ParseUnrecognized \/ ParseResponse
  /\ line' = <<>> /\ isFull' = FALSE /\ lastCh' = "0" /\ got' = FALSE
  /\ UNCHANGED <<endSign, urcs, num, rx, nchunks, execs, historyVars>>

Caller == \/ \E n \in LineNums : Exec(n)
          \/ TimeOut \/ SetEndSign \/ SetUrcTable

\* The modem (external).
Send ==
  /\ rx = <<>> /\ nchunks < MaxChunks
  /\ rx' \in Chunks
  /\ nchunks' = nchunks + 1
  /\ UNCHANGED <<readVars, endSign, urcs, waiting, status, respVars, num, execs,
                 historyVars>>

Next == Caller \/ Send \/ Receive \/ Parse

Spec == Init /\ [][Next]_vars

-----------------------------------------------------------------------------
(* Properties *)

\* Every variable has a value of its type, and the text of a response stays
\* inside its buffer, with a zero behind the last line.
TypeOK ==
  /\ line \in Seq(Chars) /\ Len(line) <= LineBuf
  /\ {isFull, got, endSign, urcs, waiting, ended} \subseteq BOOLEAN
  /\ lastCh \in Chars \cup {"0"}
  /\ status \in {"ok", "error", "full", "timeout"}
  /\ text \in [1 .. BufSize -> Chars \cup {"0"}]
  /\ len \in 0 .. BufSize - 1 /\ (len > 0 => text[len] = "0")
  /\ count \in Nat /\ num \in LineNums \cup {0}
  /\ raw \in Seq(Chars) /\ stored \in Seq(Seq(Chars))

\* What the parser gets is a whole line of what the modem sent: nothing of the
\* line before is in front of it, and the rest of a line too long for the
\* buffer is never taken for a line, wherever the buffer filled up.
WholeLines == got => line = raw /\ ended

\* at_resp_get_line(i) is the i-th line stored since the command was sent, with
\* its last character gone, although the lines are found only by walking over
\* zeros in a buffer that still holds the text of earlier responses.
GetLineFindsLine ==
  /\ Len(stored) = count
  /\ \A i \in 1 .. count :
       GetLine(i) = SubSeq(stored[i], 1, Len(stored[i]) - 1)

\* at_resp_get_line_by_kw finds the first line of this response that has the
\* keyword, and nothing when none has.
KeywordFindsFirst ==
  LET has(i) == Contains(SubSeq(stored[i], 1, Len(stored[i]) - 1), Keyword)
      found == {i \in DOMAIN stored : has(i)}
  IN  GetLineByKw(Keyword) = IF found = {} THEN <<"null">> ELSE GetLine(Min(found))

\* A command with line_num set that succeeded has that many lines for its caller
\* to read: the callers of mc665.c go on to parse the last of them.
SuccessHasItsLines ==
  ~waiting /\ status = "ok" /\ execs > 0 /\ num # 0 => count = num

=============================================================================
