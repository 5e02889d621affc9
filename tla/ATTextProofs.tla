---------------------------- MODULE ATTextProofs ----------------------------
(***************************************************************************)
(* Proofs about ATText: the text side of components/at_client/at_client.c. *)
(* What the run of text.cfg checks for a few lines around buffers of four  *)
(* and nine characters holds for buffers of every size, every text the     *)
(* modem may send and every number of commands: the parser is given whole  *)
(* lines only, and a caller finds in the response the lines stored there.  *)
(***************************************************************************)
EXTENDS ATText, SequenceTheorems, WellFoundedInduction, TLAPS

-----------------------------------------------------------------------------
(* The invariant *)

\* Where the receive loop is in the text: what the line buffer holds is all of
\* the line so far, unless it is full, and last_ch is its last character.
LineInv ==
  /\ got => line = raw /\ ended /\ line # <<>>
  /\ ~got /\ ended => line = <<>> /\ ~isFull /\ lastCh = "0"
  /\ ~got /\ ~ended =>
       /\ raw # <<>> /\ lastCh = raw[Len(raw)]
       /\ ~isFull => line = raw
       /\ isFull => Len(line) = LineBuf
       /\ Last2(line) # <<"r", "n">>

\* The lines a response counts are the lines stored in it, none of them empty.
StoredInv ==
  /\ Len(stored) = count
  /\ \A i \in 1 .. count : stored[i] \in Seq(Chars) /\ stored[i] # <<>>

\* off[i] is the offset of line i in the buffer: the lines lie there one behind
\* the other, each with a zero for its last character.
Layout(off) ==
  /\ off \in [1 .. count + 1 -> 1 .. len + 1]
  /\ off[1] = 1 /\ off[count + 1] = len + 1
  /\ \A i \in 1 .. count :
       /\ off[i + 1] = off[i] + Len(stored[i])
       /\ \A k \in 1 .. Len(stored[i]) - 1 : text[off[i] + k - 1] = stored[i][k]
       /\ text[off[i + 1] - 1] = "0"

LayoutInv == \E off : Layout(off)

\* A response that waits for line_num lines has not got them all.
CountInv ==
  /\ waiting /\ num # 0 => count < num
  /\ execs \in Nat

-----------------------------------------------------------------------------
(* The characters of a line *)

LEMMA Constants ==
  /\ LineBuf \in Nat /\ LineBuf > 0 /\ BufSize \in Nat /\ BufSize > 0
  /\ LineNums \subseteq Nat
  /\ "0" \notin Chars
BY TextConstantsOK DEF Chars

\* A line with one more character, and the last two characters of it.
LEMMA AppendFacts ==
  ASSUME NEW s \in Seq(Chars), NEW c \in Chars
  PROVE  /\ Append(s, c) \in Seq(Chars) /\ Append(s, c) # <<>>
         /\ Len(Append(s, c)) = Len(s) + 1
         /\ Append(s, c)[Len(Append(s, c))] = c
         /\ Last2(Append(s, c)) = <<"r", "n">>
              <=> s # <<>> /\ s[Len(s)] = "r" /\ c = "n"
<1> DEFINE t == Append(s, c)
<1>1. /\ t \in Seq(Chars) /\ Len(t) = Len(s) + 1 /\ t[Len(t)] = c
      /\ \A i \in 1 .. Len(s) : t[i] = s[i]
  BY AppendProperties
<1>2. t # <<>>
  BY <1>1, LenProperties
<1>3. CASE s = <<>>
  BY <1>1, <1>2, <1>3 DEF Last2
<1>4. CASE s # <<>>
  <2>1. Len(s) \in Nat \ {0}
    BY <1>4, EmptySeq
  <2>2. Last2(t) = <<t[Len(t) - 1], t[Len(t)]>>
    BY <1>1, <2>1 DEF Last2
  <2>3. t[Len(t) - 1] = s[Len(s)]
    BY <1>1, <2>1
  <2> QED
    BY <1>1, <1>2, <1>4, <2>2, <2>3
<1> QED
  BY <1>3, <1>4

\* The line of one character does not end in CR LF.
LEMMA OneCharacter ==
  ASSUME NEW c \in Chars
  PROVE  /\ <<c>> \in Seq(Chars) /\ <<c>> # <<>> /\ Len(<<c>>) = 1 /\ <<c>>[1] = c
         /\ Append(<<>>, c) = <<c>>
         /\ Last2(<<c>>) # <<"r", "n">>
BY DEF Last2

-----------------------------------------------------------------------------
(* Type correctness *)

\* Tail and Head of what is received.
RxInv == rx \in Seq(Chars)

\* What the body of the loop takes for the line buffer and for the end of a line.
Full == isFull \/ Len(line) = LineBuf
Buf(c) == IF Len(line) < LineBuf THEN Append(line, c) ELSE line
Ends(c) == (c = "n" /\ lastCh = "r") \/ (endSign /\ c = ">") \/ IsUrc(Buf(c))

LEMMA CutLineCases ==
  ASSUME NEW c
  PROVE  /\ Ends(c) /\ Full =>
              CutLine(c) = [line |-> <<>>, isFull |-> FALSE, lastCh |-> "0", got |-> FALSE]
         /\ Ends(c) /\ ~Full =>
              CutLine(c) = [line |-> Buf(c), isFull |-> FALSE, lastCh |-> "0", got |-> TRUE]
         /\ ~Ends(c) =>
              CutLine(c) = [line |-> Buf(c), isFull |-> Full, lastCh |-> c, got |-> FALSE]
<1> DEFINE a == [line |-> <<>>, isFull |-> FALSE, lastCh |-> "0", got |-> FALSE]
           b == [line |-> Buf(c), isFull |-> FALSE, lastCh |-> "0", got |-> TRUE]
           d == [line |-> Buf(c), isFull |-> Full, lastCh |-> c, got |-> FALSE]
<1>1. CutLine(c) = CASE Ends(c) /\ Full -> a
                     [] Ends(c) /\ ~Full -> b
                     [] OTHER -> d
  BY DEF CutLine, Full, Buf, Ends
<1> HIDE DEF a, b, d
<1>2. /\ Ends(c) /\ Full => CutLine(c) = a
      /\ Ends(c) /\ ~Full => CutLine(c) = b
      /\ ~Ends(c) => CutLine(c) = d
  BY <1>1
<1> QED
  BY <1>2, Zenon DEF a, b, d

\* The same, field by field.
LEMMA CutLineFields ==
  ASSUME NEW c
  PROVE  /\ CutLine(c).got = (Ends(c) /\ ~Full)
         /\ CutLine(c).isFull = (~Ends(c) /\ Full)
         /\ CutLine(c).line = IF Ends(c) /\ Full THEN <<>> ELSE Buf(c)
         /\ CutLine(c).lastCh = IF Ends(c) THEN "0" ELSE c
<1> DEFINE r == CutLine(c)
<1> HIDE DEF r
<1>1. CASE Ends(c) /\ Full
  <2>1. r = [line |-> <<>>, isFull |-> FALSE, lastCh |-> "0", got |-> FALSE]
    BY <1>1, CutLineCases, Zenon DEF r
  <2>2. r.line = <<>> /\ r.isFull = FALSE /\ r.lastCh = "0" /\ r.got = FALSE
    BY <2>1, Zenon
  <2> QED
    BY <1>1, <2>2, Zenon DEF r
<1>2. CASE Ends(c) /\ ~Full
  <2>1. r = [line |-> Buf(c), isFull |-> FALSE, lastCh |-> "0", got |-> TRUE]
    BY <1>2, CutLineCases, Zenon DEF r
  <2>2. r.line = Buf(c) /\ r.isFull = FALSE /\ r.lastCh = "0" /\ r.got = TRUE
    BY <2>1, Zenon
  <2> QED
    BY <1>2, <2>2, Zenon DEF r
<1>3. CASE ~Ends(c)
  <2>1. r = [line |-> Buf(c), isFull |-> Full, lastCh |-> c, got |-> FALSE]
    BY <1>3, CutLineCases, Zenon DEF r
  <2>2. r.line = Buf(c) /\ r.isFull = Full /\ r.lastCh = c /\ r.got = FALSE
    BY <2>1, Zenon
  <2>3. Full \in BOOLEAN
    BY DEF Full
  <2> QED
    BY <1>3, <2>2, <2>3, Zenon DEF r
<1> QED
  BY <1>1, <1>2, <1>3, Zenon

\* A line in the buffer: its characters but the last, a zero, and around them
\* what was there.
LEMMA CopiedFacts ==
  ASSUME TypeOK, NEW l \in Seq(Chars), len + Len(l) < BufSize
  PROVE  /\ Copied(l) \in [1 .. BufSize -> Chars \cup {"0"}]
         /\ len + Len(l) \in 0 .. BufSize - 1
         /\ \A i \in 1 .. len : Copied(l)[i] = text[i]
         /\ \A k \in 1 .. Len(l) - 1 : Copied(l)[len + k] = l[k]
         /\ l # <<>> => Copied(l)[len + Len(l)] = "0"
<1> DEFINE t == Terminated(l)
<1>1. /\ BufSize \in Nat /\ len \in Nat /\ len <= BufSize - 1
      /\ text \in [1 .. BufSize -> Chars \cup {"0"}]
      /\ Len(l) \in Nat /\ l \in [1 .. Len(l) -> Chars]
  BY Constants, LenProperties DEF TypeOK
<1>2. t \in [1 .. Len(l) -> Chars \cup {"0"}]
  BY <1>1 DEF Terminated
<1>3. ASSUME NEW k \in 1 .. Len(l) - 1
      PROVE  t[k] = l[k]
  <2>1. \A n \in Nat : \A j \in 1 .. n - 1 : j \in 1 .. n /\ j # n
    OBVIOUS
  <2>2. DOMAIN l = 1 .. Len(l) /\ Len(l) \in Nat
    BY LenProperties
  <2>3. k \in DOMAIN l /\ k # Len(l)
    BY <2>1, <2>2, Zenon
  <2> QED
    BY <2>3, Zenon DEF Terminated
<1>4. l # <<>> => t[Len(l)] = "0" /\ Len(l) > 0
  BY <1>1, EmptySeq DEF Terminated
<1> HIDE DEF t
<1>5. Copied(l) = [i \in 1 .. BufSize |->
                    IF i \in len + 1 .. len + Len(l) THEN t[i - len] ELSE text[i]]
  BY DEF Copied, t
<1>6. \A i \in 1 .. BufSize : i \in len + 1 .. len + Len(l) => i - len \in 1 .. Len(l)
  BY <1>1
<1>7. Copied(l) \in [1 .. BufSize -> Chars \cup {"0"}]
  BY <1>1, <1>2, <1>5, <1>6
<1>8. \A i \in 1 .. len : Copied(l)[i] = text[i]
  BY <1>1, <1>5
<1>9. ASSUME NEW k \in 1 .. Len(l)
      PROVE  Copied(l)[len + k] = t[k]
  <2>1. /\ len + k \in 1 .. BufSize /\ len + k \in len + 1 .. len + Len(l)
        /\ (len + k) - len = k
    BY <1>1
  <2> QED
    BY <1>5, <2>1
<1>10. \A k \in 1 .. Len(l) - 1 : Copied(l)[len + k] = l[k]
  BY <1>1, <1>3, <1>9
<1>11. l # <<>> => Copied(l)[len + Len(l)] = "0"
  BY <1>1, <1>4, <1>9
<1> QED
  BY <1>1, <1>7, <1>8, <1>10, <1>11

LEMMA ReceiveTypes ==
  ASSUME TypeOK, RxInv, Receive
  PROVE  TypeOK' /\ RxInv'
<1> DEFINE c == Head(rx)
<1>1. c \in Chars /\ rx' \in Seq(Chars)
  BY HeadTailProperties DEF RxInv, Receive
<1>2. /\ line' = CutLine(c).line /\ isFull' = CutLine(c).isFull
      /\ lastCh' = CutLine(c).lastCh /\ got' = CutLine(c).got
      /\ NoteChar(c)
      /\ UNCHANGED <<endSign, urcs, waiting, status, text, len, count, stored, num>>
  BY DEF Receive, respVars
<1> HIDE DEF c
<1>3. line \in Seq(Chars) /\ Len(line) <= LineBuf /\ raw \in Seq(Chars)
  BY DEF TypeOK
<1>4. Buf(c) \in Seq(Chars) /\ Len(Buf(c)) <= LineBuf
  BY <1>1, <1>3, AppendFacts, Constants, LenProperties DEF Buf
<1>5. <<>> \in Seq(Chars) /\ Len(<<>>) <= LineBuf
  BY Constants
<1>6. line' \in Seq(Chars) /\ Len(line') <= LineBuf
  BY <1>2, <1>4, <1>5, CutLineFields
<1>7. isFull' \in BOOLEAN /\ got' \in BOOLEAN
  BY <1>2, CutLineFields
<1>8. lastCh' \in Chars \cup {"0"}
  BY <1>1, <1>2, CutLineFields
<1>9. raw' \in Seq(Chars)
  BY <1>1, <1>2, <1>3, AppendFacts, OneCharacter DEF NoteChar
<1>10. ended' \in BOOLEAN
  BY <1>2 DEF NoteChar, EndsStream
<1> QED
  BY <1>1, <1>2, <1>6, <1>7, <1>8, <1>9, <1>10 DEF TypeOK, RxInv

LEMMA StoreTypes ==
  ASSUME TypeOK, Store(line)
  PROVE  /\ text' \in [1 .. BufSize -> Chars \cup {"0"}]
         /\ len' \in 0 .. BufSize - 1 /\ (len' > 0 => text'[len'] = "0")
         /\ count' \in Nat /\ stored' \in Seq(Seq(Chars))
<1>1. /\ line \in Seq(Chars) /\ stored \in Seq(Seq(Chars)) /\ count \in Nat
      /\ Len(line) \in Nat /\ len \in Nat /\ (len > 0 => text[len] = "0")
  BY LenProperties, Constants DEF TypeOK
<1>2. CASE len + Len(line) < BufSize
  <2>1. /\ text' = Copied(line) /\ len' = len + Len(line) /\ count' = count + 1
        /\ stored' = Append(stored, line)
    BY <1>2 DEF Store
  <2>2. stored' \in Seq(Seq(Chars)) /\ count' \in Nat
    BY <1>1, <2>1, AppendProperties
  <2>3. /\ Copied(line) \in [1 .. BufSize -> Chars \cup {"0"}]
        /\ len + Len(line) \in 0 .. BufSize - 1
        /\ \A i \in 1 .. len : Copied(line)[i] = text[i]
        /\ line # <<>> => Copied(line)[len + Len(line)] = "0"
    BY <1>1, <1>2, CopiedFacts
  <2>4. len' > 0 => text'[len'] = "0"
    <3>1. CASE line = <<>>
      <4>1. len' = len
        BY <1>1, <2>1, <3>1
      <4> QED
        BY <1>1, <2>1, <2>3, <4>1
    <3> QED
      BY <2>1, <2>3, <3>1
  <2> QED
    BY <2>1, <2>2, <2>3, <2>4
<1>3. CASE ~(len + Len(line) < BufSize)
  BY <1>3 DEF Store, respVars, TypeOK
<1> QED
  BY <1>2, <1>3

LEMMA VerdictValues ==
  ASSUME NEW l
  PROVE  Verdict(l) \in {"ok", "error", "none"}
BY DEF Verdict

LEMMA ParseTypes ==
  ASSUME TypeOK, RxInv, Parse
  PROVE  TypeOK' /\ RxInv'
<1>1. /\ line' = <<>> /\ isFull' = FALSE /\ lastCh' = "0" /\ got' = FALSE
      /\ endSign' = endSign /\ urcs' = urcs /\ num' = num /\ rx' = rx
      /\ raw' = raw /\ ended' = ended
  BY DEF Parse, historyVars
<1>2. /\ {waiting'} \subseteq BOOLEAN /\ status' \in {"ok", "error", "full", "timeout"}
      /\ text' \in [1 .. BufSize -> Chars \cup {"0"}]
      /\ len' \in 0 .. BufSize - 1 /\ (len' > 0 => text'[len'] = "0")
      /\ count' \in Nat /\ stored' \in Seq(Seq(Chars))
  <2>1. CASE ParseUrc
    BY <2>1 DEF ParseUrc, TypeOK, respVars
  <2>2. CASE ParseUnrecognized
    BY <2>2 DEF ParseUnrecognized, TypeOK, respVars
  <2>3. CASE ParseResponse
    <3>1. waiting' \in BOOLEAN /\ status' \in {"ok", "error", "full", "timeout"}
      BY <2>3, VerdictValues DEF ParseResponse, TypeOK
    <3>2. Store(line)
      BY <2>3 DEF ParseResponse
    <3> QED
      BY <3>1, <3>2, StoreTypes
  <2> QED
    BY <2>1, <2>2, <2>3 DEF Parse
<1>3. line' \in Seq(Chars) /\ Len(line') <= LineBuf
  BY <1>1, Constants
<1> QED
  BY <1>1, <1>2, <1>3 DEF TypeOK, RxInv

LEMMA CallerTypes ==
  ASSUME TypeOK, RxInv, Caller \/ Send
  PROVE  TypeOK' /\ RxInv'
<1>1. ASSUME NEW n \in LineNums, Exec(n)
      PROVE  TypeOK' /\ RxInv'
  <2>1. len' \in 0 .. BufSize - 1 /\ ~(len' > 0) /\ count' \in Nat
        /\ stored' \in Seq(Seq(Chars)) /\ num' \in LineNums \cup {0}
    BY <1>1, Constants DEF Exec
  <2> QED
    BY <1>1, <2>1 DEF Exec, TypeOK, RxInv, readVars, historyVars
<1>2. CASE TimeOut
  BY <1>2 DEF TimeOut, TypeOK, RxInv, readVars, respVars, historyVars
<1>3. CASE SetEndSign
  BY <1>3 DEF SetEndSign, TypeOK, RxInv, readVars, respVars, historyVars
<1>4. CASE SetUrcTable
  BY <1>4 DEF SetUrcTable, TypeOK, RxInv, readVars, respVars, historyVars
<1>5. CASE Send
  BY <1>5, TextConstantsOK DEF Send, TypeOK, RxInv, readVars, respVars, historyVars
<1> QED
  BY <1>1, <1>2, <1>3, <1>4, <1>5 DEF Caller

TypesHold == TypeOK /\ RxInv

LEMMA TypesInit == Init => TypesHold
<1> SUFFICES ASSUME Init PROVE TypesHold
  OBVIOUS
<1>1. /\ <<>> \in Seq(Chars) /\ <<>> \in Seq(Seq(Chars)) /\ Len(<<>>) = 0
  OBVIOUS
<1>2. /\ text \in [1 .. BufSize -> Chars \cup {"0"}]
      /\ len \in 0 .. BufSize - 1 /\ ~(len > 0) /\ count \in Nat
  BY Constants DEF Init
<1>3. line \in Seq(Chars) /\ Len(line) <= LineBuf /\ raw \in Seq(Chars)
      /\ rx \in Seq(Chars) /\ stored \in Seq(Seq(Chars))
  BY <1>1, Constants DEF Init
<1>4. /\ {isFull, got, endSign, urcs, waiting, ended} \subseteq BOOLEAN
      /\ lastCh \in Chars \cup {"0"} /\ num \in LineNums \cup {0}
      /\ status \in {"ok", "error", "full", "timeout"}
  BY DEF Init
<1> QED
  BY <1>2, <1>3, <1>4 DEF TypesHold, TypeOK, RxInv

LEMMA TypesNext == TypesHold /\ [Next]_vars => TypesHold'
<1> SUFFICES ASSUME TypesHold, [Next]_vars PROVE TypesHold'
  OBVIOUS
<1>1. CASE UNCHANGED vars
  BY <1>1 DEF vars, readVars, respVars, historyVars, TypesHold, TypeOK, RxInv
<1>2. CASE Next
  BY <1>2, ReceiveTypes, ParseTypes, CallerTypes DEF Next, TypesHold
<1> QED
  BY <1>1, <1>2

\* Every variable keeps its type, and the text of a response stays inside its
\* buffer with a zero behind it: the copy of client_parser for every line
\* length, offset and size of the buffer.
THEOREM TypeCorrect == Spec => []TypeOK
<1>1. Spec => []TypesHold
  BY TypesInit, TypesNext, PTL DEF Spec
<1>2. TypesHold => TypeOK
  BY DEF TypesHold
<1> QED
  BY <1>1, <1>2, PTL

-----------------------------------------------------------------------------
(* Lines of the stream *)

LEMMA LineInit == Init => LineInv
BY DEF Init, LineInv

\* The stream's line ends where the loop takes it to end.
LEMMA ReceiveLine ==
  ASSUME TypeOK, RxInv, LineInv, Receive
  PROVE  LineInv'
<1> DEFINE c == Head(rx)
<1>1. c \in Chars /\ c # "0"
  BY HeadTailProperties, Constants DEF RxInv, Receive
<1>2. /\ line' = CutLine(c).line /\ isFull' = CutLine(c).isFull
      /\ lastCh' = CutLine(c).lastCh /\ got' = CutLine(c).got
      /\ NoteChar(c) /\ ~got /\ endSign' = endSign
  BY DEF Receive
<1> HIDE DEF c
<1>3. line \in Seq(Chars) /\ Len(line) <= LineBuf /\ raw \in Seq(Chars)
      /\ isFull \in BOOLEAN /\ Len(line) \in Nat /\ ended \in BOOLEAN
  BY LenProperties DEF TypeOK
\* The characters of the line up to and with c.
<1>4. /\ raw' \in Seq(Chars) /\ raw' # <<>> /\ raw'[Len(raw')] = c
      /\ Last2(raw') = <<"r", "n">> <=> c = "n" /\ lastCh = "r"
  <2>1. CASE ended
    BY <1>1, <1>2, <1>3, <2>1, OneCharacter DEF NoteChar, LineInv
  <2>2. CASE ~ended
    <3>1. raw' = Append(raw, c) /\ raw # <<>> /\ lastCh = raw[Len(raw)]
      BY <1>2, <2>2 DEF NoteChar, LineInv
    <3> QED
      BY <1>1, <1>3, <3>1, AppendFacts
  <2> QED
    BY <1>3, <2>1, <2>2
<1>5. ended' <=> (c = "n" /\ lastCh = "r") \/ (endSign /\ c = ">")
  BY <1>2, <1>4 DEF NoteChar, EndsStream
\* While the buffer has had room it holds all of them.
<1>6. ~isFull /\ Len(line) # LineBuf => Buf(c) = raw'
  <2>1. CASE ended
    <3>1. line = <<>> /\ raw' = <<c>> /\ Len(<<>>) < LineBuf
      BY <1>2, <2>1, Constants DEF NoteChar, LineInv
    <3> QED
      BY <1>1, <3>1, OneCharacter DEF Buf
  <2>2. CASE ~ended
    <3>1. raw' = Append(raw, c) /\ (~isFull => line = raw)
      BY <1>2, <2>2 DEF NoteChar, LineInv
    <3>2. Len(line) # LineBuf => Len(line) < LineBuf
      BY <1>3, Constants
    <3> QED
      BY <3>1, <3>2 DEF Buf
  <2> QED
    BY <2>1, <2>2
<1>7. isFull \/ Len(line) = LineBuf => Buf(c) = line /\ Len(line) = LineBuf
  BY <1>2, <1>3, Constants DEF LineInv, Buf
<1>8. Last2(line) # <<"r", "n">>
  <2>1. CASE ended
    BY <1>2, <2>1 DEF LineInv, Last2
  <2> QED
    BY <1>2, <2>1 DEF LineInv
\* A registered line ends in CR LF too.
<1>9. IsUrc(Buf(c)) => c = "n" /\ lastCh = "r"
  <2>1. IsUrc(Buf(c)) => Last2(Buf(c)) = <<"r", "n">>
    BY DEF IsUrc
  <2>2. CASE isFull \/ Len(line) = LineBuf
    BY <1>7, <1>8, <2>1, <2>2
  <2>3. CASE ~(isFull \/ Len(line) = LineBuf)
    BY <1>4, <1>6, <2>1, <2>3
  <2> QED
    BY <2>2, <2>3
<1>10. ended' <=> Ends(c)
  BY <1>5, <1>9 DEF Ends
<1>11. CASE Ends(c) /\ Full
  <2>1. line' = <<>> /\ isFull' = FALSE /\ lastCh' = "0" /\ got' = FALSE /\ ended'
    BY <1>2, <1>10, <1>11, CutLineFields
  <2> QED
    BY <2>1 DEF LineInv
<1>12. CASE Ends(c) /\ ~Full
  <2>1. line' = Buf(c) /\ isFull' = FALSE /\ got' = TRUE /\ ended'
    BY <1>2, <1>10, <1>12, CutLineFields
  <2>2. Buf(c) = raw'
    BY <1>6, <1>12 DEF Full
  <2> QED
    BY <1>4, <2>1, <2>2 DEF LineInv
<1>13. CASE ~Ends(c)
  <2>1. line' = Buf(c) /\ isFull' = Full /\ lastCh' = c /\ got' = FALSE /\ ~ended'
    <3>1. isFull' = (~Ends(c) /\ Full) /\ got' = (Ends(c) /\ ~Full)
      BY <1>2, CutLineFields, Zenon
    <3>2. Full \in BOOLEAN
      BY DEF Full
    <3>3. isFull' = Full /\ got' = FALSE
      BY <1>13, <3>1, <3>2, Zenon
    <3> QED
      BY <1>2, <1>10, <1>13, <3>3, CutLineFields
  <2>2. Last2(raw') # <<"r", "n">>
    BY <1>4, <1>5, <2>1
  <2>3. CASE Full
    BY <1>4, <1>7, <1>8, <2>1, <2>3 DEF LineInv, Full
  <2>4. CASE ~Full
    BY <1>4, <1>6, <2>1, <2>2, <2>4 DEF LineInv, Full
  <2> QED
    BY <2>3, <2>4
<1> QED
  BY <1>11, <1>12, <1>13

LEMMA LineNext ==
  ASSUME TypesHold, LineInv, [Next]_vars
  PROVE  LineInv'
<1>1. CASE Receive
  BY <1>1, ReceiveLine DEF TypesHold
<1>2. CASE Parse
  <2>1. /\ line' = <<>> /\ isFull' = FALSE /\ lastCh' = "0" /\ got' = FALSE /\ ended'
    BY <1>2 DEF Parse, historyVars, ParseUrc, ParseUnrecognized, ParseResponse, LineInv
  <2> QED
    BY <2>1 DEF LineInv
<1>3. CASE Caller \/ Send \/ UNCHANGED vars
  <2>1. UNCHANGED <<line, isFull, lastCh, got, raw, ended>>
    BY <1>3 DEF Caller, Exec, TimeOut, SetEndSign, SetUrcTable, Send, vars, readVars,
                historyVars
  <2> QED
    BY <2>1 DEF LineInv, Last2
<1> QED
  BY <1>1, <1>2, <1>3 DEF Next

\* What the parser is given is a whole line of the modem's text, wherever in it
\* the line buffer filled up, the end sign changed or a URC table was registered.
THEOREM LinesAreWhole == Spec => []WholeLines
<1>1. Init => TypesHold /\ LineInv
  BY TypesInit, LineInit
<1>2. (TypesHold /\ LineInv) /\ [Next]_vars => (TypesHold /\ LineInv)'
  BY TypesNext, LineNext
<1>3. TypesHold /\ LineInv => WholeLines
  BY DEF LineInv, WholeLines
<1> QED
  BY <1>1, <1>2, <1>3, PTL DEF Spec

-----------------------------------------------------------------------------
(* Commands that want a number of lines *)

EnoughInv == CountInv /\ SuccessHasItsLines

LEMMA EnoughInit == Init => EnoughInv
BY DEF Init, EnoughInv, CountInv, SuccessHasItsLines

LEMMA EnoughNext ==
  ASSUME TypesHold, EnoughInv, [Next]_vars
  PROVE  EnoughInv'
<1>1. count \in Nat /\ execs \in Nat /\ num \in Nat
  BY Constants DEF TypesHold, TypeOK, EnoughInv, CountInv
<1>2. ASSUME NEW n \in LineNums, Exec(n)
      PROVE  EnoughInv'
  <2>1. n \in Nat
    BY Constants
  <2>2. waiting' /\ num' = n /\ count' = 0 /\ execs' = execs + 1
    BY <1>2 DEF Exec
  <2> QED
    BY <1>1, <2>1, <2>2 DEF EnoughInv, CountInv, SuccessHasItsLines
<1>3. CASE TimeOut
  <2>1. ~waiting' /\ status' = "timeout" /\ execs' = execs
    BY <1>3 DEF TimeOut
  <2> QED
    BY <1>1, <2>1 DEF EnoughInv, CountInv, SuccessHasItsLines
<1>4. CASE Parse /\ ParseResponse
  <2>1. num' = num /\ execs' = execs
    BY <1>4 DEF Parse
  <2>2. count' = count \/ count' = count + 1
    BY <1>4 DEF ParseResponse, Store, respVars
  <2>3. CASE Verdict(line) = "none"
    <3>1. waiting' /\ waiting /\ ~(num # 0 /\ count' = num)
      BY <1>4, <2>3 DEF ParseResponse, Verdict
    <3> QED
      BY <1>1, <2>1, <2>2, <3>1 DEF EnoughInv, CountInv, SuccessHasItsLines
  <2>4. CASE Verdict(line) # "none"
    <3>1. ~waiting' /\ status' = Verdict(line)
      BY <1>4, <2>4 DEF ParseResponse
    <3>2. num # 0 /\ Verdict(line) = "ok" => count' = num
      BY DEF Verdict
    <3> QED
      BY <1>1, <2>1, <3>1, <3>2 DEF EnoughInv, CountInv, SuccessHasItsLines
  <2> QED
    BY <2>3, <2>4
<1>5. CASE UNCHANGED <<waiting, status, count, num, execs>>
  BY <1>5 DEF EnoughInv, CountInv, SuccessHasItsLines
<1>6. \/ \E n \in LineNums : Exec(n)
      \/ TimeOut
      \/ Parse /\ ParseResponse
      \/ UNCHANGED <<waiting, status, count, num, execs>>
  <2>1. CASE Parse
    BY <2>1 DEF Parse, ParseUrc, ParseUnrecognized, respVars
  <2>2. CASE SetEndSign \/ SetUrcTable
    <3>1. CASE SetEndSign
      BY <3>1 DEF SetEndSign, respVars
    <3>2. CASE SetUrcTable
      BY <3>2 DEF SetUrcTable, respVars
    <3> QED
      BY <2>2, <3>1, <3>2
  <2>3. CASE Send \/ Receive \/ UNCHANGED vars
    BY <2>3 DEF Send, Receive, vars, respVars
  <2>4. CASE TimeOut \/ \E n \in LineNums : Exec(n)
    BY <2>4
  <2> QED
    BY <2>1, <2>2, <2>3, <2>4 DEF Next, Caller
<1> QED
  BY <1>2, <1>3, <1>4, <1>5, <1>6

\* A command that wanted line_num lines and succeeded got that many.
THEOREM EnoughLines == Spec => []SuccessHasItsLines
<1>1. Init => TypesHold /\ EnoughInv
  BY TypesInit, EnoughInit
<1>2. (TypesHold /\ EnoughInv) /\ [Next]_vars => (TypesHold /\ EnoughInv)'
  BY TypesNext, EnoughNext
<1>3. EnoughInv => SuccessHasItsLines
  BY DEF EnoughInv
<1> QED
  BY <1>1, <1>2, <1>3, PTL DEF Spec

-----------------------------------------------------------------------------
(* Lines of a response *)

PackedInv == StoredInv /\ LayoutInv

LEMMA PackedInit == Init => PackedInv
<1> SUFFICES ASSUME Init PROVE PackedInv
  OBVIOUS
<1>1. count = 0 /\ len = 0 /\ stored = <<>>
  BY DEF Init
<1>2. StoredInv
  BY <1>1 DEF StoredInv
<1>3. Layout([i \in 1 .. 1 |-> 1])
  BY <1>1 DEF Layout
<1> QED
  BY <1>2, <1>3 DEF PackedInv, LayoutInv

\* A character in the middle of m characters that end at b.
LEMMA Inside ==
  ASSUME NEW a \in Nat, NEW b \in Nat, NEW m \in Nat, NEW j \in Int,
         NEW l \in Nat, a >= 1, b = a + m, b <= l + 1, 1 <= j, j <= m - 1
  PROVE  a + j - 1 \in 1 .. l
OBVIOUS

LEMMA InsideEnd ==
  ASSUME NEW a \in Nat, NEW b \in Nat, NEW m \in Nat, NEW l \in Nat,
         a >= 1, m > 0, b = a + m, b <= l + 1
  PROVE  b - 1 \in 1 .. l
OBVIOUS

\* One more line behind those of the response.
LEMMA StorePacks ==
  ASSUME TypeOK, PackedInv, line # <<>>, Store(line)
  PROVE  PackedInv'
<1>1. /\ line \in Seq(Chars) /\ stored \in Seq(Seq(Chars)) /\ count \in Nat
      /\ len \in Nat /\ len <= BufSize - 1 /\ BufSize \in Nat
      /\ Len(line) \in Nat /\ Len(line) > 0
  BY EmptySeq, LenProperties, Constants DEF TypeOK
<1>2. CASE len + Len(line) < BufSize
  <2>1. /\ text' = Copied(line) /\ len' = len + Len(line) /\ count' = count + 1
        /\ stored' = Append(stored, line)
    BY <1>2 DEF Store
  <2>2. /\ Len(stored) = count
        /\ \A i \in 1 .. count : stored[i] \in Seq(Chars) /\ stored[i] # <<>>
    BY DEF PackedInv, StoredInv
  <2>3. /\ Len(stored') = count' /\ stored'[count'] = line
        /\ \A i \in 1 .. count : stored'[i] = stored[i]
    <3>1. /\ Len(Append(stored, line)) = Len(stored) + 1
          /\ \A i \in 1 .. Len(stored) : Append(stored, line)[i] = stored[i]
          /\ Append(stored, line)[Len(stored) + 1] = line
      BY <1>1, AppendProperties
    <3> QED
      BY <2>1, <2>2, <3>1
  <2>4. StoredInv'
    <3>1. \A i \in 1 .. count' : i \in 1 .. count \/ i = count'
      BY <1>1, <2>1
    <3> QED
      BY <1>1, <2>2, <2>3, <3>1 DEF StoredInv
  <2>5. PICK off : Layout(off)
    BY DEF PackedInv, LayoutInv
  <2>6. /\ off \in [1 .. count + 1 -> 1 .. len + 1]
        /\ off[1] = 1 /\ off[count + 1] = len + 1
        /\ \A i \in 1 .. count :
             /\ off[i + 1] = off[i] + Len(stored[i])
             /\ \A k \in 1 .. Len(stored[i]) - 1 : text[off[i] + k - 1] = stored[i][k]
             /\ text[off[i + 1] - 1] = "0"
    BY <2>5 DEF Layout
  <2>7. /\ \A i \in 1 .. len : Copied(line)[i] = text[i]
        /\ \A k \in 1 .. Len(line) - 1 : Copied(line)[len + k] = line[k]
        /\ Copied(line)[len + Len(line)] = "0"
    BY <1>1, <1>2, CopiedFacts
  <2> DEFINE new == [i \in 1 .. count' + 1 |-> IF i = count' + 1 THEN len' + 1 ELSE off[i]]
  <2>8. /\ new \in [1 .. count' + 1 -> 1 .. len' + 1]
        /\ new[1] = 1 /\ new[count' + 1] = len' + 1
        /\ \A i \in 1 .. count + 1 : new[i] = off[i]
    BY <1>1, <2>1, <2>6
  <2> HIDE DEF new
  <2>9. ASSUME NEW i \in 1 .. count'
        PROVE  /\ new[i + 1] = new[i] + Len(stored'[i])
               /\ \A k \in 1 .. Len(stored'[i]) - 1 :
                    text'[new[i] + k - 1] = stored'[i][k]
               /\ text'[new[i + 1] - 1] = "0"
    <3>1. CASE i = count'
      <4>1. new[i] = len + 1 /\ new[i + 1] = len + Len(line) + 1 /\ stored'[i] = line
        BY <1>1, <2>1, <2>3, <2>6, <2>8, <3>1
      <4>2. ASSUME NEW k \in 1 .. Len(line) - 1
            PROVE  text'[new[i] + k - 1] = line[k]
        <5>1. new[i] + k - 1 = len + k
          BY <1>1, <4>1
        <5> QED
          BY <2>1, <2>7, <5>1
      <4>3. new[i + 1] - 1 = len + Len(line)
        BY <1>1, <4>1
      <4> QED
        BY <1>1, <2>1, <2>7, <4>1, <4>2, <4>3
    <3>2. CASE i # count'
      <4>1. i \in 1 .. count /\ i \in 1 .. count + 1 /\ i + 1 \in 1 .. count + 1
        BY <1>1, <2>1, <3>2
      <4>2. /\ new[i] = off[i] /\ new[i + 1] = off[i + 1] /\ stored'[i] = stored[i]
            /\ off[i] \in 1 .. len + 1 /\ off[i + 1] \in 1 .. len + 1
            /\ off[i + 1] = off[i] + Len(stored[i])
        BY <2>2, <2>3, <2>6, <2>8, <4>1
      <4>6. Len(stored[i]) \in Nat /\ Len(stored[i]) > 0
        BY <2>2, <4>1, EmptySeq
      <4>3. ASSUME NEW k \in 1 .. Len(stored[i]) - 1
            PROVE  text'[new[i] + k - 1] = stored[i][k]
        <5>1. off[i] + k - 1 \in 1 .. len
          <6>1. off[i] \in Nat /\ off[i] >= 1 /\ off[i + 1] \in Nat /\ off[i + 1] <= len + 1
            BY <1>1, <4>2
          <6>2. PICK a, b, m : a = off[i] /\ b = off[i + 1] /\ m = Len(stored[i])
            OBVIOUS
          <6>3. a \in Nat /\ a >= 1 /\ b \in Nat /\ b <= len + 1 /\ b = a + m /\ m \in Nat
            BY <4>2, <4>6, <6>1, <6>2
          <6>4. k \in 1 .. m - 1
            BY <6>2
          <6>5. k \in Int /\ 1 <= k /\ k <= m - 1
            BY <6>3, <6>4
          <6>6. len \in Nat
            BY <1>1
          <6>7. a + k - 1 \in 1 .. len
            BY <6>3, <6>5, <6>6, Inside
          <6> QED
            BY <6>2, <6>7
        <5>2. text'[off[i] + k - 1] = text[off[i] + k - 1]
          BY <2>1, <2>7, <5>1
        <5>3. text[off[i] + k - 1] = stored[i][k]
          BY <2>6, <4>1
        <5> QED
          BY <4>2, <5>2, <5>3
      <4>4. off[i + 1] - 1 \in 1 .. len
        <5>1. PICK a, b, m : a = off[i] /\ b = off[i + 1] /\ m = Len(stored[i])
          OBVIOUS
        <5>2. a \in Nat /\ a >= 1 /\ b \in Nat /\ b <= len + 1 /\ len \in Nat
          BY <1>1, <4>2, <5>1
        <5>3. b = a + m /\ m \in Nat /\ m > 0
          BY <4>2, <4>6, <5>1
        <5> QED
          BY <5>1, <5>2, <5>3, InsideEnd
      <4>5. text'[new[i + 1] - 1] = "0"
        <5>1. text'[off[i + 1] - 1] = text[off[i + 1] - 1]
          BY <2>1, <2>7, <4>4
        <5> QED
          BY <2>6, <4>1, <4>2, <5>1
      <4> QED
        BY <4>2, <4>3, <4>5
    <3> QED
      BY <3>1, <3>2
  <2>10. LayoutInv'
    BY <2>8, <2>9 DEF LayoutInv, Layout
  <2> QED
    BY <2>4, <2>10 DEF PackedInv
<1>3. CASE ~(len + Len(line) < BufSize)
  <2>1. UNCHANGED <<text, len, count, stored>>
    BY <1>3 DEF Store, respVars
  <2> QED
    BY <2>1 DEF PackedInv, StoredInv, LayoutInv, Layout
<1> QED
  BY <1>2, <1>3

LEMMA PackedNext ==
  ASSUME TypesHold, LineInv, PackedInv, [Next]_vars
  PROVE  PackedInv'
<1>1. ASSUME NEW n \in LineNums, Exec(n)
      PROVE  PackedInv'
  <2>1. count' = 0 /\ len' = 0 /\ stored' = <<>>
    BY <1>1 DEF Exec
  <2>2. StoredInv'
    BY <2>1 DEF StoredInv
  <2> DEFINE off == [i \in 1 .. 1 |-> 1]
  <2>3. /\ off \in [1 .. count' + 1 -> 1 .. len' + 1]
        /\ off[1] = 1 /\ off[count' + 1] = len' + 1
        /\ ~\E i : i \in 1 .. count'
    BY <2>1
  <2> HIDE DEF off
  <2>4. LayoutInv'
    BY <2>3 DEF LayoutInv, Layout
  <2> QED
    BY <2>2, <2>4 DEF PackedInv
<1>2. CASE Parse /\ ParseResponse
  <2>1. line # <<>> /\ Store(line)
    BY <1>2 DEF ParseResponse, LineInv
  <2> QED
    BY <2>1, StorePacks DEF TypesHold
<1>3. CASE UNCHANGED respVars
  BY <1>3 DEF PackedInv, StoredInv, LayoutInv, Layout, respVars
<1>4. (\E n \in LineNums : Exec(n)) \/ (Parse /\ ParseResponse) \/ UNCHANGED respVars
  <2>1. CASE Parse
    BY <2>1 DEF Parse, ParseUrc, ParseUnrecognized
  <2>2. CASE TimeOut \/ SetEndSign
    BY <2>2 DEF TimeOut, SetEndSign
  <2>3. CASE SetUrcTable \/ Send \/ Receive \/ UNCHANGED vars
    BY <2>3 DEF SetUrcTable, Send, Receive, vars
  <2> QED
    BY <2>1, <2>2, <2>3 DEF Next, Caller
<1> QED
  BY <1>1, <1>2, <1>3, <1>4

-----------------------------------------------------------------------------
(* at_resp_get_line *)

\* The offset behind line i, which at_resp_get_line finds with strlen: the first
\* zero from the line's offset on is the line's own.
LEMMA AfterFindsZero ==
  ASSUME TypeOK, StoredInv, NEW off, Layout(off), NEW i \in 1 .. count
  PROVE  After(off[i]) = off[i + 1]
<1> DEFINE a == off[i]
           b == off[i + 1]
           m == Len(stored[i])
           zeros == {j \in a .. BufSize : text[j] = "0"}
<1>1. /\ count \in Nat /\ BufSize \in Nat /\ len \in Nat /\ len + 1 <= BufSize
  BY Constants DEF TypeOK
<1>2. i \in 1 .. count + 1 /\ i + 1 \in 1 .. count + 1
  BY <1>1
<1>3. /\ a \in Nat /\ a >= 1 /\ b \in Nat /\ b <= len + 1 /\ b = a + m
      /\ \A k \in 1 .. m - 1 : text[a + k - 1] = stored[i][k]
      /\ text[b - 1] = "0"
  <2>1. off \in [1 .. count + 1 -> 1 .. len + 1]
    BY DEF Layout
  <2>2. /\ b = a + m /\ text[b - 1] = "0"
        /\ \A k \in 1 .. m - 1 : text[a + k - 1] = stored[i][k]
    BY DEF Layout
  <2>3. a \in 1 .. len + 1 /\ b \in 1 .. len + 1
    BY <1>2, <2>1
  <2> HIDE DEF a, b, m
  <2> QED
    BY <1>1, <2>2, <2>3
<1>4. m \in Nat /\ m > 0 /\ \A k \in 1 .. m : stored[i][k] \in Chars
  BY EmptySeq, LenProperties DEF StoredInv
<1> HIDE DEF a, b, m
<1>5. b - 1 \in zeros
  BY <1>1, <1>3, <1>4
<1>6. ASSUME NEW j \in zeros, j < b - 1
      PROVE  FALSE
  <2>1. (j - a + 1) \in 1 .. m - 1 /\ (j - a + 1) \in 1 .. m /\ a + (j - a + 1) - 1 = j
    BY <1>1, <1>3, <1>4, <1>6
  <2>2. text[j] = stored[i][j - a + 1] /\ stored[i][j - a + 1] \in Chars
    BY <1>3, <1>4, <2>1
  <2> QED
    BY <2>2, Constants
<1>7. \A j \in zeros : j \in Int /\ j >= b - 1
  BY <1>1, <1>3, <1>6
<1>8. Min(zeros) = b - 1
  <2>1. \A x \in zeros : (\A y \in zeros : x =< y) => x = b - 1
    BY <1>1, <1>3, <1>5, <1>7
  <2>2. \A y \in zeros : b - 1 =< y
    BY <1>1, <1>3, <1>7
  <2> QED
    BY <1>5, <2>1, <2>2 DEF Min
<1>9. After(a) = Min(zeros) + 1
  BY <1>5 DEF After
<1> QED
  BY <1>3, <1>8, <1>9 DEF a, b

\* Walking over the lines in front of line i ends at its offset.
LEMMA StartFindsOffset ==
  ASSUME TypeOK, StoredInv, NEW off, Layout(off), NEW i \in 1 .. count
  PROVE  Start(i) = off[i]
<1> DEFINE Walks(f) == f = [j \in 1 .. i |-> IF j = 1 THEN 1 ELSE After(f[j - 1])]
           own == [j \in 1 .. i |-> off[j]]
<1>1. count \in Nat /\ i \in Nat /\ i <= count
  BY DEF TypeOK
<1>2. off \in [1 .. count + 1 -> 1 .. len + 1] /\ off[1] = 1
  BY DEF Layout
<1>3. \A j \in 1 .. i : j # 1 => j - 1 \in 1 .. i /\ j - 1 \in 1 .. count /\ (j - 1) + 1 = j
  BY <1>1
<1>4. \A j \in 1 .. i : j # 1 => After(off[j - 1]) = off[j]
  BY <1>3, AfterFindsZero
<1>5. Walks(own)
  <2>1. \A j \in 1 .. i : own[j] = IF j = 1 THEN 1 ELSE After(own[j - 1])
    BY <1>2, <1>3, <1>4
  <2> QED
    BY <2>1
<1>6. ASSUME NEW f, Walks(f)
      PROVE  f[i] = off[i]
  <2> DEFINE wrong == {j \in 1 .. i : f[j] # off[j]}
  <2>1. \A j \in 1 .. i : f[j] = IF j = 1 THEN 1 ELSE After(f[j - 1])
    BY <1>6
  <2>2. SUFFICES ASSUME wrong # {} PROVE FALSE
    BY <1>1
  <2>3. PICK j \in wrong : \A k \in wrong : ~(<<k, j>> \in OpToRel(<, Nat))
    <3>1. wrong \subseteq Nat
      BY <1>1
    <3> HIDE DEF wrong
    <3> QED
      BY <2>2, <3>1, NatLessThanWellFounded, WFMin
  <2>4. ASSUME NEW k \in wrong, k < j
        PROVE  FALSE
    <3>1. <<k, j>> \in Nat \X Nat
      BY <1>1
    <3>2. <<k, j>> \in OpToRel(<, Nat)
      BY <2>4, <3>1 DEF OpToRel
    <3> HIDE DEF wrong
    <3> QED
      BY <2>3, <3>2
  <2>5. j # 1
    BY <1>2, <2>1
  <2>6. j - 1 \in 1 .. i /\ j - 1 \notin wrong
    BY <1>1, <1>3, <2>4, <2>5
  <2> QED
    BY <1>4, <2>1, <2>5, <2>6
<1>7. Start(i) = (CHOOSE f : Walks(f))[i]
  BY DEF Start
<1> HIDE DEF Walks, own
<1> QED
  BY <1>5, <1>6, <1>7

LEMMA GetLineGets ==
  ASSUME TypeOK, PackedInv, NEW i \in 1 .. count
  PROVE  GetLine(i) = SubSeq(stored[i], 1, Len(stored[i]) - 1)
<1> DEFINE m == Len(stored[i])
<1>1. PICK off : Layout(off)
  BY DEF PackedInv, LayoutInv
<1>2. count \in Nat /\ BufSize \in Nat /\ len \in Nat /\ i + 1 \in 1 .. count + 1
      /\ i \in 1 .. count + 1 /\ off \in [1 .. count + 1 -> 1 .. len + 1]
  BY <1>1, Constants DEF TypeOK, Layout
<1>3. Start(i) = off[i] /\ After(off[i]) = off[i + 1]
  BY <1>1, AfterFindsZero, StartFindsOffset DEF PackedInv
<1>4. PICK a \in Nat : a = off[i] /\ a >= 1
  BY <1>2
<1>5. /\ off[i + 1] = a + m /\ m \in Nat /\ m > 0
      /\ \A k \in 1 .. m - 1 : text[a + k - 1] = stored[i][k]
      /\ \A k \in 1 .. m : stored[i][k] \in Chars
  BY <1>1, <1>4, EmptySeq, LenProperties DEF Layout, PackedInv, StoredInv
<1>6. GetLine(i) = SubSeq(text, a, (a + m) - 2)
  BY <1>3, <1>4, <1>5 DEF GetLine, StringAt
<1> HIDE DEF m
<1> DEFINE s == SubSeq(text, a, (a + m) - 2)
           t == SubSeq(stored[i], 1, m - 1)
<1>7. /\ t \in Seq(Chars) /\ Len(t) = m - 1
      /\ \A k \in 1 .. m - 1 : t[k] = stored[i][k]
  <2>1. \A k \in 1 .. m - 1 : stored[i][k] \in Chars
    BY <1>5
  <2>2. 1 \in Int /\ m - 1 \in Int
    BY <1>5
  <2>3. /\ t \in Seq(Chars) /\ Len(t) = IF 1 <= m - 1 THEN (m - 1) - 1 + 1 ELSE 0
        /\ \A k \in 1 .. (m - 1) - 1 + 1 : t[k] = stored[i][1 + k - 1]
    BY <2>1, <2>2, SubSeqProperties
  <2> HIDE DEF t
  <2> QED
    BY <1>5, <2>3
<1>8. /\ s \in Seq(Chars) /\ Len(s) = m - 1
      /\ \A k \in 1 .. m - 1 : s[k] = stored[i][k]
  <2>1. ASSUME NEW q \in a .. (a + m) - 2
        PROVE  text[q] \in Chars
    <3>1. (q - a + 1) \in 1 .. m - 1 /\ a + (q - a + 1) - 1 = q /\ (q - a + 1) \in 1 .. m
      BY <1>5
    <3> QED
      BY <1>5, <3>1
  <2>2. a \in Int /\ (a + m) - 2 \in Int
    BY <1>5
  <2>3. /\ s \in Seq(Chars)
        /\ Len(s) = IF a <= (a + m) - 2 THEN ((a + m) - 2) - a + 1 ELSE 0
        /\ \A k \in 1 .. ((a + m) - 2) - a + 1 : s[k] = text[a + k - 1]
    BY <2>1, <2>2, SubSeqProperties
  <2> HIDE DEF s
  <2> QED
    BY <1>5, <2>3
<1> HIDE DEF s, t
<1>9. s = t
  BY <1>7, <1>8, SeqEqual
<1> QED
  BY <1>6, <1>9 DEF s, t, m

\* at_resp_get_line(i) is the i-th line stored since the command was sent, for
\* every number of lines and every text an earlier response has left behind.
THEOREM LinesAreFound == Spec => []GetLineFindsLine
<1>1. Init => TypesHold /\ LineInv /\ PackedInv
  BY TypesInit, LineInit, PackedInit
<1>2. (TypesHold /\ LineInv /\ PackedInv) /\ [Next]_vars
        => (TypesHold /\ LineInv /\ PackedInv)'
  BY TypesNext, LineNext, PackedNext
<1>3. TypesHold /\ LineInv /\ PackedInv => GetLineFindsLine
  BY GetLineGets DEF TypesHold, PackedInv, StoredInv, GetLineFindsLine
<1> QED
  BY <1>1, <1>2, <1>3, PTL DEF Spec

LEMMA KeywordFinds == TypeOK /\ PackedInv => KeywordFindsFirst
<1> SUFFICES ASSUME TypeOK, PackedInv PROVE KeywordFindsFirst
  OBVIOUS
<1> DEFINE hits == {i \in 1 .. count : Contains(GetLine(i), Keyword)}
           found == {i \in DOMAIN stored :
                       Contains(SubSeq(stored[i], 1, Len(stored[i]) - 1), Keyword)}
<1>1. DOMAIN stored = 1 .. count
  BY LenProperties DEF TypeOK, PackedInv, StoredInv
<1>2. hits = found
  BY <1>1, GetLineGets
<1>3. GetLineByKw(Keyword) = IF hits = {} THEN <<"null">> ELSE GetLine(Min(hits))
  BY DEF GetLineByKw
<1>4. KeywordFindsFirst <=>
        GetLineByKw(Keyword) = IF found = {} THEN <<"null">> ELSE GetLine(Min(found))
  BY DEF KeywordFindsFirst
<1> HIDE DEF hits, found
<1> QED
  BY <1>2, <1>3, <1>4

\* at_resp_get_line_by_kw finds the first line of the response that has the
\* keyword, and none when no line has it.
THEOREM KeywordsAreFound == Spec => []KeywordFindsFirst
<1>1. Init => TypesHold /\ LineInv /\ PackedInv
  BY TypesInit, LineInit, PackedInit
<1>2. (TypesHold /\ LineInv /\ PackedInv) /\ [Next]_vars
        => (TypesHold /\ LineInv /\ PackedInv)'
  BY TypesNext, LineNext, PackedNext
<1>3. TypesHold /\ LineInv /\ PackedInv => KeywordFindsFirst
  BY KeywordFinds DEF TypesHold
<1> QED
  BY <1>1, <1>2, <1>3, PTL DEF Spec
=============================================================================
