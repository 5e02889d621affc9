---------------------------- MODULE ContentLength ----------------------------
(***************************************************************************)
(* mc665_read_content_length (components/mc665/mc665_http.c): the search   *)
(* for the Content-Length line of a page that can only be read in windows  *)
(* of max_length bytes.  Each window starts where the last line read ended *)
(* or, inside a line longer than a window, where the last window ended.    *)
(*                                                                         *)
(* A page is a sequence of characters: "n" is a line feed, "H" at the      *)
(* start of a line is a Content-Length header, "x" is any other character. *)
(* Instead of the number behind the header, which sscanf reads, the result *)
(* names the header: the offset at which its line starts.                  *)
(***************************************************************************)
EXTENDS Integers, Sequences

CONSTANTS
  Pages,      \* the pages the modem may hold
  maxLength,  \* the size of a window: max_length
  SearchEnd   \* no window starts at or behind this offset (2048 in the code)

ASSUME WindowOK ==
  /\ maxLength \in Nat \ {0} /\ SearchEnd \in Nat
  /\ Pages \subseteq Seq({"x", "H", "n"})

VARIABLES
  page,        \* what the server answered, as the modem holds it
  readOffset,  \* read_offset
  skipping,    \* line_offset = -1; it is 0 otherwise when a window is read
  ret,         \* the value returned
  done

vars == <<page, readOffset, skipping, ret, done>>

NotFound == -1

Init ==
  /\ page \in Pages
  /\ readOffset = 0 /\ skipping = FALSE
  /\ ret = NotFound /\ done = FALSE

-----------------------------------------------------------------------------
(* The window *)

CanRead == readOffset < SearchEnd /\ readOffset + maxLength <= Len(page)
Data == SubSeq(page, readOffset + 1, readOffset + maxLength)

\* private_mc665_http_parse_line: the line at the start of the window ends at
\* place i of it, or not in this window.
LineEnd(i) == Data[i] = "n" /\ \A j \in 1 .. i - 1 : Data[j] # "n"
Unended == \A i \in 1 .. maxLength : Data[i] # "n"

\* Mutant: the line feed itself is read again.
BehindLineAtEnd(i) == readOffset + i - 1

\* The offset behind a line feed at place i.
BehindLine(i) == readOffset + i

-----------------------------------------------------------------------------
(* The loop *)

\* A page that ends, a read that times out and a lack of memory look alike.
GiveUp ==
  /\ ~done
  /\ done' = TRUE
  /\ UNCHANGED <<page, readOffset, skipping, ret>>

\* The line does not end in this window: it is too long for line_buf, and the
\* windows up to its end are skipped.
LongLine ==
  /\ ~done /\ CanRead /\ Unended
  /\ readOffset' = readOffset + maxLength
  /\ skipping' = TRUE
  /\ UNCHANGED <<page, ret, done>>

\* Mutant: the line behind a long one is skipped as well.
LongLineEndsLate(i) ==
  /\ ~done /\ CanRead /\ LineEnd(i) /\ skipping
  /\ readOffset' = BehindLine(i)
  /\ skipping' = (i = maxLength)
  /\ UNCHANGED <<page, ret, done>>

LongLineEnds(i) ==
  /\ ~done /\ CanRead /\ LineEnd(i) /\ skipping
  /\ readOffset' = BehindLine(i)
  /\ skipping' = FALSE
  /\ UNCHANGED <<page, ret, done>>

\* Mutant: the end of a long line is taken for a line.
WholeLineAlways(i) ==
  /\ ~done /\ CanRead /\ LineEnd(i)
  /\ readOffset' = BehindLine(i)
  /\ IF Data[1] = "H" THEN ret' = readOffset /\ done' = TRUE
                      ELSE UNCHANGED <<ret, done>>
  /\ skipping' = FALSE
  /\ UNCHANGED page

\* A whole line is in line_buf: the search ends if it is the header.  An empty
\* line (Data[1] is its line feed) is no header and does not end the search.
WholeLine(i) ==
  /\ ~done /\ CanRead /\ LineEnd(i) /\ ~skipping
  /\ readOffset' = BehindLine(i)
  /\ IF Data[1] = "H" THEN ret' = readOffset /\ done' = TRUE
                      ELSE UNCHANGED <<ret, done>>
  /\ UNCHANGED <<page, skipping>>

Iterate ==
  LongLine \/ \E i \in 1 .. maxLength : LongLineEnds(i) \/ WholeLine(i)

Next == Iterate \/ GiveUp

Spec == Init /\ [][Next]_vars

-----------------------------------------------------------------------------
(* The reference: lines by their start, without windows *)

IsStart(o) == o = 0 \/ (o \in 1 .. Len(page) /\ page[o] = "n")

\* The header lines that fit line_buf and lie in the part of the page that is
\* searched.
Headers ==
  {o \in 0 .. Len(page) - maxLength :
     /\ IsStart(o) /\ o < SearchEnd /\ page[o + 1] = "H"
     /\ \E i \in o + 2 .. o + maxLength : page[i] = "n"}

-----------------------------------------------------------------------------
(* Properties *)

\* The offset stays on the page, and a value is returned at the end only.
TypeOK ==
  /\ page \in Seq({"x", "H", "n"})
  /\ readOffset \in 0 .. Len(page)
  /\ skipping \in BOOLEAN /\ done \in BOOLEAN
  /\ ret \in Nat \cup {NotFound} /\ (ret # NotFound => done)

\* A window starts at the start of a line exactly if the line is not one that is
\* being skipped, however the lines and the windows fall on each other.
WindowAtLineStart == skipping <=> ~IsStart(readOffset)

\* What is returned is the value of a header of the page, and of the first one.
ReturnsFirstHeader ==
  ret # NotFound => ret \in Headers /\ \A o \in Headers : ret <= o

\* No header is passed over: a header of the searched part that has not been
\* returned is still ahead, so only a failing read leaves it unfound.
NoHeaderMissed ==
  ret = NotFound => \A o \in Headers : readOffset <= o

\* Every window starts behind the one before: the loop cannot read the same
\* window for ever, not even at an empty line.
Advances == [][Iterate => readOffset' > readOffset]_vars

=============================================================================
