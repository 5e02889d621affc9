------------------------- MODULE ContentLengthProofs -------------------------
(***************************************************************************)
(* The search of ContentLength is right for every page and every size of   *)
(* the window.  The invariant needs nothing but itself: where a window     *)
(* starts says whether its line is whole (WindowAtLineStart), and with     *)
(* that the three kinds of iteration pass over no header (NoHeaderMissed). *)
(***************************************************************************)
EXTENDS ContentLength, TLAPS

\* The inductive invariant: the properties that the run checks, together.
Inv == TypeOK /\ WindowAtLineStart /\ ReturnsFirstHeader /\ NoHeaderMissed

LEMMA InitInv == Init => Inv
<1> SUFFICES ASSUME Init PROVE Inv
  OBVIOUS
<1>1. page \in Seq({"x", "H", "n"}) /\ Len(page) \in Nat
  BY WindowOK DEF Init
<1>2. TypeOK
  <2>1. page \in Seq({"x", "H", "n"}) /\ readOffset \in 0 .. Len(page)
    BY <1>1 DEF Init
  <2>2. skipping \in BOOLEAN /\ done \in BOOLEAN
    BY Zenon DEF Init
  <2>3. ret \in Nat \cup {NotFound} /\ ret = NotFound
    BY Zenon DEF Init
  <2> QED BY <2>1, <2>2, <2>3, Zenon DEF TypeOK
<1>3. WindowAtLineStart
  BY DEF Init, WindowAtLineStart, IsStart
<1>4. ReturnsFirstHeader /\ NoHeaderMissed
  BY <1>1, WindowOK DEF Init, ReturnsFirstHeader, NoHeaderMissed, Headers
<1> QED BY <1>2, <1>3, <1>4 DEF Inv

\* The characters of the window are those of the page.
LEMMA DataIsPage ==
  ASSUME TypeOK, CanRead, NEW i \in 1 .. maxLength
  PROVE  /\ readOffset \in Nat /\ Len(page) \in Nat
         /\ readOffset + i \in 1 .. Len(page)
         /\ Data[i] = page[readOffset + i]
<1>1. page \in Seq({"x", "H", "n"}) /\ readOffset \in Nat /\ Len(page) \in Nat
  BY DEF TypeOK
<1>2. maxLength \in Nat \ {0} /\ readOffset + maxLength <= Len(page)
  BY WindowOK DEF CanRead
<1>3. Data[i] = page[readOffset + i]
  BY <1>1, <1>2 DEF Data
<1> QED BY <1>1, <1>2, <1>3

\* No line starts inside a line, and none but the first at the start of a page.
LEMMA InnerOffsets ==
  ASSUME TypeOK, NEW r \in Nat, NEW k \in Nat,
         \A j \in 1 .. k : page[r + j] # "n",
         NEW o \in r + 1 .. r + k
  PROVE  ~IsStart(o)
<1>1. o - r \in 1 .. k /\ r + (o - r) = o /\ o # 0
  OBVIOUS
<1>2. page[o] # "n"
  BY <1>1
<1> QED BY <1>1, <1>2 DEF IsStart

\* A window without a line feed is passed over.
LEMMA LongLinePasses ==
  ASSUME Inv, LongLine
  PROVE  Inv'
<1> DEFINE r == readOffset
<1>1. TypeOK /\ CanRead /\ maxLength \in Nat \ {0} /\ SearchEnd \in Nat
  BY WindowOK DEF Inv, LongLine
<1>2. r \in Nat /\ Len(page) \in Nat /\ r + maxLength <= Len(page)
  BY <1>1 DEF TypeOK, CanRead
<1>3. \A j \in 1 .. maxLength : page[r + j] # "n"
  BY <1>1, DataIsPage DEF LongLine, Unended
<1>4. TypeOK'
  BY <1>1, <1>2 DEF TypeOK, LongLine
<1>5. WindowAtLineStart'
  <2>1. ~IsStart(r + maxLength)
    BY <1>1, <1>2, <1>3 DEF IsStart
  <2> QED BY <2>1 DEF WindowAtLineStart, IsStart, LongLine
<1>6. Headers' = Headers
  BY DEF Headers, IsStart, LongLine
<1>7. ReturnsFirstHeader'
  BY <1>6 DEF Inv, ReturnsFirstHeader, LongLine
<1>8. NoHeaderMissed'
  <2> SUFFICES ASSUME ret = NotFound, NEW o \in Headers
               PROVE  r + maxLength <= o
    BY <1>6 DEF NoHeaderMissed, LongLine
  <2>1. o \in Nat /\ r <= o /\ IsStart(o)
    BY <1>1, <1>2 DEF Inv, NoHeaderMissed, Headers
  <2>2. o # r
    <3>1. ASSUME o = r PROVE FALSE
      <4>1. PICK i \in o + 2 .. o + maxLength : page[i] = "n"
        BY DEF Headers
      <4>2. i - r \in 1 .. maxLength /\ r + (i - r) = i
        BY <3>1, <1>1, <1>2
      <4> QED BY <4>1, <4>2, <1>3
    <3> QED BY <3>1
  <2>3. ~(o \in r + 1 .. r + maxLength)
    BY <1>1, <1>2, <1>3, <2>1, InnerOffsets
  <2> QED BY <1>1, <1>2, <2>1, <2>2, <2>3
<1> QED BY <1>4, <1>5, <1>7, <1>8 DEF Inv

\* What is known of a window whose line ends at place i.
LEMMA LineEndFacts ==
  ASSUME TypeOK, CanRead, NEW i \in 1 .. maxLength, LineEnd(i)
  PROVE  /\ page[readOffset + i] = "n"
         /\ \A o \in readOffset + 1 .. readOffset + i - 1 : ~IsStart(o)
         /\ IsStart(readOffset + i)
<1>1. readOffset \in Nat /\ readOffset + i \in 1 .. Len(page)
      /\ maxLength \in Nat \ {0}
  BY DataIsPage, WindowOK
<1>2. page[readOffset + i] = "n"
  BY DataIsPage DEF LineEnd
<1>3. \A j \in 1 .. i - 1 : page[readOffset + j] # "n"
  <2> TAKE j \in 1 .. i - 1
  <2>1. j \in 1 .. maxLength /\ Data[j] # "n"
    BY <1>1 DEF LineEnd
  <2> QED BY <2>1, DataIsPage
<1>4. \A o \in readOffset + 1 .. readOffset + i - 1 : ~IsStart(o)
  <2> SUFFICES ASSUME NEW o \in readOffset + 1 .. readOffset + i - 1
               PROVE  ~IsStart(o)
    OBVIOUS
  <2>1. i - 1 \in Nat /\ o \in readOffset + 1 .. readOffset + (i - 1)
    BY <1>1
  <2> QED BY <1>1, <1>3, <2>1, InnerOffsets
<1> QED BY <1>1, <1>2, <1>4 DEF IsStart

\* A header that is not at the start of the window lies behind its line.
LEMMA NextHeaders ==
  ASSUME Inv, CanRead, NEW i \in 1 .. maxLength, LineEnd(i), ret = NotFound,
         NEW o \in Headers, o # readOffset
  PROVE  readOffset + i <= o
<1>1. TypeOK /\ readOffset \in Nat /\ Len(page) \in Nat /\ maxLength \in Nat \ {0}
  BY WindowOK DEF Inv, TypeOK
<1>2. o \in Nat /\ readOffset <= o /\ IsStart(o)
  BY <1>1 DEF Inv, NoHeaderMissed, Headers
<1>3. ~(o \in readOffset + 1 .. readOffset + i - 1)
  BY <1>1, <1>2, LineEndFacts
<1> QED BY <1>1, <1>2, <1>3

LEMMA LongLineEndsPasses ==
  ASSUME Inv, NEW i \in 1 .. maxLength, LongLineEnds(i)
  PROVE  Inv'
<1>1. TypeOK /\ CanRead /\ LineEnd(i) /\ maxLength \in Nat \ {0}
  BY WindowOK DEF Inv, LongLineEnds
<1>2. readOffset \in Nat /\ Len(page) \in Nat
      /\ readOffset + i \in 1 .. Len(page)
  BY <1>1, DataIsPage
<1>3. TypeOK'
  <2>1. readOffset' \in 0 .. Len(page)
    BY <1>2 DEF LongLineEnds, BehindLine
  <2>2. skipping' \in BOOLEAN
    BY Zenon DEF LongLineEnds
  <2> QED BY <1>1, <2>1, <2>2, Zenon DEF TypeOK, LongLineEnds
<1>4. IsStart(readOffset + i)
  BY <1>1, LineEndFacts
<1>5. WindowAtLineStart'
  BY <1>4 DEF WindowAtLineStart, IsStart, LongLineEnds, BehindLine
<1>6. Headers' = Headers
  BY DEF Headers, IsStart, LongLineEnds
<1>7. ReturnsFirstHeader'
  BY <1>6 DEF Inv, ReturnsFirstHeader, LongLineEnds
<1>8. readOffset \notin Headers
  BY DEF Inv, WindowAtLineStart, LongLineEnds, Headers
<1>9. NoHeaderMissed'
  BY <1>1, <1>6, <1>8, NextHeaders
  DEF NoHeaderMissed, LongLineEnds, BehindLine
<1> QED BY <1>3, <1>5, <1>7, <1>9 DEF Inv

LEMMA WholeLinePasses ==
  ASSUME Inv, NEW i \in 1 .. maxLength, WholeLine(i)
  PROVE  Inv'
<1>1. TypeOK /\ CanRead /\ LineEnd(i) /\ maxLength \in Nat \ {0}
      /\ SearchEnd \in Nat
  BY WindowOK DEF Inv, WholeLine
<1>2. readOffset \in Nat /\ Len(page) \in Nat
      /\ readOffset + i \in 1 .. Len(page)
  BY <1>1, DataIsPage
<1>3. ret = NotFound
  BY DEF Inv, TypeOK, WholeLine
<1>4. 1 \in 1 .. maxLength
  BY <1>1
<1>5. Data[1] = page[readOffset + 1] /\ readOffset + 1 \in 1 .. Len(page)
  BY <1>1, <1>4, DataIsPage
<1>6. Headers' = Headers
  BY DEF Headers, IsStart, WholeLine
<1>7. WindowAtLineStart'
  <2>1. IsStart(readOffset + i)
    BY <1>1, LineEndFacts
  <2> QED BY <2>1 DEF WindowAtLineStart, IsStart, WholeLine, BehindLine
<1>8. CASE Data[1] = "H"
  <2>1. ret' = readOffset /\ done'
    BY <1>8 DEF WholeLine
  <2>2. TypeOK'
    BY <1>1, <1>2, <2>1 DEF TypeOK, WholeLine, BehindLine
  <2>3. readOffset \in Headers
    <3>1. readOffset \in 0 .. Len(page) - maxLength /\ readOffset < SearchEnd
      BY <1>1, <1>2 DEF CanRead
    <3>2. IsStart(readOffset)
      BY DEF Inv, WindowAtLineStart, WholeLine
    <3>3. page[readOffset + i] = "n"
      BY <1>1, LineEndFacts
    <3>4. i # 1
      BY <1>5, <1>8, <3>3
    <3>5. readOffset + i \in readOffset + 2 .. readOffset + maxLength
      BY <1>1, <1>2, <3>4
    <3> QED BY <1>5, <1>8, <3>1, <3>2, <3>3, <3>5 DEF Headers
  <2>4. \A o \in Headers : readOffset <= o
    BY <1>3 DEF Inv, NoHeaderMissed
  <2>5. ReturnsFirstHeader' /\ NoHeaderMissed'
    BY <1>2, <1>6, <2>1, <2>3, <2>4
    DEF ReturnsFirstHeader, NoHeaderMissed, NotFound
  <2> QED BY <1>7, <2>2, <2>5 DEF Inv
<1>9. CASE Data[1] # "H"
  <2>1. TypeOK'
    BY <1>1, <1>2, <1>9 DEF TypeOK, WholeLine, BehindLine
  <2>2. readOffset \notin Headers
    BY <1>5, <1>9 DEF Headers
  <2>3. NoHeaderMissed'
    BY <1>1, <1>3, <1>6, <1>9, <2>2, NextHeaders
    DEF NoHeaderMissed, WholeLine, BehindLine
  <2>4. ReturnsFirstHeader'
    BY <1>6, <1>9 DEF Inv, ReturnsFirstHeader, WholeLine
  <2> QED BY <1>7, <2>1, <2>3, <2>4 DEF Inv
<1> QED BY <1>8, <1>9

LEMMA NextInv == Inv /\ [Next]_vars => Inv'
<1> SUFFICES ASSUME Inv, [Next]_vars PROVE Inv'
  OBVIOUS
<1>1. CASE LongLine
  BY <1>1, LongLinePasses
<1>2. ASSUME NEW i \in 1 .. maxLength, LongLineEnds(i) PROVE Inv'
  BY <1>2, LongLineEndsPasses
<1>3. ASSUME NEW i \in 1 .. maxLength, WholeLine(i) PROVE Inv'
  BY <1>3, WholeLinePasses
<1>4. CASE GiveUp
  BY <1>4 DEF GiveUp, Inv, TypeOK, WindowAtLineStart, ReturnsFirstHeader,
              NoHeaderMissed, Headers, IsStart
<1>5. CASE UNCHANGED vars
  BY <1>5 DEF vars, Inv, TypeOK, WindowAtLineStart, ReturnsFirstHeader,
              NoHeaderMissed, Headers, IsStart
<1> QED BY <1>1, <1>2, <1>3, <1>4, <1>5 DEF Next, Iterate

LEMMA AlwaysInv == Spec => []Inv
BY InitInv, NextInv, PTL DEF Spec

\* mc665_read_content_length returns the value of the first header line of the
\* searched part of the page, if it returns one, for every page and window.
THEOREM ReturnsFirst == Spec => []ReturnsFirstHeader
<1>1. Inv => ReturnsFirstHeader
  BY DEF Inv
<1> QED BY <1>1, AlwaysInv, PTL

\* It passes over no header line, so only a failing read makes it miss one.
THEOREM MissesNone == Spec => []NoHeaderMissed
<1>1. Inv => NoHeaderMissed
  BY DEF Inv
<1> QED BY <1>1, AlwaysInv, PTL

\* A window starts at a line start exactly if no long line is being skipped.
THEOREM WindowsFallOnLines == Spec => []WindowAtLineStart
<1>1. Inv => WindowAtLineStart
  BY DEF Inv
<1> QED BY <1>1, AlwaysInv, PTL

\* No iteration reads the window of the one before: the offset grows by a whole
\* window or to behind the line feed, whatever the page.
THEOREM AlwaysAdvances == Spec => Advances
<1>1. TypeOK => [Iterate => readOffset' > readOffset]_vars
  <2> SUFFICES ASSUME TypeOK, Iterate PROVE readOffset' > readOffset
    OBVIOUS
  <2>1. readOffset \in Nat /\ maxLength \in Nat \ {0}
    BY WindowOK DEF TypeOK
  <2>2. CASE LongLine
    BY <2>1, <2>2 DEF LongLine
  <2>3. ASSUME NEW i \in 1 .. maxLength, LongLineEnds(i) \/ WholeLine(i)
        PROVE  readOffset' > readOffset
    BY <2>1, <2>3 DEF LongLineEnds, WholeLine, BehindLine
  <2> QED BY <2>2, <2>3 DEF Iterate
<1>2. Inv => TypeOK
  BY DEF Inv
<1> QED BY <1>1, <1>2, AlwaysInv, PTL DEF Spec, Advances

=============================================================================
