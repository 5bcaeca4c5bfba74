-------------------------- MODULE RTSPRequestProofs --------------------------
(***************************************************************************)
(* Proofs about the incremental parser, for every request without a line   *)
(* terminator in its lines and every way TCP may cut it.                   *)
(***************************************************************************)
EXTENDS RTSPRequest, SequenceTheorems, FiniteSetTheorems, Induction
-----------------------------------------------------------------------------
(***************************************************************************)
(* The inductive invariant.                                                *)
(***************************************************************************)

IsRequest(r) ==
    r \in [cursor : {r.cursor}, line : {r.line}, headers : {r.headers}, body : {r.body}]

Buffers ==
    /\ message_buffer \in Seq(Symbols)
    /\ wire \in Seq(Symbols)
    /\ IsRequest(request)

\* A line terminator that an earlier call has met is still in the buffer.
CutBehindTerminator ==
    cutHead => \E i \in DOMAIN message_buffer : message_buffer[i] \in {"CR", "LF"}

ParserInv == TypeOK /\ Buffers /\ CutBehindTerminator /\ ChunksLeaveNoTrace
-----------------------------------------------------------------------------
Messages == Seq(Symbols)

(***************************************************************************)
(* The loop over the lines.                                                *)
(***************************************************************************)

\* The offsets of line terminators from k on, and what the loop finds from k
\* on when g says what it finds from later offsets on.
EndsFrom(m, k) == {p \in k..(Len(m) - 1) : TerminatorSize(m, p) > 0}

Behind(m, k) == Min(EndsFrom(m, k)) + TerminatorSize(m, Min(EndsFrom(m, k)))

Found(m, g, k) ==
    CASE EndsFrom(m, k) = {} -> [parts |-> <<>>, cursor |-> k, header_end |-> 0]
      [] k \in EndsFrom(m, k) -> [parts |-> <<>>, cursor |-> k, header_end |-> Behind(m, k)]
      [] OTHER -> [g[Behind(m, k)] EXCEPT
                     !.parts = <<SubSeq(m, k + 1, Min(EndsFrom(m, k)))>> \o @]

LEMMA LengthOfMessage ==
    ASSUME NEW m \in Messages
    PROVE  Len(m) \in Nat
  BY DEF Messages

LEMMA TerminatorInside ==
    ASSUME NEW m \in Messages, NEW p \in 0..(Len(m) - 1)
    PROVE  /\ TerminatorSize(m, p) \in 0..2
           /\ p + TerminatorSize(m, p) <= Len(m)
           /\ TerminatorSize(m, p) > 0 <=> m[p + 1] \in {"CR", "LF"}
  BY LengthOfMessage DEF TerminatorSize

\* The first line terminator from k on.
LEMMA FirstEnd ==
    ASSUME NEW m \in Messages, NEW k \in 0..Len(m), EndsFrom(m, k) # {}
    PROVE  LET first == Min(EndsFrom(m, k))
           IN  /\ first \in EndsFrom(m, k)
               /\ \A p \in EndsFrom(m, k) : first <= p
               /\ first \in k..(Len(m) - 1)
               /\ Behind(m, k) \in (k + 1)..Len(m)
<1> DEFINE ends == EndsFrom(m, k)
<1>1. ends \subseteq Nat /\ ends # {}
  BY LengthOfMessage DEF EndsFrom
<1>2. \E least \in ends : \A p \in ends : least <= p
  <2> HIDE DEF ends
  <2>1. QED  BY <1>1, LeastNumber
<1>3. PICK first : first = Min(ends)
  OBVIOUS
<1>4. first \in ends /\ \A p \in ends : first <= p
  <2> HIDE DEF ends
  <2>1. QED  BY <1>2, <1>3 DEF Min
<1>5. /\ first \in k..(Len(m) - 1) /\ first \in 0..(Len(m) - 1)
      /\ TerminatorSize(m, first) > 0
  BY <1>4, LengthOfMessage DEF EndsFrom
<1>6. /\ TerminatorSize(m, first) \in 0..2
      /\ first + TerminatorSize(m, first) <= Len(m)
  BY <1>5, TerminatorInside
<1>7. first + TerminatorSize(m, first) \in (k + 1)..Len(m)
  BY <1>5, <1>6, LengthOfMessage
<1>8. QED  BY <1>3, <1>4, <1>5, <1>7 DEF Behind

\* What the loop finds from k on depends on later offsets only.
LEMMA FoundBehind ==
    ASSUME NEW m \in Messages, NEW k \in 0..Len(m), NEW g, NEW h,
           \A l \in (k + 1)..Len(m) : g[l] = h[l]
    PROVE  Found(m, g, k) = Found(m, h, k)
  BY FirstEnd DEF Found

\* The recursion of Scan defines its function.
LEMMA ScanDefined ==
    ASSUME NEW m \in Messages
    PROVE  \E scan : /\ DOMAIN scan = 0..Len(m)
                     /\ \A k \in 0..Len(m) : scan[k] = Found(m, scan, k)
                     /\ \A c \in 0..Len(m) : Scan(m, c) = scan[c]
<1> DEFINE Defines(g) == g = [k \in 0..Len(m) |-> Found(m, g, k)]
           Upto(g, n) == /\ g = [k \in 0..Len(m) |-> g[k]]
                         /\ \A k \in 0..Len(m) : k >= Len(m) - n => g[k] = Found(m, g, k)
           Reached == {n \in Nat : n <= Len(m) => \E g : Upto(g, n)}
<1>1. 0 \in Reached
  <2>1. PICK g : g = [k \in 0..Len(m) |-> Found(m, <<>>, k)]
    OBVIOUS
  <2>2. \A k \in 0..Len(m) : k >= Len(m) - 0 => g[k] = Found(m, g, k)
    <3> SUFFICES ASSUME NEW k \in 0..Len(m), k >= Len(m) - 0
                 PROVE  g[k] = Found(m, g, k)
      OBVIOUS
    <3>1. k = Len(m) /\ (k + 1)..Len(m) = {}
      BY LengthOfMessage
    <3>2. Found(m, <<>>, k) = Found(m, g, k)
      BY <3>1, FoundBehind
    <3>3. QED  BY <2>1, <3>2
  <2>3. QED  BY <2>1, <2>2
<1>2. ASSUME NEW n \in Nat, n \in Reached
      PROVE  n + 1 \in Reached
  <2> SUFFICES ASSUME n + 1 <= Len(m)
               PROVE  \E g : Upto(g, n + 1)
    OBVIOUS
  <2>1. PICK g : Upto(g, n)
    BY <1>2, LengthOfMessage
  <2>2. PICK l \in 0..Len(m) : l = Len(m) - n - 1
    <3>1. Len(m) - n - 1 \in 0..Len(m)
      BY LengthOfMessage
    <3>2. QED  BY <3>1
  <2>3. PICK h : h = [k \in 0..Len(m) |-> IF k = l THEN Found(m, g, k) ELSE g[k]]
    OBVIOUS
  <2>4. ASSUME NEW k \in 0..Len(m), k >= Len(m) - (n + 1)
        PROVE  h[k] = Found(m, h, k)
    <3>1. k >= l
      BY <2>2, <2>4, LengthOfMessage
    <3>2. \A j \in (k + 1)..Len(m) : g[j] = h[j]
      BY <2>2, <2>3, <3>1, LengthOfMessage
    <3>3. Found(m, g, k) = Found(m, h, k)
      BY <3>2, FoundBehind
    <3>4. CASE k = l
      BY <2>3, <3>3, <3>4
    <3>5. CASE k # l
      <4>1. k >= Len(m) - n
        BY <2>2, <3>1, <3>5, LengthOfMessage
      <4>2. QED  BY <2>1, <2>3, <3>3, <3>5, <4>1
    <3>6. QED  BY <3>4, <3>5
  <2>5. QED  BY <2>3, <2>4
<1>3. PICK g : Defines(g)
  <2>1. Nat \subseteq Reached
    <3> HIDE DEF Reached
    <3>1. QED  BY <1>1, <1>2, AllNumbers
  <2>2. PICK g : Upto(g, Len(m))
    BY <2>1, LengthOfMessage
  <2>3. \A k \in 0..Len(m) : g[k] = Found(m, g, k)
    BY <2>2, LengthOfMessage
  <2>4. QED  BY <2>2, <2>3
<1>4. PICK scan : scan = CHOOSE h : Defines(h)
  OBVIOUS
<1>5. Defines(scan)
  <2> HIDE DEF Defines
  <2>1. QED  BY <1>3, <1>4
<1>6. \A c \in 0..Len(m) : Scan(m, c) = scan[c]
  BY <1>4 DEF Scan, Found, Behind, EndsFrom
<1>7. QED  BY <1>5, <1>6

-----------------------------------------------------------------------------
(***************************************************************************)
(* Types.                                                                  *)
(***************************************************************************)

\* The lines that were found lie in the message, and the cursor does.
LEMMA ScanTyped ==
    ASSUME NEW m \in Messages, NEW c \in 0..Len(m)
    PROVE  Scan(m, c) \in [parts : Seq(Messages), cursor : 0..Len(m), header_end : 0..Len(m)]
<1> DEFINE Lines == [parts : Seq(Messages), cursor : 0..Len(m), header_end : 0..Len(m)]
<1>1. PICK scan : /\ DOMAIN scan = 0..Len(m)
                  /\ \A k \in 0..Len(m) : scan[k] = Found(m, scan, k)
                  /\ \A l \in 0..Len(m) : Scan(m, l) = scan[l]
  BY ScanDefined
<1> DEFINE Done == {n \in Nat : \A k \in 0..Len(m) : k >= Len(m) - n => scan[k] \in Lines}
<1>2. ASSUME NEW k \in 0..Len(m), \A l \in (k + 1)..Len(m) : scan[l] \in Lines
      PROVE  scan[k] \in Lines
  <2>1. CASE EndsFrom(m, k) = {}
    <3>1. scan[k] = [parts |-> <<>>, cursor |-> k, header_end |-> 0]
      BY <1>1, <2>1 DEF Found
    <3>2. 0 \in 0..Len(m)
      BY LengthOfMessage
    <3>3. QED  BY <3>1, <3>2
  <2>2. CASE EndsFrom(m, k) # {} /\ k \in EndsFrom(m, k)
    <3>1. Behind(m, k) \in 0..Len(m)
      BY <2>2, FirstEnd, LengthOfMessage
    <3>2. scan[k] = [parts |-> <<>>, cursor |-> k, header_end |-> Behind(m, k)]
      BY <1>1, <2>2 DEF Found
    <3>3. QED  BY <3>1, <3>2
  <2>3. CASE EndsFrom(m, k) # {} /\ k \notin EndsFrom(m, k)
    <3>1. PICK part : part = SubSeq(m, k + 1, Min(EndsFrom(m, k)))
      OBVIOUS
    <3>2. part \in Messages
      <4>1. Min(EndsFrom(m, k)) \in k..(Len(m) - 1)
        BY <2>3, FirstEnd
      <4>2. PICK last \in k..(Len(m) - 1) : last = Min(EndsFrom(m, k))
        BY <4>1
      <4>3. \A i \in (k + 1)..last : m[i] \in Symbols
        BY LengthOfMessage DEF Messages
      <4>4. last \in Int /\ k + 1 \in Int
        BY LengthOfMessage
      <4>5. SubSeq(m, k + 1, last) \in Seq(Symbols)
        BY <4>3, <4>4, SubSeqProperties
      <4>6. QED  BY <3>1, <4>2, <4>5 DEF Messages
    <3>3. PICK rest \in Lines : rest = scan[Behind(m, k)]
      BY <1>2, <2>3, FirstEnd
    <3>4. scan[k] = [rest EXCEPT !.parts = <<part>> \o @]
      BY <1>1, <2>3, <3>1, <3>3 DEF Found
    <3>5. <<part>> \o rest.parts \in Seq(Messages)
      BY <3>2
    <3>6. QED  BY <3>4, <3>5
  <2>4. QED  BY <2>1, <2>2, <2>3
<1>3. 0 \in Done
  <2>1. ASSUME NEW k \in 0..Len(m), k >= Len(m) - 0
        PROVE  scan[k] \in Lines
    <3>1. (k + 1)..Len(m) = {}
      BY <2>1, LengthOfMessage
    <3> HIDE DEF Lines
    <3>2. QED  BY <1>2, <3>1
  <2> HIDE DEF Lines
  <2>2. QED  BY <2>1
<1>4. ASSUME NEW n \in Nat, n \in Done
      PROVE  n + 1 \in Done
  <2>1. ASSUME NEW k \in 0..Len(m), k >= Len(m) - (n + 1)
        PROVE  scan[k] \in Lines
    <3>1. \A l \in (k + 1)..Len(m) : l \in 0..Len(m) /\ l >= Len(m) - n
      BY <2>1, LengthOfMessage
    <3> HIDE DEF Lines
    <3>2. \A l \in (k + 1)..Len(m) : scan[l] \in Lines
      BY <1>4, <3>1
    <3>3. QED  BY <1>2, <3>2
  <2> HIDE DEF Lines
  <2>2. QED  BY <2>1
<1>5. scan[c] \in Lines
  <2>1. Nat \subseteq Done
    <3> HIDE DEF Done
    <3>1. QED  BY <1>3, <1>4, AllNumbers
  <2>2. c >= Len(m) - Len(m)
    BY LengthOfMessage
  <2>3. Len(m) \in Done
    <3> HIDE DEF Done
    <3>1. QED  BY <2>1, LengthOfMessage
  <2> HIDE DEF Lines
  <2>4. QED  BY <2>2, <2>3
<1>6. QED  BY <1>1, <1>5

\* What the steps of a call make of the request.
LEMMA CursorSet ==
    ASSUME NEW r, IsRequest(r), NEW c
    PROVE  IsRequest([r EXCEPT !.cursor = c]) /\ [r EXCEPT !.cursor = c].cursor = c
  BY DEF IsRequest

LEMMA LinesAdded ==
    ASSUME NEW r, IsRequest(r), NEW parts
    PROVE  IsRequest(AddLines(r, parts)) /\ AddLines(r, parts).cursor = r.cursor
<1>1. CASE parts # <<>>
  <2>1. PICK first : first = RequestLine(Head(parts))
    OBVIOUS
  <2>2. PICK more : more = FoldLeft(AddHeader, r.headers, Tail(parts))
    OBVIOUS
  <2>3. AddLines(r, parts) = [r EXCEPT !.line = first, !.headers = more]
    BY <1>1, <2>1, <2>2 DEF AddLines
  <2>4. QED  BY <2>3 DEF IsRequest
<1>2. CASE parts = <<>>
  BY <1>2 DEF AddLines
<1>3. QED  BY <1>1, <1>2

LEMMA BodyTaken ==
    ASSUME NEW r, IsRequest(r), NEW m, NEW header_end
    PROVE  /\ IsRequest(TakeBody(r, m, header_end))
           /\ TakeBody(r, m, header_end).cursor \in {PARSE_COMPLETE, header_end}
<1>1. PICK taken : taken = SubSeq(m, header_end + 1, header_end + BodyLength(r))
  OBVIOUS
<1>2. \/ TakeBody(r, m, header_end) = [r EXCEPT !.cursor = header_end]
      \/ TakeBody(r, m, header_end) = [r EXCEPT !.cursor = PARSE_COMPLETE, !.body = taken]
      \/ TakeBody(r, m, header_end) = [r EXCEPT !.cursor = PARSE_COMPLETE, !.body = r.body]
  BY <1>1 DEF TakeBody
<1>3. QED  BY <1>2 DEF IsRequest

\* Where a call leaves the cursor.
LEMMA CursorAfter ==
    ASSUME NEW m \in Messages, NEW r, IsRequest(r), r.cursor \in 0..Len(m)
    PROVE  /\ IsRequest(Parsed(r, m))
           /\ Parsed(r, m).cursor \in {PARSE_COMPLETE} \cup 0..Len(m)
<1>1. PICK found : found = Scan(m, r.cursor)
  OBVIOUS
<1>2. found.cursor \in 0..Len(m) /\ found.header_end \in 0..Len(m)
  BY <1>1, ScanTyped
<1>3. PICK moved : moved = [r EXCEPT !.cursor = found.cursor]
  OBVIOUS
<1>4. IsRequest(moved) /\ moved.cursor = found.cursor
  BY <1>3, CursorSet
<1>5. PICK read : read = AddLines(moved, found.parts)
  OBVIOUS
<1>6. IsRequest(read) /\ read.cursor = found.cursor
  BY <1>4, <1>5, LinesAdded
<1>7. Parsed(r, m) = IF found.header_end = 0 THEN read ELSE TakeBody(read, m, found.header_end)
  BY <1>1, <1>3, <1>5 DEF Parsed
<1>8. QED  BY <1>2, <1>6, <1>7, BodyTaken
-----------------------------------------------------------------------------
(***************************************************************************)
(* What clients send.                                                      *)
(***************************************************************************)

\* h consists of lines that are not empty, each with this terminator: the set
\* has the offsets where they start, and the end.
Starts(h, eol, starts) ==
    /\ starts \subseteq 0..Len(h)
    /\ 0 \in starts /\ Len(h) \in starts
    /\ \A k \in starts : k < Len(h) =>
          \E e \in (k + 1)..Len(h) :
              /\ e + Len(eol) \in starts
              /\ \A i \in (k + 1)..e : h[i] \notin {"CR", "LF"}
              /\ \A i \in 1..Len(eol) : h[e + i] = eol[i]

Lined(h, eol) == h \in Messages /\ \E starts : Starts(h, eol, starts)

LEMMA TerminatorTyped ==
    ASSUME NEW eol \in LineEnds
    PROVE  /\ eol \in Messages /\ Len(eol) \in {1, 2} /\ eol[1] \in {"CR", "LF"}
           /\ Len(eol) = 2 => eol[1] = "CR" /\ eol[2] = "LF"
<1>1. /\ Len(<<"CR", "LF">>) = 2 /\ Len(<<"CR">>) = 1 /\ Len(<<"LF">>) = 1
      /\ <<"CR", "LF">>[1] = "CR" /\ <<"CR", "LF">>[2] = "LF"
      /\ <<"CR">>[1] = "CR" /\ <<"LF">>[1] = "LF"
  OBVIOUS
<1>2. <<"CR", "LF">> \in Seq(Symbols) /\ <<"CR">> \in Seq(Symbols) /\ <<"LF">> \in Seq(Symbols)
  <2>1. "CR" \in Symbols /\ "LF" \in Symbols
    BY SymbolsAssumption
  <2>2. QED  BY <2>1
<1>3. eol = <<"CR", "LF">> \/ eol = <<"CR">> \/ eol = <<"LF">>
  BY LineEndsAssumption
<1>4. QED  BY <1>1, <1>2, <1>3 DEF Messages

LEMMA OneLine ==
    ASSUME NEW eol \in LineEnds, NEW line \in Seq(Words) \ {<<>>}
    PROVE  Lined(line \o eol, eol)
<1>1. line \in Messages /\ Len(line) \in Nat \ {0}
  BY DEF Messages, Words
<1>2. PICK h : h = line \o eol
  OBVIOUS
<1>3. PICK starts : starts = {0, Len(h)}
  OBVIOUS
<1>4. /\ h \in Messages
      /\ Len(h) = Len(line) + Len(eol)
      /\ \A i \in 1..(Len(line) + Len(eol)) :
             h[i] = IF i <= Len(line) THEN line[i] ELSE eol[i - Len(line)]
  BY <1>1, <1>2, TerminatorTyped, ConcatProperties DEF Messages
<1>5. \A i \in 1..Len(line) : line[i] \notin {"CR", "LF"}
  BY DEF Words
<1>6. PICK e : e = Len(line)
  OBVIOUS
<1>7. /\ e \in (0 + 1)..Len(h)
      /\ e + Len(eol) \in starts
      /\ \A i \in (0 + 1)..e : h[i] \notin {"CR", "LF"}
      /\ \A i \in 1..Len(eol) : h[e + i] = eol[i]
  BY <1>1, <1>3, <1>4, <1>5, <1>6, TerminatorTyped
<1>8. starts \subseteq 0..Len(h)
  BY <1>1, <1>3, <1>4, TerminatorTyped
<1>9. Starts(h, eol, starts)
  <2>1. \A k \in starts : k < Len(h) => k = 0
    BY <1>1, <1>3, <1>4, TerminatorTyped
  <2>2. 0 \in starts /\ Len(h) \in starts
    BY <1>3
  <2>3. QED  BY <1>7, <1>8, <2>1, <2>2 DEF Starts
<1>10. QED  BY <1>2, <1>4, <1>9 DEF Lined

LEMMA MoreLines ==
    ASSUME NEW eol \in LineEnds, NEW g, NEW h, Lined(g, eol), Lined(h, eol)
    PROVE  Lined(g \o h, eol)
<1>1. PICK before, behind : Starts(g, eol, before) /\ Starts(h, eol, behind)
  BY DEF Lined
<1>2. PICK both : both = g \o h
  OBVIOUS
<1>3. PICK starts : starts = before \cup {Len(g) + k : k \in behind}
  OBVIOUS
<1>4. /\ both \in Messages /\ Len(both) = Len(g) + Len(h)
      /\ Len(g) \in Nat /\ Len(h) \in Nat
      /\ \A i \in 1..(Len(g) + Len(h)) : both[i] = IF i <= Len(g) THEN g[i] ELSE h[i - Len(g)]
  BY <1>2, ConcatProperties DEF Messages, Lined
<1>5. \A i \in 1..Len(g) : both[i] = g[i]
  BY <1>4
<1>6. \A i \in 1..Len(h) : both[Len(g) + i] = h[i]
  BY <1>4
<1>7. starts \subseteq 0..Len(both)
  <2>1. before \subseteq 0..Len(both)
    BY <1>1, <1>4 DEF Starts
  <2>2. \A k \in behind : Len(g) + k \in 0..Len(both)
    BY <1>1, <1>4 DEF Starts
  <2>3. QED  BY <1>3, <2>1, <2>2
<1>8. 0 \in starts /\ Len(g) \in starts /\ Len(both) \in starts
  <2>1. 0 \in before /\ 0 \in behind /\ Len(h) \in behind
    BY <1>1 DEF Starts
  <2>2. Len(g) + 0 = Len(g)
    BY <1>4
  <2>3. QED  BY <1>3, <1>4, <2>1, <2>2
<1>9. ASSUME NEW k \in starts, k < Len(both)
      PROVE  \E e \in (k + 1)..Len(both) :
              /\ e + Len(eol) \in starts
              /\ \A i \in (k + 1)..e : both[i] \notin {"CR", "LF"}
              /\ \A i \in 1..Len(eol) : both[e + i] = eol[i]
  <2>1. CASE k \in before /\ k < Len(g)
    <3>1. PICK e \in (k + 1)..Len(g) :
              /\ e + Len(eol) \in before
              /\ \A i \in (k + 1)..e : g[i] \notin {"CR", "LF"}
              /\ \A i \in 1..Len(eol) : g[e + i] = eol[i]
      BY <1>1, <2>1 DEF Starts
    <3>2. k \in Nat /\ e + Len(eol) <= Len(g) /\ Len(eol) \in {1, 2}
      BY <1>1, <1>4, <2>1, <3>1, TerminatorTyped DEF Starts
    <3>3. \A i \in (k + 1)..e : both[i] \notin {"CR", "LF"}
      BY <1>5, <3>1, <3>2
    <3>4. \A i \in 1..Len(eol) : both[e + i] = eol[i]
      BY <1>4, <1>5, <3>1, <3>2
    <3>5. e \in (k + 1)..Len(both) /\ e + Len(eol) \in starts
      BY <1>3, <1>4, <3>1, <3>2
    <3>6. QED  BY <3>3, <3>4, <3>5
  <2>2. CASE \E l \in behind : k = Len(g) + l
    <3>1. PICK l \in behind : k = Len(g) + l
      BY <2>2
    <3>2. l \in Nat /\ l < Len(h)
      BY <1>1, <1>4, <1>9, <3>1 DEF Starts
    <3>3. PICK e \in (l + 1)..Len(h) :
              /\ e + Len(eol) \in behind
              /\ \A i \in (l + 1)..e : h[i] \notin {"CR", "LF"}
              /\ \A i \in 1..Len(eol) : h[e + i] = eol[i]
      BY <1>1, <3>2 DEF Starts
    <3>4. e + Len(eol) <= Len(h) /\ Len(eol) \in {1, 2}
      BY <1>1, <1>4, <3>3, TerminatorTyped DEF Starts
    <3>5. PICK f : f = Len(g) + e
      OBVIOUS
    <3>6. ASSUME NEW i \in (k + 1)..f
          PROVE  both[i] \notin {"CR", "LF"}
      <4>1. i - Len(g) \in (l + 1)..e /\ i - Len(g) \in 1..Len(h) /\ i = Len(g) + (i - Len(g))
        BY <1>4, <3>1, <3>2, <3>3, <3>5
      <4>2. both[i] = h[i - Len(g)]
        BY <1>6, <4>1
      <4>3. QED  BY <3>3, <4>1, <4>2
    <3>7. ASSUME NEW i \in 1..Len(eol)
          PROVE  both[f + i] = eol[i]
      <4>1. f + i = Len(g) + (e + i) /\ e + i \in 1..Len(h)
        BY <1>4, <3>2, <3>3, <3>4, <3>5
      <4>2. QED  BY <1>6, <3>3, <4>1
    <3>8. f \in (k + 1)..Len(both) /\ f + Len(eol) \in starts
      <4>1. f + Len(eol) = Len(g) + (e + Len(eol))
        BY <1>4, <3>3, <3>4, <3>5
      <4>2. f \in (k + 1)..Len(both)
        BY <1>4, <3>1, <3>2, <3>3, <3>5
      <4>3. QED  BY <1>3, <3>3, <4>1, <4>2
    <3>9. QED  BY <3>6, <3>7, <3>8
  <2>3. CASE k \in before /\ ~(k < Len(g))
    <3>1. k = Len(g) + 0 /\ 0 \in behind
      BY <1>1, <1>4, <2>3 DEF Starts
    <3>2. QED  BY <2>2, <3>1
  <2>4. QED  BY <1>3, <2>1, <2>2, <2>3
<1>10. Starts(both, eol, starts)
  BY <1>7, <1>8, <1>9 DEF Starts
<1>11. QED  BY <1>2, <1>4, <1>10 DEF Lined

\* The beginnings of a concatenation, each of them one sequence longer.
Beginnings(p, seqs) ==
    /\ p \in [0..Len(seqs) -> Messages]
    /\ p[0] = <<>>
    /\ \A i \in 1..Len(seqs) : p[i] = p[i - 1] \o seqs[i]

LEMMA HasBeginnings ==
    ASSUME NEW seqs \in Seq(Messages)
    PROVE  \E p : Beginnings(p, seqs)
<1> DEFINE Upto(p, n) == /\ p \in [0..n -> Messages]
                         /\ p[0] = <<>>
                         /\ \A i \in 1..n : p[i] = p[i - 1] \o seqs[i]
           Reached == {n \in Nat : n <= Len(seqs) => \E p : Upto(p, n)}
<1>1. 0 \in Reached
  <2>1. PICK p : p = [i \in 0..0 |-> <<>>]
    OBVIOUS
  <2>2. <<>> \in Messages
    BY DEF Messages
  <2>3. Upto(p, 0)
    BY <2>1, <2>2
  <2> HIDE DEF Upto
  <2>4. QED  BY <2>3
<1>2. ASSUME NEW n \in Nat, n \in Reached
      PROVE  n + 1 \in Reached
  <2> SUFFICES ASSUME n + 1 <= Len(seqs)
               PROVE  \E p : Upto(p, n + 1)
    <3> HIDE DEF Upto
    <3>1. QED  OBVIOUS
  <2>1. PICK p : Upto(p, n)
    <3> HIDE DEF Upto
    <3>1. QED  BY <1>2
  <2>2. PICK more : more = p[n] \o seqs[n + 1]
    OBVIOUS
  <2>3. more \in Messages
    <3>1. n \in 0..n /\ n + 1 \in 1..Len(seqs)
      OBVIOUS
    <3>2. p[n] \in Seq(Symbols) /\ seqs[n + 1] \in Seq(Symbols)
      BY <2>1, <3>1 DEF Messages
    <3>3. QED  BY <2>2, <3>2, ConcatProperties DEF Messages
  <2>4. PICK q : q = [i \in 0..(n + 1) |-> IF i = n + 1 THEN more ELSE p[i]]
    OBVIOUS
  <2>5. q \in [0..(n + 1) -> Messages] /\ q[0] = <<>>
    BY <2>1, <2>3, <2>4
  <2>6. ASSUME NEW i \in 1..(n + 1)
        PROVE  q[i] = q[i - 1] \o seqs[i]
    <3>1. i - 1 \in 0..n /\ q[i - 1] = p[i - 1]
      BY <2>4
    <3>2. CASE i = n + 1
      <4>1. i - 1 = n /\ q[i] = more
        BY <2>4, <3>2
      <4>2. QED  BY <2>2, <3>1, <3>2, <4>1
    <3>3. CASE i # n + 1
      <4>1. i \in 1..n /\ q[i] = p[i]
        BY <2>4, <3>3
      <4>2. p[i] = p[i - 1] \o seqs[i]
        BY <2>1, <4>1
      <4>3. QED  BY <3>1, <4>1, <4>2
    <3>4. QED  BY <3>2, <3>3
  <2>7. Upto(q, n + 1)
    BY <2>5, <2>6
  <2> HIDE DEF Upto
  <2>8. QED  BY <2>7
<1>3. PICK p : Upto(p, Len(seqs))
  <2>1. Len(seqs) \in Reached
    <3> HIDE DEF Reached
    <3>1. QED  BY <1>1, <1>2, AllNumbers
  <2> HIDE DEF Upto
  <2>2. QED  BY <2>1
<1>4. QED  BY <1>3 DEF Beginnings

\* The longest beginning is the concatenation.
LEMMA FlattenedByParts ==
    ASSUME NEW seqs \in Seq(Messages), NEW p, Beginnings(p, seqs)
    PROVE  FlattenSeq(seqs) = p[Len(seqs)]
<1> DEFINE Defines(f) ==
        f = [i \in 1..Len(seqs) |-> IF i = 1 THEN seqs[i] ELSE f[i - 1] \o seqs[i]]
<1>1. CASE Len(seqs) = 0
  BY <1>1 DEF FlattenSeq, Beginnings
<1>2. CASE Len(seqs) # 0
  <2>1. PICK g : g = [i \in 1..Len(seqs) |-> p[i]]
    OBVIOUS
  <2>2. ASSUME NEW i \in 1..Len(seqs)
        PROVE  g[i] = IF i = 1 THEN seqs[i] ELSE g[i - 1] \o seqs[i]
    <3>1. CASE i = 1
      <4>1. i - 1 = 0 /\ seqs[i] \in Seq(Symbols)
        BY <3>1 DEF Messages
      <4>2. p[i] = p[i - 1] \o seqs[i] /\ p[0] = <<>>
        BY DEF Beginnings
      <4>3. QED  BY <2>1, <3>1, <4>1, <4>2, ConcatEmptySeq
    <3>2. CASE i # 1
      <4>1. i - 1 \in 1..Len(seqs)
        BY <3>2
      <4>2. QED  BY <2>1, <3>2, <4>1 DEF Beginnings
    <3>3. QED  BY <3>1, <3>2
  <2>3. Defines(g)
    BY <2>1, <2>2
  <2>4. PICK flatten : flatten = CHOOSE f : Defines(f)
    OBVIOUS
  <2>5. Defines(flatten)
    <3> HIDE DEF Defines
    <3>1. QED  BY <2>3, <2>4
  <2>6. FlattenSeq(seqs) = flatten[Len(seqs)]
    BY <1>2, <2>4 DEF FlattenSeq
  <2>7. \A i \in 1..Len(seqs) :
            flatten[i] = IF i = 1 THEN seqs[i] ELSE flatten[i - 1] \o seqs[i]
    BY <2>5
  <2> DEFINE Done == {n \in Nat : n \in 1..Len(seqs) => flatten[n] = g[n]}
  <2>8. 0 \in Done
    OBVIOUS
  <2>9. ASSUME NEW n \in Nat, n \in Done
        PROVE  n + 1 \in Done
    <3> SUFFICES ASSUME NEW i \in 1..Len(seqs), i = n + 1
                 PROVE  flatten[i] = g[i]
      OBVIOUS
    <3>1. CASE i = 1
      BY <2>2, <2>7, <3>1
    <3>2. CASE i # 1
      <4>1. i - 1 = n /\ n \in 1..Len(seqs)
        BY <3>2
      <4>2. flatten[i - 1] = g[i - 1]
        BY <2>9, <4>1
      <4>3. QED  BY <2>2, <2>7, <3>2, <4>2
    <3>3. QED  BY <3>1, <3>2
  <2>10. Len(seqs) \in Done
    <3> HIDE DEF Done
    <3>1. QED  BY <2>8, <2>9, AllNumbers
  <2>11. QED  BY <1>2, <2>1, <2>6, <2>10
<1>3. QED  BY <1>1, <1>2

\* The lines of the headers, one behind the other.
LEMMA FlattenedLines ==
    ASSUME NEW eol \in LineEnds, NEW lines \in Seq(Messages),
           \A i \in 1..Len(lines) : Lined(lines[i], eol)
    PROVE  Lined(FlattenSeq(lines), eol)
<1>1. PICK p : Beginnings(p, lines)
  BY HasBeginnings
<1> DEFINE Done == {n \in Nat : n <= Len(lines) => Lined(p[n], eol)}
<1>2. 0 \in Done
  <2>1. Starts(<<>>, eol, {0}) /\ <<>> \in Messages
    BY DEF Starts, Messages
  <2>2. QED  BY <1>1, <2>1 DEF Lined, Beginnings
<1>3. ASSUME NEW n \in Nat, n \in Done
      PROVE  n + 1 \in Done
  <2> SUFFICES ASSUME NEW i \in 1..Len(lines), i = n + 1
               PROVE  Lined(p[i], eol)
    OBVIOUS
  <2>1. Lined(p[i - 1], eol)
    BY <1>3
  <2>2. QED  BY <1>1, <2>1, MoreLines DEF Beginnings
<1>4. Len(lines) \in Done
  <2> HIDE DEF Done
  <2>1. QED  BY <1>2, <1>3, AllNumbers
<1>5. QED  BY <1>1, <1>4, FlattenedByParts

\* The head of a request without its empty line.
HeadBytes(r, eol) ==
    r.line \o eol
    \o FlattenSeq([i \in DOMAIN r.headers |-> <<r.headers[i][1], ":", "SP">> \o r.headers[i][2] \o eol])

LEMMA HeadLined ==
    ASSUME NEW r \in Requests, NEW eol \in LineEnds
    PROVE  Lined(HeadBytes(r, eol), eol)
<1>1. PICK lines :
        lines = [i \in DOMAIN r.headers |-> <<r.headers[i][1], ":", "SP">> \o r.headers[i][2] \o eol]
  OBVIOUS
<1>2. ASSUME NEW i \in DOMAIN r.headers
      PROVE  Lined(lines[i], eol) /\ lines[i] \in Messages
  <2>1. r.headers[i] \in Words \X Seq(Words)
    BY RequestsAssumption
  <2>2. PICK name \in Words, value \in Seq(Words) : r.headers[i][1] = name /\ r.headers[i][2] = value
    BY <2>1
  <2>3. ":" \in Words /\ "SP" \in Words
    BY SymbolsAssumption DEF Words
  <2>4. PICK start : start = <<name, ":", "SP">>
    OBVIOUS
  <2>5. start \in Seq(Words) /\ start # <<>>
    <3>1. \A a, b, c \in Words : <<a, b, c>> \in Seq(Words) /\ <<a, b, c>> # <<>>
      OBVIOUS
    <3>2. QED  BY <2>3, <2>4, <3>1
  <2>6. start \o value \in Seq(Words) \ {<<>>}
    BY <2>5, ConcatProperties, ConcatEqualIffEmpty
  <2>7. lines[i] = (start \o value) \o eol
    BY <1>1, <2>2, <2>4
  <2>8. QED  BY <2>6, <2>7, OneLine DEF Lined
<1>3. lines \in Seq(Messages) /\ \A i \in 1..Len(lines) : Lined(lines[i], eol)
  <2>1. r.headers \in Seq(Words \X Seq(Words))
    BY RequestsAssumption
  <2>2. PICK n \in Nat : DOMAIN r.headers = 1..n
    BY <2>1
  <2>3. lines \in [1..n -> Messages]
    BY <1>1, <1>2, <2>2
  <2>4. lines \in Seq(Messages) /\ Len(lines) = n
    BY <2>3
  <2>5. QED  BY <1>2, <2>2, <2>4
<1>4. Lined(FlattenSeq(lines), eol)
  BY <1>3, FlattenedLines
<1>5. Lined(r.line \o eol, eol)
  BY RequestsAssumption, OneLine
<1>6. QED  BY <1>1, <1>4, <1>5, MoreLines DEF HeadBytes

-----------------------------------------------------------------------------
(***************************************************************************)
(* What a call finds in a part of the head.                                *)
(***************************************************************************)

\* Where the loop gets to behind a line of the head.
LEMMA NextLine ==
    ASSUME NEW eol \in LineEnds, NEW h \in Messages, NEW starts, Starts(h, eol, starts),
           NEW m \in Messages, Len(m) <= Len(h), \A i \in 1..Len(m) : m[i] = h[i],
           NEW k \in starts, k \in 0..Len(m), EndsFrom(m, k) # {}
    PROVE  /\ k \notin EndsFrom(m, k)
           /\ Behind(m, k) \in starts \/ Behind(m, k) = Len(m)
<1>1. Len(m) \in Nat /\ Len(h) \in Nat
  BY LengthOfMessage
<1>2. PICK first : first = Min(EndsFrom(m, k))
  OBVIOUS
<1>3. /\ first \in k..(Len(m) - 1)
      /\ first \in EndsFrom(m, k)
      /\ \A p \in EndsFrom(m, k) : first <= p
  BY <1>2, FirstEnd
<1>4. first \in 0..(Len(m) - 1) /\ m[first + 1] \in {"CR", "LF"}
  BY <1>1, <1>3, TerminatorInside DEF EndsFrom
<1>5. PICK e \in (k + 1)..Len(h) :
        /\ e + Len(eol) \in starts
        /\ \A i \in (k + 1)..e : h[i] \notin {"CR", "LF"}
        /\ \A i \in 1..Len(eol) : h[e + i] = eol[i]
  <2>1. k < Len(h)
    BY <1>1, <1>3
  <2>2. QED  BY <2>1 DEF Starts
<1>6. e <= first
  <2>1. first + 1 \in 1..Len(m) /\ m[first + 1] = h[first + 1]
    BY <1>1, <1>4
  <2>2. first + 1 \notin (k + 1)..e
    BY <1>4, <1>5, <2>1
  <2>3. QED  BY <1>1, <1>3, <1>5, <2>2
<1>7. e \in 0..(Len(m) - 1) /\ e \in k..(Len(m) - 1)
  BY <1>1, <1>3, <1>5, <1>6
<1>8. m[e + 1] = eol[1] /\ e \in EndsFrom(m, k)
  <2>1. e + 1 \in 1..Len(m) /\ 1 \in 1..Len(eol)
    BY <1>1, <1>7, TerminatorTyped
  <2>2. m[e + 1] = eol[1]
    BY <1>5, <2>1
  <2>3. TerminatorSize(m, e) > 0
    BY <1>7, <2>2, TerminatorInside, TerminatorTyped
  <2>4. QED  BY <1>7, <2>2, <2>3 DEF EndsFrom
<1>9. first = e
  BY <1>1, <1>3, <1>6, <1>7, <1>8
<1>10. k \notin EndsFrom(m, k)
  BY <1>1, <1>3, <1>5, <1>9
<1>11. Behind(m, k) = e + TerminatorSize(m, e)
  BY <1>2, <1>9 DEF Behind
<1>12. TerminatorSize(m, e) = 1 \/ TerminatorSize(m, e) = 2
  BY <1>4, <1>9 DEF TerminatorSize
<1>13. CASE e + 1 = Len(m)
  <2>1. TerminatorSize(m, e) = 1
    BY <1>1, <1>4, <1>9, <1>13 DEF TerminatorSize
  <2>2. QED  BY <1>10, <1>11, <1>13, <2>1
<1>14. CASE e + 2 <= Len(m) /\ Len(eol) = 2
  <2>1. e + 2 \in 1..Len(m) /\ 2 \in 1..Len(eol)
    BY <1>1, <1>7, <1>14
  <2>2. m[e + 2] = eol[2]
    BY <1>5, <2>1
  <2>3. TerminatorSize(m, e) = 2
    BY <1>8, <1>14, <2>2, TerminatorTyped DEF TerminatorSize
  <2>4. QED  BY <1>5, <1>10, <1>11, <1>14, <2>3
<1>15. CASE e + 2 <= Len(m) /\ Len(eol) = 1
  <2>1. e + 1 \in starts /\ e + 1 < Len(h)
    BY <1>1, <1>5, <1>7, <1>15
  <2>2. PICK f \in (e + 2)..Len(h) : \A i \in (e + 2)..f : h[i] \notin {"CR", "LF"}
    <3>1. (e + 1) + 1 = e + 2
      BY <1>7
    <3>2. QED  BY <2>1, <3>1 DEF Starts
  <2>3. m[e + 2] # "LF"
    <3>1. e + 2 \in (e + 2)..f /\ e + 2 \in 1..Len(m)
      BY <1>1, <1>7, <1>15, <2>2
    <3>2. QED  BY <2>2, <3>1
  <2>4. TerminatorSize(m, e) = 1
    BY <1>4, <1>9, <2>3 DEF TerminatorSize
  <2>5. QED  BY <1>10, <1>11, <2>1, <2>4
<1>16. QED  BY <1>1, <1>7, <1>13, <1>14, <1>15, TerminatorTyped

\* No empty line is found before the head is over.
LEMMA NoEmptyLine ==
    ASSUME NEW eol \in LineEnds, NEW h, Lined(h, eol),
           NEW m \in Messages, Len(m) <= Len(h), \A i \in 1..Len(m) : m[i] = h[i]
    PROVE  Scan(m, 0).header_end = 0
<1>1. PICK starts : Starts(h, eol, starts)
  BY DEF Lined
<1>2. PICK scan : /\ DOMAIN scan = 0..Len(m)
                  /\ \A k \in 0..Len(m) : scan[k] = Found(m, scan, k)
                  /\ \A l \in 0..Len(m) : Scan(m, l) = scan[l]
  BY ScanDefined
<1> DEFINE Reachable(k) == k \in starts \/ k = Len(m)
           Done == {n \in Nat : \A k \in 0..Len(m) :
                       k >= Len(m) - n /\ Reachable(k) => scan[k].header_end = 0}
<1>3. ASSUME NEW k \in 0..Len(m), Reachable(k),
             \A l \in (k + 1)..Len(m) : Reachable(l) => scan[l].header_end = 0
      PROVE  scan[k].header_end = 0
  <2>1. CASE EndsFrom(m, k) = {}
    <3>1. scan[k] = [parts |-> <<>>, cursor |-> k, header_end |-> 0]
      BY <1>2, <2>1 DEF Found
    <3>2. QED  BY <3>1
  <2>2. CASE EndsFrom(m, k) # {}
    <3>1. PICK next : next = Behind(m, k)
      OBVIOUS
    <3>2. next \in (k + 1)..Len(m) /\ Min(EndsFrom(m, k)) \in k..(Len(m) - 1)
      BY <2>2, <3>1, FirstEnd
    <3>3. k \in starts
      BY <1>3, <3>2, LengthOfMessage
    <3>4. k \notin EndsFrom(m, k) /\ Reachable(next)
      <4>1. h \in Messages
        BY DEF Lined
      <4>2. QED  BY <1>1, <2>2, <3>1, <3>3, <4>1, NextLine
    <3>5. scan[next].header_end = 0
      BY <1>3, <3>2, <3>4
    <3>6. PICK part : part = SubSeq(m, k + 1, Min(EndsFrom(m, k)))
      OBVIOUS
    <3>7. scan[k] = [scan[next] EXCEPT !.parts = <<part>> \o @]
      BY <1>2, <2>2, <3>1, <3>4, <3>6 DEF Found
    <3>8. scan[next] \in [parts : Seq(Messages), cursor : 0..Len(m), header_end : 0..Len(m)]
      BY <1>2, <3>2, ScanTyped, LengthOfMessage
    <3>9. QED  BY <3>5, <3>7, <3>8
  <2>3. QED  BY <2>1, <2>2
<1>4. 0 \in Done
  <2>1. ASSUME NEW k \in 0..Len(m), k >= Len(m) - 0, Reachable(k)
        PROVE  scan[k].header_end = 0
    <3>1. (k + 1)..Len(m) = {}
      BY <2>1, LengthOfMessage
    <3> HIDE DEF Reachable
    <3>2. QED  BY <1>3, <2>1, <3>1
  <2> HIDE DEF Reachable
  <2>2. QED  BY <2>1
<1>5. ASSUME NEW n \in Nat, n \in Done
      PROVE  n + 1 \in Done
  <2>1. ASSUME NEW k \in 0..Len(m), k >= Len(m) - (n + 1), Reachable(k)
        PROVE  scan[k].header_end = 0
    <3>1. \A l \in (k + 1)..Len(m) : l \in 0..Len(m) /\ l >= Len(m) - n
      BY <2>1, LengthOfMessage
    <3> HIDE DEF Reachable
    <3>2. \A l \in (k + 1)..Len(m) : Reachable(l) => scan[l].header_end = 0
      BY <1>5, <3>1
    <3>3. QED  BY <1>3, <2>1, <3>2
  <2> HIDE DEF Reachable
  <2>2. QED  BY <2>1
<1>6. Nat \subseteq Done
  <2> HIDE DEF Done
  <2>1. QED  BY <1>4, <1>5, AllNumbers
<1>7. scan[0].header_end = 0
  <2>1. Reachable(0)
    BY <1>1 DEF Starts
  <2>2. Len(m) \in Done /\ 0 \in 0..Len(m) /\ 0 >= Len(m) - Len(m)
    <3> HIDE DEF Done
    <3>1. QED  BY <1>6, LengthOfMessage
  <2> HIDE DEF Reachable
  <2>3. QED  BY <2>1, <2>2
<1>8. QED  BY <1>2, <1>7, LengthOfMessage

\* Without a line terminator a call leaves a new request as it is.
LEMMA NothingFound ==
    ASSUME NEW m \in Messages, \A i \in DOMAIN m : m[i] \notin {"CR", "LF"}
    PROVE  Parsed(Empty, m) = Empty /\ ~Throws(Empty, m)
<1>1. Empty.cursor = 0 /\ 0 \in 0..Len(m) /\ IsRequest(Empty)
  BY LengthOfMessage DEF Empty, IsRequest
<1>2. EndsFrom(m, 0) = {}
  <2>1. \A p \in 0..(Len(m) - 1) : p + 1 \in DOMAIN m
    BY DEF Messages
  <2>2. QED  BY <2>1, TerminatorInside DEF EndsFrom
<1>3. PICK scan : /\ DOMAIN scan = 0..Len(m)
                  /\ \A k \in 0..Len(m) : scan[k] = Found(m, scan, k)
                  /\ \A l \in 0..Len(m) : Scan(m, l) = scan[l]
  BY ScanDefined
<1>4. Scan(m, Empty.cursor) = [parts |-> <<>>, cursor |-> 0, header_end |-> 0]
  BY <1>1, <1>2, <1>3 DEF Found
<1>5. PICK found : found = Scan(m, Empty.cursor)
  OBVIOUS
<1>6. found.parts = <<>> /\ found.cursor = 0 /\ found.header_end = 0
  BY <1>4, <1>5
<1>7. [Empty EXCEPT !.cursor = 0] = Empty
  BY <1>1 DEF IsRequest
<1>8. Parsed(Empty, m) = AddLines([Empty EXCEPT !.cursor = found.cursor], found.parts)
  BY <1>5, <1>6 DEF Parsed
<1>9. Parsed(Empty, m) = Empty
  BY <1>6, <1>7, <1>8 DEF AddLines
<1>10. ~Throws(Empty, m)
  BY <1>5, <1>6 DEF Throws
<1>11. QED  BY <1>9, <1>10
-----------------------------------------------------------------------------
(***************************************************************************)
(* The state.                                                              *)
(***************************************************************************)

LEMMA MarshalTyped ==
    ASSUME NEW r \in Requests, NEW eol \in LineEnds
    PROVE  /\ Marshal(r, eol) = (HeadBytes(r, eol) \o eol) \o r.body
           /\ Marshal(r, eol) \in Messages
           /\ Len(Marshal(r, eol)) = Len(HeadBytes(r, eol)) + Len(eol) + Len(r.body)
<1>1. Marshal(r, eol) = (HeadBytes(r, eol) \o eol) \o r.body
  BY DEF Marshal, HeadBytes
<1>2. HeadBytes(r, eol) \in Messages /\ eol \in Messages /\ r.body \in Messages
  BY HeadLined, TerminatorTyped, RequestsAssumption DEF Lined, Messages
<1>3. /\ HeadBytes(r, eol) \o eol \in Messages
      /\ Len(HeadBytes(r, eol) \o eol) = Len(HeadBytes(r, eol)) + Len(eol)
  BY <1>2, ConcatProperties DEF Messages
<1>4. QED  BY <1>1, <1>2, <1>3, ConcatProperties DEF Messages

LEMMA ParserInit == Init => ParserInv
<1> SUFFICES ASSUME Init PROVE ParserInv
  OBVIOUS
<1>1. sent.request \in Requests /\ sent.eol \in LineEnds
  BY DEF Init
<1>2. /\ wire \in Messages
      /\ message_buffer = <<>> /\ message_buffer \in Messages
      /\ Len(message_buffer) = 0 /\ DOMAIN message_buffer = {}
  <2>1. wire \in Messages
    BY <1>1, MarshalTyped DEF Init
  <2>2. message_buffer = <<>>
    BY DEF Init
  <2>3. <<>> \in Messages /\ Len(<<>>) = 0 /\ DOMAIN <<>> = {}
    BY DEF Messages
  <2>4. QED  BY <2>1, <2>2, <2>3
<1>3. message_buffer \o wire = Marshal(sent.request, sent.eol)
  BY <1>2, ConcatEmptySeq DEF Init, Messages
<1>4. TypeOK
  <2>1. /\ sent \in [request : Requests, eol : LineEnds]
        /\ request.cursor = 0 /\ chunks = 0 /\ ~thrown /\ ~cutHead
        /\ thrown \in BOOLEAN /\ cutHead \in BOOLEAN
    BY DEF Init, Empty
  <2>2. 0 \in 0..Len(message_buffer)
    BY <1>2
  <2>3. QED  BY <1>3, <2>1, <2>2 DEF TypeOK
<1>5. Buffers
  BY <1>2 DEF Init, Buffers, Messages, Empty, IsRequest
<1>6. CutBehindTerminator
  BY DEF Init, CutBehindTerminator
<1>7. ChunksLeaveNoTrace
  <2>1. \A i \in DOMAIN message_buffer : message_buffer[i] \notin {"CR", "LF"}
    BY <1>2
  <2>2. Parsed(Empty, message_buffer) = Empty /\ ~Throws(Empty, message_buffer)
    BY <1>2, <2>1, NothingFound
  <2>3. request = Empty /\ thrown = FALSE
    BY DEF Init
  <2>4. Throws(Empty, message_buffer) \in BOOLEAN
    BY DEF Throws
  <2>5. QED  BY <2>2, <2>3, <2>4 DEF ChunksLeaveNoTrace
<1>8. QED  BY <1>4, <1>5, <1>6, <1>7 DEF ParserInv

\* A concatenation may be grouped either way.
LEMMA Regrouped ==
  \A a, b, c \in Seq(Symbols) : (a \o b) \o c = a \o (b \o c)
<1> SUFFICES ASSUME NEW a \in Seq(Symbols), NEW b \in Seq(Symbols), NEW c \in Seq(Symbols)
             PROVE  (a \o b) \o c = a \o (b \o c)
  OBVIOUS
<1>1. QED  OBVIOUS

LEMMA ParserStep ==
    ASSUME ParserInv, NEW n \in 1..Len(wire), AppendToMessage(n)
    PROVE  ParserInv'
<1>1. message_buffer \in Messages /\ wire \in Messages /\ IsRequest(request)
  BY DEF ParserInv, Buffers, Messages
<1>2. PICK chunk : chunk = SubSeq(wire, 1, n)
  OBVIOUS
<1>3. n \in Nat /\ Len(wire) \in Nat /\ n >= 1 /\ n <= Len(wire) /\ Len(message_buffer) \in Nat
  BY <1>1, LengthOfMessage
<1>4. /\ chunk \in Messages /\ Len(chunk) = n
      /\ wire' \in Messages
      /\ chunk \o wire' = wire
  <2>1. wire' = SubSeq(wire, n + 1, Len(wire))
    BY DEF AppendToMessage
  <2>2. \A i \in 1..Len(wire) : wire[i] \in Symbols
    BY <1>1 DEF Messages
  <2>3. chunk \in Messages /\ Len(chunk) = n
    BY <1>2, <1>3, <2>2, SubSeqProperties DEF Messages
  <2>4. wire' \in Messages
    BY <1>3, <2>1, <2>2, SubSeqProperties DEF Messages
  <2>5. chunk \o wire' = SubSeq(wire, 1, Len(wire))
    <3>1. 1 \in 1..(Len(wire) + 1) /\ n \in (1 - 1)..Len(wire) /\ Len(wire) \in n..Len(wire)
      BY <1>3
    <3>2. QED  BY <1>1, <1>2, <2>1, <3>1, ConcatAdjacentSubSeq DEF Messages
  <2>6. SubSeq(wire, 1, Len(wire)) = wire
    BY <1>1, SubSeqFull DEF Messages
  <2>7. QED  BY <2>3, <2>4, <2>5, <2>6
<1>5. PICK m : m = message_buffer \o chunk
  OBVIOUS
<1>6. /\ message_buffer' = m /\ ~Ready /\ ~thrown
      /\ thrown' = Throws(request, m)
      /\ request' = IF thrown' THEN request ELSE Parsed(request, m)
      /\ chunks' = chunks + 1
      /\ cutHead' = (\E i \in DOMAIN message_buffer : message_buffer[i] \in {"CR", "LF"})
      /\ sent' = sent
  BY <1>2, <1>5 DEF AppendToMessage
<1>7. /\ m \in Messages /\ Len(m) = Len(message_buffer) + n
      /\ \A i \in DOMAIN message_buffer : i \in DOMAIN m /\ m[i] = message_buffer[i]
  BY <1>1, <1>3, <1>4, <1>5, ConcatProperties DEF Messages
<1>8. request.cursor \in 0..Len(m)
  BY <1>3, <1>6, <1>7 DEF ParserInv, TypeOK, Ready
<1>9. IsRequest(request') /\ request'.cursor \in {PARSE_COMPLETE} \cup 0..Len(m)
  BY <1>1, <1>6, <1>7, <1>8, CursorAfter
<1>10. TypeOK'
  <2>1. message_buffer' \o wire' = message_buffer \o wire
    <3>1. PICK rest \in Messages : rest = wire'
      BY <1>4
    <3>2. message_buffer \in Seq(Symbols) /\ chunk \in Seq(Symbols) /\ rest \in Seq(Symbols)
      BY <1>1, <1>4, <3>1 DEF Messages
    <3>3. (message_buffer \o chunk) \o rest = message_buffer \o (chunk \o rest)
      BY <3>2, Regrouped
    <3>4. QED  BY <1>4, <1>5, <1>6, <3>1, <3>3
  <2>2. message_buffer' \o wire' = Marshal(sent'.request, sent'.eol)
    BY <1>6, <2>1 DEF ParserInv, TypeOK
  <2>3. chunks' \in 0..Len(message_buffer')
    BY <1>3, <1>6, <1>7 DEF ParserInv, TypeOK
  <2>4. thrown' \in BOOLEAN /\ cutHead' \in BOOLEAN
    BY <1>6 DEF Throws
  <2>5. QED  BY <1>6, <1>9, <2>2, <2>3, <2>4 DEF ParserInv, TypeOK
<1>11. Buffers'
  BY <1>4, <1>6, <1>7, <1>9 DEF Buffers, Messages
<1>12. CutBehindTerminator'
  BY <1>6, <1>7 DEF CutBehindTerminator
<1>13. ChunksLeaveNoTrace'
  <2> SUFFICES ASSUME ~cutHead'
               PROVE  /\ thrown' = Throws(Empty, m)
                      /\ request' = IF thrown' THEN Empty ELSE Parsed(Empty, m)
    BY <1>6 DEF ChunksLeaveNoTrace
  <2>1. \A i \in DOMAIN message_buffer : message_buffer[i] \notin {"CR", "LF"}
    BY <1>6
  <2>2. ~cutHead
    BY <2>1 DEF ParserInv, CutBehindTerminator
  <2>3. request = Empty
    BY <1>1, <1>6, <2>1, <2>2, NothingFound DEF ParserInv, ChunksLeaveNoTrace
  <2>4. QED  BY <1>6, <2>3
<1>14. QED  BY <1>10, <1>11, <1>12, <1>13 DEF ParserInv

LEMMA ParserNext == ParserInv /\ [Next]_vars => ParserInv'
<1> SUFFICES ASSUME ParserInv, [Next]_vars
             PROVE  ParserInv'
  OBVIOUS
<1>1. CASE Next
  BY <1>1, ParserStep DEF Next
<1>2. CASE UNCHANGED vars
  BY <1>2 DEF vars, ParserInv, TypeOK, Buffers, CutBehindTerminator, ChunksLeaveNoTrace
<1>3. QED  BY <1>1, <1>2

\* The inductive invariant holds for any requests and any way to cut them.
THEOREM ParserInvariant == Spec => []ParserInv
<1>1. QED  BY ParserInit, ParserNext, PTL DEF Spec

\* The cursor stays within the message, and no byte is lost or doubled.
THEOREM ParserTypes == Spec => []TypeOK
<1>1. ParserInv => TypeOK
  BY DEF ParserInv
<1>2. QED  BY <1>1, ParserInvariant, PTL

\* Until a call has stopped behind a line terminator, the parser knows what one
\* call with all the bytes would make of them.
THEOREM CutsForgotten == Spec => []ChunksLeaveNoTrace
<1>1. ParserInv => ChunksLeaveNoTrace
  BY DEF ParserInv
<1>2. QED  BY <1>1, ParserInvariant, PTL

\* No request is complete before its empty line has begun to arrive.
THEOREM CompleteInTime == Spec => []NeverReadyEarly
<1>1. ASSUME ParserInv, Ready, ~cutHead
      PROVE  Len(message_buffer) >= HeadLength
  <2>1. PICK r \in Requests, eol \in LineEnds : sent.request = r /\ sent.eol = eol
    BY <1>1 DEF ParserInv, TypeOK
  <2>2. PICK m \in Messages : m = message_buffer
    BY <1>1 DEF ParserInv, Buffers, Messages
  <2>3. PICK rest \in Messages : rest = wire
    BY <1>1 DEF ParserInv, Buffers, Messages
  <2>4. PICK h : h = HeadBytes(r, eol)
    OBVIOUS
  <2>5. /\ h \in Messages /\ Lined(h, eol)
        /\ Len(h) \in Nat /\ Len(m) \in Nat /\ Len(r.body) \in Nat /\ Len(eol) \in {1, 2}
    BY <2>4, HeadLined, LengthOfMessage, TerminatorTyped, RequestsAssumption DEF Lined
  <2>6. /\ m \o rest = (h \o eol) \o r.body
        /\ HeadLength = Len(h) + 1
    <3>1. HeadLength = Len(Marshal(r, eol)) - Len(r.body) - (Len(eol) - 1)
      BY <2>1 DEF HeadLength
    <3>2. HeadLength = Len(h) + 1
      <4>1. Len(Marshal(r, eol)) = Len(h) + Len(eol) + Len(r.body)
        BY <2>4, MarshalTyped
      <4>2. QED  BY <2>5, <3>1, <4>1
    <3>3. message_buffer \o wire = Marshal(sent.request, sent.eol)
      BY <1>1 DEF ParserInv, TypeOK
    <3>4. QED  BY <2>1, <2>2, <2>3, <2>4, <3>2, <3>3, MarshalTyped
  <2>7. CASE Len(m) <= Len(h)
    <3>1. ASSUME NEW i \in 1..Len(m)
          PROVE  m[i] = h[i]
      <4>1. i \in 1..Len(h)
        BY <2>5, <2>7
      <4>2. (m \o rest)[i] = m[i]
        BY ConcatProperties DEF Messages
      <4>3. h \o eol \in Messages /\ Len(h \o eol) = Len(h) + Len(eol) /\ (h \o eol)[i] = h[i]
        BY <2>5, <4>1, TerminatorTyped, ConcatProperties DEF Messages
      <4>4. ((h \o eol) \o r.body)[i] = (h \o eol)[i]
        <5>1. PICK head \in Messages : head = h \o eol
          BY <4>3
        <5>2. i \in 1..(Len(head) + Len(r.body)) /\ i <= Len(head)
          <6>1. Len(head) = Len(h) + Len(eol)
            BY <4>3, <5>1
          <6>2. Len(head) \in Nat /\ i <= Len(head)
            BY <2>5, <4>1, <6>1
          <6>3. QED  BY <2>5, <4>1, <6>2
        <5>3. (head \o r.body)[i] = head[i]
          BY <5>2, RequestsAssumption, ConcatProperties DEF Messages
        <5>4. QED  BY <5>1, <5>3
      <4>5. QED  BY <2>6, <4>2, <4>3, <4>4
    <3>2. Scan(m, 0).header_end = 0
      BY <2>5, <2>7, <3>1, NoEmptyLine
    <3>3. request.cursor = PARSE_COMPLETE
      BY <1>1 DEF Ready
    <3>4. Empty.cursor = 0 /\ IsRequest(Empty)
      BY DEF Empty, IsRequest
    <3>5. request = Parsed(Empty, m)
      BY <1>1, <2>2, <3>3, <3>4 DEF ParserInv, ChunksLeaveNoTrace, PARSE_COMPLETE
    <3>6. PICK found : found = Scan(m, 0)
      OBVIOUS
    <3>7. found.cursor \in 0..Len(m)
      BY <2>5, <3>6, ScanTyped
    <3>8. request = AddLines([Empty EXCEPT !.cursor = found.cursor], found.parts)
      BY <3>2, <3>4, <3>5, <3>6 DEF Parsed
    <3>9. request.cursor = found.cursor
      <4>1. PICK moved : moved = [Empty EXCEPT !.cursor = found.cursor]
        OBVIOUS
      <4>2. IsRequest(moved) /\ moved.cursor = found.cursor
        BY <3>4, <4>1, CursorSet
      <4>3. QED  BY <3>8, <4>1, <4>2, LinesAdded
    <3>10. QED  BY <3>3, <3>7, <3>9 DEF PARSE_COMPLETE
  <2>8. CASE ~(Len(m) <= Len(h))
    BY <2>2, <2>5, <2>6, <2>8
  <2>9. QED  BY <2>7, <2>8
<1>2. ParserInv => NeverReadyEarly
  BY <1>1 DEF NeverReadyEarly
<1>3. QED  BY <1>2, ParserInvariant, PTL
-----------------------------------------------------------------------------
(***************************************************************************)
(* What a call finds in a whole head.                                      *)
(***************************************************************************)

\* From offset k on there is a line with its terminator, and no LF that a CR
\* on its own would swallow.
LineAt(m, k, line, eol) ==
    /\ k + Len(line) + Len(eol) <= Len(m)
    /\ \A j \in 1..Len(line) : m[k + j] = line[j]
    /\ \A j \in 1..Len(eol) : m[k + Len(line) + j] = eol[j]
    /\ eol = <<"CR">> /\ k + Len(line) + 1 < Len(m) => m[k + Len(line) + 2] # "LF"

\* The line is the next one the loop cuts off.
LEMMA LineFound ==
    ASSUME NEW eol \in LineEnds, NEW m \in Messages, NEW k \in 0..Len(m),
           NEW line \in Seq(Words), LineAt(m, k, line, eol)
    PROVE  /\ EndsFrom(m, k) # {}
           /\ Min(EndsFrom(m, k)) = k + Len(line)
           /\ Behind(m, k) = k + Len(line) + Len(eol)
           /\ k \in EndsFrom(m, k) <=> line = <<>>
<1>1. /\ Len(m) \in Nat /\ k \in Nat /\ Len(line) \in Nat
      /\ \A j \in 1..Len(line) : line[j] \notin {"CR", "LF"}
      /\ line = <<>> <=> Len(line) = 0
  BY LengthOfMessage DEF Words
<1>2. PICK e \in Nat : e = k + Len(line)
  BY <1>1
<1>3. Len(eol) \in {1, 2} /\ e + Len(eol) <= Len(m) /\ e \in 0..(Len(m) - 1)
  BY <1>1, <1>2, TerminatorTyped DEF LineAt
<1>4. m[e + 1] = eol[1]
  <2>1. 1 \in 1..Len(eol)
    BY <1>3, TerminatorTyped
  <2>2. QED  BY <1>2, <2>1 DEF LineAt
<1>5. TerminatorSize(m, e) = Len(eol)
  <2>1. CASE Len(eol) = 2
    <3>1. 2 \in 1..Len(eol)
      BY <2>1
    <3>2. m[e + 2] = eol[2]
      BY <1>2, <3>1 DEF LineAt
    <3>3. QED  BY <1>3, <1>4, <2>1, <3>2, TerminatorTyped DEF TerminatorSize
  <2>2. CASE Len(eol) = 1
    <3>1. Len(<<"CR", "LF">>) = 2 /\ <<"LF">>[1] = "LF"
      OBVIOUS
    <3>2. eol = <<"CR">> \/ eol[1] = "LF"
      BY <2>2, <3>1, LineEndsAssumption
    <3>3. eol = <<"CR">> /\ e + 2 <= Len(m) => m[e + 2] # "LF"
      BY <1>1, <1>2 DEF LineAt
    <3>4. ~(e + 2 <= Len(m) /\ m[e + 1] = "CR" /\ m[e + 2] = "LF")
      BY <1>4, <3>2, <3>3
    <3>5. QED  BY <1>4, <2>2, <3>4, TerminatorTyped DEF TerminatorSize
  <2>3. QED  BY <1>3, <2>1, <2>2
<1>6. e \in EndsFrom(m, k)
  BY <1>1, <1>2, <1>3, <1>5 DEF EndsFrom
<1>7. PICK first : first = Min(EndsFrom(m, k))
  OBVIOUS
<1>8. /\ first \in EndsFrom(m, k)
      /\ first <= e
      /\ first \in k..(Len(m) - 1)
  BY <1>6, <1>7, FirstEnd
<1>9. first = e
  <2>1. first \in 0..(Len(m) - 1) /\ m[first + 1] \in {"CR", "LF"}
    BY <1>1, <1>8, TerminatorInside DEF EndsFrom
  <2>2. ASSUME first < e
        PROVE  FALSE
    <3>1. first + 1 - k \in 1..Len(line) /\ k + (first + 1 - k) = first + 1
      BY <1>1, <1>2, <1>8, <2>2
    <3>2. m[first + 1] = line[first + 1 - k]
      BY <3>1 DEF LineAt
    <3>3. QED  BY <1>1, <2>1, <3>1, <3>2
  <2>3. QED  BY <1>2, <1>8, <2>1, <2>2
<1>10. k \in EndsFrom(m, k) <=> line = <<>>
  <2>1. k \in EndsFrom(m, k) => first <= k
    BY <1>7, FirstEnd
  <2>2. QED  BY <1>1, <1>2, <1>6, <1>9, <2>1
<1>11. QED  BY <1>2, <1>5, <1>6, <1>7, <1>9, <1>10 DEF Behind

\* A line that is not empty goes before what the loop finds behind it ...
LEMMA LineScanned ==
    ASSUME NEW eol \in LineEnds, NEW m \in Messages, NEW k \in 0..Len(m),
           NEW line \in Seq(Words), LineAt(m, k, line, eol), line # <<>>,
           NEW next, next = k + Len(line) + Len(eol)
    PROVE  /\ Scan(m, k).parts = <<line>> \o Scan(m, next).parts
           /\ Scan(m, k).header_end = Scan(m, next).header_end
<1>1. PICK scan : /\ DOMAIN scan = 0..Len(m)
                  /\ \A l \in 0..Len(m) : scan[l] = Found(m, scan, l)
                  /\ \A l \in 0..Len(m) : Scan(m, l) = scan[l]
  BY ScanDefined
<1>2. /\ Len(m) \in Nat /\ k \in Nat /\ Len(line) \in Nat /\ Len(eol) \in {1, 2}
      /\ k + Len(line) + Len(eol) <= Len(m)
  BY LengthOfMessage, TerminatorTyped DEF LineAt
<1>3. PICK behind \in 0..Len(m) : behind = next
  BY <1>2
<1>4. /\ EndsFrom(m, k) # {}
      /\ Min(EndsFrom(m, k)) = k + Len(line)
      /\ Behind(m, k) = behind
      /\ k \notin EndsFrom(m, k)
  BY <1>3, LineFound
<1>5. PICK last \in Nat : last = k + Len(line)
  BY <1>2
<1>6. SubSeq(m, k + 1, last) = line
  <2>1. \A i \in (k + 1)..last : m[i] \in Symbols
    BY <1>2, <1>5 DEF Messages
  <2>2. PICK cut : cut = SubSeq(m, k + 1, last)
    OBVIOUS
  <2>3. /\ cut \in Seq(Symbols)
        /\ Len(cut) = Len(line)
        /\ \A i \in 1..Len(cut) : cut[i] = line[i]
    <3>1. k + 1 \in Int /\ last \in Int
      BY <1>2, <1>5
    <3>2. /\ cut \in Seq(Symbols)
          /\ Len(cut) = IF k + 1 <= last THEN last - (k + 1) + 1 ELSE 0
          /\ \A i \in 1..(last - (k + 1) + 1) : cut[i] = m[(k + 1) + i - 1]
      BY <2>1, <2>2, <3>1, SubSeqProperties
    <3>3. Len(cut) = Len(line) /\ last - (k + 1) + 1 = Len(line)
      BY <1>2, <1>5, <3>2
    <3>4. \A i \in 1..Len(line) : (k + 1) + i - 1 = k + i
      BY <1>2
    <3>5. QED  BY <3>2, <3>3, <3>4 DEF LineAt
  <2>4. line \in Seq(Symbols)
    BY DEF Words
  <2>5. QED  BY <2>2, <2>3, <2>4, SeqEqual
<1>7. scan[k] = [scan[behind] EXCEPT !.parts = <<line>> \o @]
  BY <1>1, <1>4, <1>5, <1>6 DEF Found
<1>8. scan[behind] \in [parts : Seq(Messages), cursor : 0..Len(m), header_end : 0..Len(m)]
  BY <1>1, ScanTyped
<1>9. QED  BY <1>1, <1>3, <1>7, <1>8

\* ... and an empty one ends the loop.
LEMMA EmptyLineScanned ==
    ASSUME NEW eol \in LineEnds, NEW m \in Messages, NEW k \in 0..Len(m),
           LineAt(m, k, <<>>, eol)
    PROVE  Scan(m, k).parts = <<>> /\ Scan(m, k).header_end = k + Len(eol)
<1>1. PICK scan : /\ DOMAIN scan = 0..Len(m)
                  /\ \A l \in 0..Len(m) : scan[l] = Found(m, scan, l)
                  /\ \A l \in 0..Len(m) : Scan(m, l) = scan[l]
  BY ScanDefined
<1>2. PICK line \in Seq(Words) : line = <<>> /\ Len(line) = 0
  BY EmptySeq
<1>3. PICK next : next = k + Len(eol)
  OBVIOUS
<1>4. EndsFrom(m, k) # {} /\ k \in EndsFrom(m, k) /\ Behind(m, k) = next
  <2>1. k + Len(line) + Len(eol) = next
    BY <1>2, <1>3, TerminatorTyped
  <2>2. LineAt(m, k, line, eol)
    BY <1>2
  <2>3. /\ EndsFrom(m, k) # {}
        /\ Behind(m, k) = k + Len(line) + Len(eol)
        /\ k \in EndsFrom(m, k) <=> line = <<>>
    BY <2>2, LineFound
  <2>4. QED  BY <1>2, <2>1, <2>3
<1>5. scan[k] = [parts |-> <<>>, cursor |-> k, header_end |-> next]
  BY <1>1, <1>4 DEF Found
<1>6. QED  BY <1>1, <1>3, <1>5

\* Where the symbols of a concatenation come from.
LEMMA Joined ==
  \A a, c \in Seq(Symbols) :
      /\ a \o c \in Seq(Symbols)
      /\ Len(a) \in Nat /\ Len(c) \in Nat /\ Len(a \o c) = Len(a) + Len(c)
      /\ \A j \in 1..Len(a) : (a \o c)[j] = a[j]
      /\ \A j \in 1..Len(c) : (a \o c)[Len(a) + j] = c[j]
<1> SUFFICES ASSUME NEW a \in Seq(Symbols), NEW c \in Seq(Symbols)
             PROVE  /\ a \o c \in Seq(Symbols)
                    /\ Len(a) \in Nat /\ Len(c) \in Nat /\ Len(a \o c) = Len(a) + Len(c)
                    /\ \A j \in 1..Len(a) : (a \o c)[j] = a[j]
                    /\ \A j \in 1..Len(c) : (a \o c)[Len(a) + j] = c[j]
  OBVIOUS
<1>1. QED  BY ConcatProperties

LEMMA Sums ==
  \A x, y, z \in Nat :
      x = y + z => /\ y <= x
                   /\ \A w \in Nat : x <= w => y <= w
                   /\ \A j \in 1..y : j \in 1..x
                   /\ \A j \in 1..z : y + j \in 1..x
  OBVIOUS

\* What the beginnings of a concatenation have to do with the whole of it.
Parts(p, seqs) ==
    LET whole == p[Len(seqs)]
    IN  /\ \A i \in 0..Len(seqs) : Len(p[i]) \in 0..Len(whole)
        /\ \A i \in 1..Len(seqs) :
               /\ Len(p[i]) = Len(p[i - 1]) + Len(seqs[i])
               /\ \A j \in 1..Len(seqs[i]) : whole[Len(p[i - 1]) + j] = seqs[i][j]

LEMMA PartOfWhole ==
    ASSUME NEW seqs \in Seq(Messages), NEW p, Beginnings(p, seqs)
    PROVE  Parts(p, seqs)
<1> DEFINE whole == p[Len(seqs)]
           Within(i) == Len(p[i]) <= Len(whole) /\ \A j \in 1..Len(p[i]) : whole[j] = p[i][j]
           Done == {n \in Nat : n <= Len(seqs) => Within(Len(seqs) - n)}
<1>1. \A i \in 0..Len(seqs) : p[i] \in Seq(Symbols) /\ Len(p[i]) \in Nat
  BY DEF Beginnings, Messages
<1>2. \A i \in 1..Len(seqs) : i - 1 \in 0..Len(seqs) /\ i \in 0..Len(seqs)
  OBVIOUS
<1>3. ASSUME NEW i \in 1..Len(seqs), NEW l \in 0..Len(seqs), l = i - 1
      PROVE  /\ Len(seqs[i]) \in Nat
             /\ Len(p[i]) = Len(p[l]) + Len(seqs[i])
             /\ \A j \in 1..Len(p[l]) : p[i][j] = p[l][j]
             /\ \A j \in 1..Len(seqs[i]) : p[i][Len(p[l]) + j] = seqs[i][j]
  <2>1. p[i] = p[l] \o seqs[i]
    BY <1>3 DEF Beginnings
  <2>2. PICK a \in Seq(Symbols), c \in Seq(Symbols) : a = p[l] /\ c = seqs[i]
    BY <1>1 DEF Messages
  <2>3. p[i] = a \o c
    BY <2>1, <2>2
  <2>4. /\ Len(c) \in Nat
        /\ Len(a \o c) = Len(a) + Len(c)
        /\ \A j \in 1..Len(a) : (a \o c)[j] = a[j]
        /\ \A j \in 1..Len(c) : (a \o c)[Len(a) + j] = c[j]
    BY Joined
  <2>5. QED  BY <2>2, <2>3, <2>4, Zenon
<1>4. ASSUME NEW i \in 1..Len(seqs), NEW l \in 0..Len(seqs), l = i - 1, Within(i)
      PROVE  Within(l)
  <2>1. Len(p[l]) \in Nat /\ Len(p[i]) \in Nat /\ Len(whole) \in Nat /\ Len(seqs[i]) \in Nat
    BY <1>1, <1>2, <1>3, <1>4
  <2>2. Len(p[l]) <= Len(p[i]) /\ Len(p[l]) <= Len(whole)
    <3>1. Len(p[i]) = Len(p[l]) + Len(seqs[i]) /\ Len(p[i]) <= Len(whole)
      BY <1>3, <1>4
    <3>2. QED  BY <2>1, <3>1, Sums, Zenon
  <2>3. ASSUME NEW j \in 1..Len(p[l])
        PROVE  whole[j] = p[l][j]
    <3>1. j \in 1..Len(p[i])
      <4>1. Len(p[i]) = Len(p[l]) + Len(seqs[i])
        BY <1>3, <1>4
      <4>2. QED  BY <2>1, <4>1, Sums, Zenon
    <3>2. QED  BY <1>3, <1>4, <3>1
  <2>4. QED  BY <2>2, <2>3
<1>5. 0 \in Done
  <2>1. Within(Len(seqs))
    BY <1>1
  <2> HIDE DEF Within
  <2>2. QED  BY <2>1
<1>6. ASSUME NEW n \in Nat, n \in Done
      PROVE  n + 1 \in Done
  <2>1. ASSUME n + 1 <= Len(seqs)
        PROVE  Within(Len(seqs) - (n + 1))
    <3>1. PICK i \in 1..Len(seqs), l \in 0..Len(seqs) : i = Len(seqs) - n /\ l = i - 1
      <4>1. Len(seqs) - n \in 1..Len(seqs) /\ (Len(seqs) - n) - 1 \in 0..Len(seqs)
        BY <2>1
      <4>2. QED  BY <4>1
    <3>2. Within(i) /\ l = Len(seqs) - (n + 1)
      <4> HIDE DEF Within
      <4>1. QED  BY <1>6, <2>1, <3>1
    <3> HIDE DEF Within
    <3>3. QED  BY <1>4, <3>1, <3>2
  <2> HIDE DEF Within
  <2>2. QED  BY <2>1
<1>7. ASSUME NEW i \in 0..Len(seqs)
      PROVE  Within(i)
  <2>1. Nat \subseteq Done
    <3> HIDE DEF Done
    <3>1. QED  BY <1>5, <1>6, AllNumbers
  <2>2. Len(seqs) - i \in Nat /\ Len(seqs) - (Len(seqs) - i) = i /\ Len(seqs) - i <= Len(seqs)
    OBVIOUS
  <2> HIDE DEF Within
  <2>3. QED  BY <2>1, <2>2
<1>8. ASSUME NEW i \in 0..Len(seqs)
      PROVE  Len(p[i]) \in 0..Len(whole)
  <2>1. Len(seqs) \in 0..Len(seqs)
    OBVIOUS
  <2>2. QED  BY <1>1, <1>7, <2>1
<1>9. ASSUME NEW i \in 1..Len(seqs), NEW l \in 0..Len(seqs), l = i - 1,
             NEW j \in 1..Len(seqs[i])
      PROVE  whole[Len(p[l]) + j] = seqs[i][j]
  <2>1. Len(p[l]) + j \in 1..Len(p[i])
    <3>1. /\ Len(p[i]) = Len(p[l]) + Len(seqs[i])
          /\ Len(p[i]) \in Nat /\ Len(p[l]) \in Nat /\ Len(seqs[i]) \in Nat
      BY <1>1, <1>2, <1>3, <1>9
    <3>2. QED  BY <3>1, Sums, Zenon
  <2>2. whole[Len(p[l]) + j] = p[i][Len(p[l]) + j]
    BY <1>2, <1>7, <2>1
  <2>3. QED  BY <1>3, <1>9, <2>2
<1>10. ASSUME NEW i \in 1..Len(seqs)
       PROVE  /\ Len(p[i]) = Len(p[i - 1]) + Len(seqs[i])
              /\ \A j \in 1..Len(seqs[i]) : whole[Len(p[i - 1]) + j] = seqs[i][j]
  <2>1. PICK l \in 0..Len(seqs) : l = i - 1
    BY <1>2
  <2>2. QED  BY <1>3, <1>9, <2>1
<1>11. QED  BY <1>8, <1>10, Zenon DEF Parts

\* The lines of the headers, without and with their terminators.
HeaderLines(r) == [i \in DOMAIN r.headers |-> <<r.headers[i][1], ":", "SP">> \o r.headers[i][2]]
EndedLines(r, eol) ==
    [i \in DOMAIN r.headers |-> <<r.headers[i][1], ":", "SP">> \o r.headers[i][2] \o eol]

LEMMA HeaderLine ==
    ASSUME NEW r \in Requests, NEW i \in DOMAIN r.headers
    PROVE  LET line == HeaderLines(r)[i]
           IN  /\ r.headers[i][1] \in Words /\ r.headers[i][2] \in Seq(Words)
               /\ line \in Seq(Words) /\ line # <<>>
               /\ Len(line) = Len(r.headers[i][2]) + 3
               /\ line[1] = r.headers[i][1] /\ line[2] = ":" /\ line[3] = "SP"
               /\ \A j \in 1..Len(r.headers[i][2]) : line[j + 3] = r.headers[i][2][j]
<1>1. r.headers[i] \in Words \X Seq(Words)
  BY RequestsAssumption
<1>2. PICK name \in Words, value \in Seq(Words) : r.headers[i][1] = name /\ r.headers[i][2] = value
  BY <1>1
<1>3. ":" \in Words /\ "SP" \in Words
  BY SymbolsAssumption DEF Words
<1>4. PICK start : start = <<name, ":", "SP">>
  OBVIOUS
<1>5. /\ start \in Seq(Words) /\ Len(start) = 3
      /\ start[1] = name /\ start[2] = ":" /\ start[3] = "SP"
  <2>1. \A a, b, c \in Words : /\ <<a, b, c>> \in Seq(Words) /\ Len(<<a, b, c>>) = 3
                               /\ <<a, b, c>>[1] = a /\ <<a, b, c>>[2] = b /\ <<a, b, c>>[3] = c
    OBVIOUS
  <2>2. QED  BY <1>3, <1>4, <2>1
<1>6. PICK line : line = start \o value
  OBVIOUS
<1>7. /\ line \in Seq(Words) /\ Len(line) = Len(start) + Len(value) /\ Len(value) \in Nat
      /\ \A j \in 1..(Len(start) + Len(value)) :
             line[j] = IF j <= Len(start) THEN start[j] ELSE value[j - Len(start)]
  <2>1. start \in Seq(Words) /\ value \in Seq(Words)
    BY <1>5
  <2>2. QED  BY <1>6, <2>1, ConcatProperties
<1>8. /\ line[1] = name /\ line[2] = ":" /\ line[3] = "SP"
      /\ \A j \in 1..Len(value) : line[j + 3] = value[j]
  BY <1>5, <1>7
<1>9. HeaderLines(r)[i] = line
  BY <1>2, <1>4, <1>6 DEF HeaderLines
<1>10. line # <<>>
  BY <1>5, <1>7, EmptySeq
<1>11. QED  BY <1>2, <1>5, <1>7, <1>8, <1>9, <1>10

LEMMA LinesOfHeaders ==
    ASSUME NEW r \in Requests, NEW eol \in LineEnds
    PROVE  /\ Len(r.headers) \in Nat /\ DOMAIN r.headers = 1..Len(r.headers)
           /\ HeaderLines(r) \in Seq(Seq(Words)) /\ Len(HeaderLines(r)) = Len(r.headers)
           /\ EndedLines(r, eol) \in Seq(Messages) /\ Len(EndedLines(r, eol)) = Len(r.headers)
           /\ \A i \in DOMAIN r.headers : EndedLines(r, eol)[i] = HeaderLines(r)[i] \o eol
<1>1. PICK n \in Nat : DOMAIN r.headers = 1..n /\ Len(r.headers) = n
  <2>1. r.headers \in Seq(Words \X Seq(Words))
    BY RequestsAssumption
  <2>2. QED  BY <2>1
<1>2. \A i \in 1..n : EndedLines(r, eol)[i] = HeaderLines(r)[i] \o eol
  BY <1>1 DEF EndedLines, HeaderLines
<1>3. \A i \in 1..n : HeaderLines(r)[i] \in Seq(Words)
  BY <1>1, HeaderLine
<1>4. ASSUME NEW i \in 1..n
      PROVE  EndedLines(r, eol)[i] \in Messages
  <2>1. HeaderLines(r)[i] \in Seq(Symbols) /\ eol \in Seq(Symbols)
    BY <1>3, TerminatorTyped DEF Words, Messages
  <2>2. QED  BY <1>2, <2>1, ConcatProperties DEF Messages
<1>5. HeaderLines(r) \in Seq(Seq(Words)) /\ Len(HeaderLines(r)) = n
  <2>1. HeaderLines(r) \in [1..n -> Seq(Words)]
    BY <1>1, <1>3 DEF HeaderLines
  <2>2. QED  BY <2>1
<1>6. EndedLines(r, eol) \in Seq(Messages) /\ Len(EndedLines(r, eol)) = n
  <2>1. EndedLines(r, eol) \in [1..n -> Messages]
    BY <1>1, <1>4 DEF EndedLines
  <2>2. QED  BY <2>1
<1>7. QED  BY <1>1, <1>2, <1>5, <1>6

\* Where the lines of a request stand in the message m: the i-th header line
\* behind offset at[i], and the empty line behind the last offset.
Layout(r, eol, m, at) ==
    LET count == Len(r.headers)
        lines == HeaderLines(r)
        head  == Len(HeadBytes(r, eol))
    IN  /\ at \in [1..(count + 1) -> 0..head]
        /\ at[1] = Len(r.line) + Len(eol) /\ at[count + 1] = head
        /\ Len(m) = head + Len(eol) + Len(r.body)
        /\ \A j \in 1..Len(r.line) : m[j] = r.line[j]
        /\ \A j \in 1..Len(eol) : m[Len(r.line) + j] = eol[j]
        /\ \A i \in 1..count :
              /\ at[i + 1] = at[i] + Len(lines[i]) + Len(eol)
              /\ \A j \in 1..Len(lines[i]) : m[at[i] + j] = lines[i][j]
              /\ \A j \in 1..Len(eol) : m[at[i] + Len(lines[i]) + j] = eol[j]
        /\ \A j \in 1..Len(eol) : m[head + j] = eol[j]
        /\ \A j \in 1..Len(r.body) : m[head + Len(eol) + j] = r.body[j]

LEMMA HasLayout ==
    ASSUME NEW r \in Requests, NEW eol \in LineEnds
    PROVE  \E at : Layout(r, eol, Marshal(r, eol), at)
<1>1. PICK count \in Nat : count = Len(r.headers) /\ DOMAIN r.headers = 1..count
  BY LinesOfHeaders
<1>2. PICK ended \in Seq(Messages) : ended = EndedLines(r, eol) /\ Len(ended) = count
  BY <1>1, LinesOfHeaders
<1>3. PICK p : Beginnings(p, ended)
  BY HasBeginnings
<1>4. PICK flat \in Seq(Symbols) : flat = p[count] /\ flat = FlattenSeq(ended)
  <2>1. count \in 0..Len(ended)
    BY <1>2
  <2>2. p[count] \in Seq(Symbols)
    BY <1>3, <2>1 DEF Beginnings, Messages
  <2>3. QED  BY <1>2, <1>3, <2>2, FlattenedByParts
<1>5. /\ r.line \in Seq(Symbols) /\ r.body \in Seq(Symbols) /\ eol \in Seq(Symbols)
      /\ Len(r.line) \in Nat /\ Len(r.body) \in Nat /\ Len(eol) \in Nat
  <2>1. r.line \in Seq(Symbols) /\ r.body \in Seq(Symbols) /\ eol \in Seq(Symbols)
    BY RequestsAssumption, TerminatorTyped DEF Words, Messages
  <2>2. QED  BY <2>1, LenProperties
<1>6. PICK start \in Seq(Symbols) : start = r.line \o eol
  BY <1>5, ConcatProperties
<1>7. PICK h \in Seq(Symbols) : h = start \o flat
  BY ConcatProperties
<1>8. PICK top \in Seq(Symbols) : top = h \o eol
  BY <1>5, ConcatProperties
<1>9. PICK m \in Seq(Symbols) : m = top \o r.body
  BY <1>5, ConcatProperties
<1>10. HeadBytes(r, eol) = h /\ Marshal(r, eol) = m
  BY <1>2, <1>4, <1>6, <1>7, <1>8, <1>9 DEF HeadBytes, Marshal, EndedLines
<1>11. /\ Len(start) = Len(r.line) + Len(eol) /\ Len(flat) \in Nat
       /\ Len(h) = Len(start) + Len(flat)
       /\ Len(top) = Len(h) + Len(eol)
       /\ Len(m) = Len(top) + Len(r.body)
  BY <1>5, <1>6, <1>7, <1>8, <1>9, Joined
<1>12. /\ \A j \in 1..Len(r.line) : start[j] = r.line[j]
       /\ \A j \in 1..Len(eol) : start[Len(r.line) + j] = eol[j]
  BY <1>5, <1>6, Joined
<1>13. /\ \A j \in 1..Len(start) : h[j] = start[j]
       /\ \A j \in 1..Len(flat) : h[Len(start) + j] = flat[j]
  BY <1>7, Joined
<1>14. /\ \A j \in 1..Len(h) : top[j] = h[j]
       /\ \A j \in 1..Len(eol) : top[Len(h) + j] = eol[j]
  BY <1>5, <1>8, Joined
<1>15. /\ \A j \in 1..Len(top) : m[j] = top[j]
       /\ \A j \in 1..Len(r.body) : m[Len(top) + j] = r.body[j]
  BY <1>5, <1>9, Joined
<1>16. PICK nl \in Nat, ne \in Nat, nb \in Nat, nf \in Nat :
          nl = Len(r.line) /\ ne = Len(eol) /\ nb = Len(r.body) /\ nf = Len(flat)
  BY <1>5, <1>11
<1>17. /\ Len(start) = nl + ne /\ Len(h) = nl + ne + nf
       /\ Len(top) = nl + ne + nf + ne /\ Len(m) = nl + ne + nf + ne + nb
  BY <1>11, <1>16
<1>18. \A j \in 1..(nl + ne) : m[j] = start[j]
  <2>1. \A j \in 1..(nl + ne) : j \in 1..(nl + ne + nf) /\ j \in 1..(nl + ne + nf + ne)
    OBVIOUS
  <2>2. QED  BY <1>13, <1>14, <1>15, <1>17, <2>1
<1>19. \A j \in 1..nf : m[nl + ne + j] = flat[j]
  <2>1. \A j \in 1..nf : nl + ne + j \in 1..(nl + ne + nf) /\ nl + ne + j \in 1..(nl + ne + nf + ne)
    OBVIOUS
  <2>2. ASSUME NEW j \in 1..nf
        PROVE  m[nl + ne + j] = flat[j]
    <3>1. PICK k \in Nat : k = nl + ne + j
      OBVIOUS
    <3>2. k \in 1..Len(h) /\ k \in 1..Len(top) /\ k = Len(start) + j
      BY <1>17, <2>1, <3>1
    <3>3. h[k] = flat[j]
      BY <1>13, <1>16, <3>2
    <3>4. QED  BY <1>14, <1>15, <3>1, <3>2, <3>3
  <2>3. QED  BY <2>2
<1>20. \A j \in 1..ne : m[nl + ne + nf + j] = eol[j]
  <2>1. \A j \in 1..ne : nl + ne + nf + j \in 1..(nl + ne + nf + ne)
    OBVIOUS
  <2>2. ASSUME NEW j \in 1..ne
        PROVE  m[nl + ne + nf + j] = eol[j]
    <3>1. PICK k \in Nat : k = nl + ne + nf + j
      OBVIOUS
    <3>2. k \in 1..Len(top) /\ k = Len(h) + j
      BY <1>17, <2>1, <3>1
    <3>3. top[k] = eol[j]
      BY <1>14, <1>16, <3>2
    <3>4. QED  BY <1>15, <3>1, <3>2, <3>3
  <2>3. QED  BY <2>2
<1>21. \A j \in 1..nb : m[nl + ne + nf + ne + j] = r.body[j]
  BY <1>15, <1>16, <1>17
<1>22. /\ \A j \in 1..nl : m[j] = r.line[j]
       /\ \A j \in 1..ne : m[nl + j] = eol[j]
  <2>1. \A j \in 1..nl : j \in 1..(nl + ne)
    OBVIOUS
  <2>2. \A j \in 1..ne : nl + j \in 1..(nl + ne)
    OBVIOUS
  <2>3. QED  BY <1>12, <1>16, <1>18, <2>1, <2>2
<1>23. PICK at : at = [i \in 1..(count + 1) |-> nl + ne + Len(p[i - 1])]
  OBVIOUS
<1>24. /\ \A i \in 0..count : Len(p[i]) \in 0..nf
       /\ \A i \in 1..count :
              /\ Len(p[i]) = Len(p[i - 1]) + Len(ended[i])
              /\ \A j \in 1..Len(ended[i]) : flat[Len(p[i - 1]) + j] = ended[i][j]
  <2>1. Parts(p, ended)
    BY <1>3, PartOfWhole
  <2>2. p[Len(ended)] = flat /\ Len(ended) = count /\ Len(flat) = nf
    BY <1>2, <1>4, <1>16
  <2>3. QED  BY <2>1, <2>2, Zenon DEF Parts
<1>25. at \in [1..(count + 1) -> 0..(nl + ne + nf)]
  <2>1. ASSUME NEW i \in 1..(count + 1)
        PROVE  nl + ne + Len(p[i - 1]) \in 0..(nl + ne + nf)
    <3>1. PICK l \in 0..count : l = i - 1
      OBVIOUS
    <3>2. PICK n \in 0..nf : n = Len(p[l])
      BY <1>24
    <3>3. nl + ne + n \in 0..(nl + ne + nf)
      OBVIOUS
    <3>4. QED  BY <3>1, <3>2, <3>3
  <2>2. QED  BY <1>23, <2>1
<1>26. at[1] = nl + ne /\ at[count + 1] = nl + ne + nf
  <2>1. 1 \in 1..(count + 1) /\ 1 - 1 = 0 /\ count + 1 \in 1..(count + 1) /\ (count + 1) - 1 = count
    OBVIOUS
  <2>2. Len(p[0]) = 0
    BY <1>3, EmptySeq DEF Beginnings
  <2>3. at[1] = nl + ne + Len(p[0]) /\ at[count + 1] = nl + ne + Len(p[count])
    BY <1>23, <2>1
  <2>4. Len(p[count]) = nf
    BY <1>4, <1>16
  <2>5. QED  BY <2>2, <2>3, <2>4
<1>27. ASSUME NEW i \in 1..count
       PROVE  LET line == HeaderLines(r)[i]
              IN  /\ at[i + 1] = at[i] + Len(line) + ne
                  /\ \A j \in 1..Len(line) : m[at[i] + j] = line[j]
                  /\ \A j \in 1..ne : m[at[i] + Len(line) + j] = eol[j]
  <2>1. PICK line \in Seq(Symbols) : line = HeaderLines(r)[i]
    <3>1. i \in DOMAIN r.headers
      BY <1>1
    <3>2. HeaderLines(r)[i] \in Seq(Words)
      BY <3>1, HeaderLine
    <3>3. QED  BY <3>2 DEF Words
  <2>2. ended[i] = line \o eol
    BY <1>1, <1>2, <2>1, LinesOfHeaders
  <2>3. PICK n \in Nat : n = Len(line)
    BY LenProperties
  <2>4. /\ Len(ended[i]) = n + ne
        /\ \A j \in 1..n : ended[i][j] = line[j]
        /\ \A j \in 1..ne : ended[i][n + j] = eol[j]
    BY <1>5, <1>16, <2>2, <2>3, Joined
  <2>5. PICK l \in 0..count : l = i - 1
    OBVIOUS
  <2>6. PICK o \in 0..nf : o = Len(p[l])
    BY <1>24
  <2>7. /\ Len(p[i]) = o + (n + ne)
        /\ \A j \in 1..(n + ne) : flat[o + j] = ended[i][j]
    BY <1>24, <2>4, <2>5, <2>6
  <2>8. PICK o2 \in 0..nf : o2 = Len(p[i]) /\ o2 = o + (n + ne)
    <3>1. i \in 0..count
      OBVIOUS
    <3>2. QED  BY <1>24, <2>7, <3>1
  <2>9. at[i] = nl + ne + o /\ at[i + 1] = nl + ne + o2
    <3>1. i \in 1..(count + 1) /\ i + 1 \in 1..(count + 1) /\ (i + 1) - 1 = i
      OBVIOUS
    <3>2. QED  BY <1>23, <2>5, <2>6, <2>8, <3>1
  <2>10. ASSUME NEW j \in 1..(n + ne)
         PROVE  m[at[i] + j] = ended[i][j]
    <3>1. o + j \in 1..nf /\ nl + ne + (o + j) = (nl + ne + o) + j
      BY <2>8
    <3>2. m[nl + ne + (o + j)] = flat[o + j]
      BY <1>19, <3>1
    <3>3. QED  BY <2>7, <2>9, <3>1, <3>2
  <2>11. \A j \in 1..n : m[at[i] + j] = line[j]
    <3>1. \A j \in 1..n : j \in 1..(n + ne)
      OBVIOUS
    <3>2. QED  BY <2>4, <2>10, <3>1
  <2>12. \A j \in 1..ne : m[at[i] + n + j] = eol[j]
    <3>1. \A j \in 1..ne : n + j \in 1..(n + ne) /\ at[i] + (n + j) = at[i] + n + j
      BY <2>9
    <3>2. QED  BY <2>4, <2>10, <3>1
  <2>13. at[i + 1] = at[i] + n + ne
    BY <2>8, <2>9
  <2>14. QED  BY <2>1, <2>3, <2>11, <2>12, <2>13
<1>28. Layout(r, eol, m, at)
  <2>1. PICK head \in Nat : head = Len(h) /\ head = nl + ne + nf
    BY <1>16, <1>17
  <2>2. at \in [1..(count + 1) -> 0..head] /\ at[1] = nl + ne /\ at[count + 1] = head
    BY <1>25, <1>26, <2>1
  <2>3. Len(m) = head + ne + nb
    BY <1>17, <2>1
  <2>4. /\ \A j \in 1..ne : m[head + j] = eol[j]
        /\ \A j \in 1..nb : m[head + ne + j] = r.body[j]
    BY <1>20, <1>21, <2>1
  <2>5. \A i \in 1..count :
          /\ at[i + 1] = at[i] + Len(HeaderLines(r)[i]) + ne
          /\ \A j \in 1..Len(HeaderLines(r)[i]) : m[at[i] + j] = HeaderLines(r)[i][j]
          /\ \A j \in 1..ne : m[at[i] + Len(HeaderLines(r)[i]) + j] = eol[j]
    BY <1>27
  <2>6. QED  BY <1>1, <1>10, <1>16, <1>22, <2>1, <2>2, <2>3, <2>4, <2>5, Zenon DEF Layout
<1>29. QED  BY <1>10, <1>28

\* Each line stands where the loop looks for it.
LEMMA LinesInPlace ==
    ASSUME NEW r \in Requests, NEW eol \in LineEnds,
           NEW m \in Messages, NEW at, Layout(r, eol, m, at),
           ~(eol = <<"CR">> /\ r.body # <<>> /\ r.body[1] = "LF")
    PROVE  /\ LineAt(m, 0, r.line, eol)
           /\ \A i \in 1..Len(r.headers) : LineAt(m, at[i], HeaderLines(r)[i], eol)
           /\ LineAt(m, Len(HeadBytes(r, eol)), <<>>, eol)
<1>1. PICK count \in Nat : count = Len(r.headers) /\ DOMAIN r.headers = 1..count
  BY LinesOfHeaders
<1>2. PICK lines : lines = HeaderLines(r)
  OBVIOUS
<1>3. PICK ne \in Nat : ne = Len(eol) /\ ne \in 1..2
  <2>1. Len(eol) = 1 \/ Len(eol) = 2
    BY TerminatorTyped
  <2>2. CASE Len(eol) = 1
    BY <2>2
  <2>3. CASE Len(eol) = 2
    BY <2>3
  <2>4. QED  BY <2>1, <2>2, <2>3
<1>4. PICK nl \in Nat, nb \in Nat : nl = Len(r.line) /\ nb = Len(r.body)
  BY RequestsAssumption, LenProperties
<1>5. PICK head \in Nat : head = Len(HeadBytes(r, eol))
  BY HeadLined, LengthOfMessage DEF Lined
<1>6. PICK size \in Nat : size = Len(m)
  BY LengthOfMessage
<1>7. /\ at \in [1..(count + 1) -> 0..head]
      /\ at[1] = nl + ne /\ at[count + 1] = head
      /\ size = head + ne + nb
      /\ \A j \in 1..nl : m[j] = r.line[j]
      /\ \A j \in 1..ne : m[nl + j] = eol[j]
      /\ \A i \in 1..count :
            /\ at[i + 1] = at[i] + Len(lines[i]) + ne
            /\ \A j \in 1..Len(lines[i]) : m[at[i] + j] = lines[i][j]
            /\ \A j \in 1..ne : m[at[i] + Len(lines[i]) + j] = eol[j]
      /\ \A j \in 1..ne : m[head + j] = eol[j]
      /\ \A j \in 1..nb : m[head + ne + j] = r.body[j]
  BY <1>1, <1>2, <1>3, <1>4, <1>5, <1>6, Zenon DEF Layout
<1>8. eol = <<"CR">> => ne = 1 /\ eol[1] = "CR"
  BY <1>3
<1>9. ASSUME NEW i \in 1..(count + 1), eol = <<"CR">>
      PROVE  m[at[i] + 1] # "LF"
  <2>1. CASE i \in 1..count
    <3>1. lines[i] \in Seq(Words) /\ lines[i] # <<>>
      BY <1>1, <1>2, <2>1, HeaderLine
    <3>2. 1 \in 1..Len(lines[i]) /\ lines[i][1] \notin {"CR", "LF"}
      <4>1. PICK line \in Seq(Words) : line = lines[i] /\ line # <<>>
        BY <3>1
      <4>2. Len(line) \in Nat \ {0}
        BY <4>1, EmptySeq
      <4>3. 1 \in 1..Len(line) /\ line[1] \in Words
        BY <4>2, ElementOfSeq
      <4>4. QED  BY <4>1, <4>3 DEF Words
    <3>3. m[at[i] + 1] = lines[i][1]
      BY <1>7, <2>1, <3>2
    <3>4. QED  BY <3>2, <3>3
  <2>2. CASE i = count + 1
    <3>1. 1 \in 1..ne /\ at[i] = head
      BY <1>3, <1>7, <2>2
    <3>2. m[at[i] + 1] = eol[1]
      BY <1>7, <3>1
    <3>3. QED  BY <1>8, <1>9, <3>2
  <2>3. QED  BY <2>1, <2>2
<1>10. LineAt(m, 0, r.line, eol)
  <2>1. at[1] \in 0..head
    BY <1>7
  <2>2. 0 + nl + ne <= size
    BY <1>7, <2>1
  <2>3. \A j \in 1..nl : m[0 + j] = r.line[j]
    BY <1>7
  <2>4. \A j \in 1..ne : m[0 + nl + j] = eol[j]
    BY <1>7
  <2>5. eol = <<"CR">> => m[0 + nl + 2] # "LF"
    <3>1. eol = <<"CR">> => at[1] + 1 = 0 + nl + 2
      BY <1>7, <1>8
    <3>2. 1 \in 1..(count + 1)
      OBVIOUS
    <3>3. QED  BY <1>9, <3>1, <3>2
  <2>6. QED  BY <1>3, <1>4, <1>6, <2>2, <2>3, <2>4, <2>5, Zenon DEF LineAt
<1>11. ASSUME NEW i \in 1..count
       PROVE  LineAt(m, at[i], lines[i], eol)
  <2>1. PICK n \in Nat : n = Len(lines[i])
    BY <1>1, <1>2, HeaderLine, LenProperties
  <2>2. PICK a \in Nat, z \in 0..head : a = at[i] /\ z = at[i + 1]
    BY <1>7
  <2>3. z = a + n + ne
    BY <1>7, <2>1, <2>2
  <2>4. a + n + ne <= size
    BY <1>7, <2>2, <2>3
  <2>5. eol = <<"CR">> => m[a + n + 2] # "LF"
    <3>1. eol = <<"CR">> => z + 1 = a + n + 2
      BY <1>8, <2>3
    <3>2. i + 1 \in 1..(count + 1)
      OBVIOUS
    <3>3. QED  BY <1>9, <2>2, <3>1, <3>2
  <2>6. /\ \A j \in 1..n : m[a + j] = lines[i][j]
        /\ \A j \in 1..ne : m[a + n + j] = eol[j]
    BY <1>7, <2>1, <2>2
  <2>7. QED  BY <1>3, <1>6, <2>1, <2>2, <2>4, <2>5, <2>6, Zenon DEF LineAt
<1>12. LineAt(m, head, <<>>, eol)
  <2>1. PICK line \in Seq(Words) : line = <<>> /\ Len(line) = 0
    BY EmptySeq
  <2>2. head + 0 + ne <= size
    BY <1>7
  <2>3. \A j \in 1..ne : m[head + 0 + j] = eol[j]
    BY <1>7
  <2>4. ASSUME eol = <<"CR">>, head + 0 + 1 < size
        PROVE  m[head + 0 + 2] # "LF"
    <3>1. 1 \in 1..nb /\ head + ne + 1 = head + 0 + 2
      BY <1>7, <1>8, <2>4
    <3>2. m[head + 0 + 2] = r.body[1]
      BY <1>7, <3>1
    <3>3. r.body # <<>>
      BY <1>4, <3>1, EmptySeq
    <3>4. QED  BY <2>4, <3>2, <3>3
  <2>5. \A j \in 1..0 : m[head + j] = line[j]
    OBVIOUS
  <2>6. LineAt(m, head, line, eol)
    BY <1>3, <1>6, <2>1, <2>2, <2>3, <2>4, <2>5, Zenon DEF LineAt
  <2>7. QED  BY <2>1, <2>6
<1>13. QED  BY <1>1, <1>2, <1>5, <1>10, <1>11, <1>12

\* One call with the whole head finds all its lines and the empty one.
LEMMA HeadScanned ==
    ASSUME NEW r \in Requests, NEW eol \in LineEnds,
           ~(eol = <<"CR">> /\ r.body # <<>> /\ r.body[1] = "LF")
    PROVE  LET found == Scan(Marshal(r, eol), 0)
           IN  /\ found.parts = <<r.line>> \o HeaderLines(r)
               /\ found.header_end = Len(HeadBytes(r, eol)) + Len(eol)
<1>1. PICK m \in Messages : m = Marshal(r, eol)
  BY MarshalTyped
<1>2. PICK at : Layout(r, eol, m, at)
  BY <1>1, HasLayout
<1>3. PICK count \in Nat : count = Len(r.headers) /\ DOMAIN r.headers = 1..count
  BY LinesOfHeaders
<1>4. PICK lines \in Seq(Seq(Words)) : lines = HeaderLines(r) /\ Len(lines) = count
  BY <1>3, LinesOfHeaders
<1>5. PICK head \in 0..Len(m) : head = Len(HeadBytes(r, eol))
  <2>1. Len(m) \in Nat /\ Len(HeadBytes(r, eol)) \in Nat /\ Len(eol) \in Nat /\ Len(r.body) \in Nat
    BY HeadLined, LengthOfMessage, TerminatorTyped, RequestsAssumption, LenProperties
    DEF Lined
  <2>2. Len(m) = Len(HeadBytes(r, eol)) + Len(eol) + Len(r.body)
    BY <1>1, MarshalTyped
  <2>3. PICK nh \in Nat, n \in Nat : nh = Len(HeadBytes(r, eol)) /\ n = Len(m) /\ nh <= n
    <3>1. \A a, b, c, d \in Nat : a = b + c + d => b <= a
      OBVIOUS
    <3>2. QED  BY <2>1, <2>2, <3>1, Zenon
  <2>4. QED  BY <2>3
<1>6. /\ at \in [1..(count + 1) -> 0..head]
      /\ at[1] = Len(r.line) + Len(eol) /\ at[count + 1] = head
      /\ \A i \in 1..count : at[i + 1] = at[i] + Len(lines[i]) + Len(eol)
  BY <1>2, <1>3, <1>4, <1>5, Zenon DEF Layout
<1>7. /\ LineAt(m, 0, r.line, eol)
      /\ \A i \in 1..count : LineAt(m, at[i], lines[i], eol)
      /\ LineAt(m, head, <<>>, eol)
  BY <1>2, <1>3, <1>4, <1>5, LinesInPlace
<1>8. Scan(m, head).parts = <<>> /\ Scan(m, head).header_end = head + Len(eol)
  BY <1>7, EmptyLineScanned
<1> DEFINE Good(i) == /\ Scan(m, at[i]).parts = SubSeq(lines, i, count)
                      /\ Scan(m, at[i]).header_end = head + Len(eol)
           Done == {n \in Nat : n <= count => Good(count + 1 - n)}
<1>9. Good(count + 1)
  <2>1. SubSeq(lines, count + 1, count) = <<>>
    BY SubSeqEmpty
  <2>2. QED  BY <1>6, <1>8, <2>1
<1>10. ASSUME NEW i \in 1..count, Good(i + 1)
       PROVE  Good(i)
  <2>1. at[i] \in 0..Len(m)
    BY <1>5, <1>6
  <2>2. lines[i] \in Seq(Words) /\ lines[i] # <<>>
    BY <1>3, <1>4, HeaderLine
  <2>3. LineAt(m, at[i], lines[i], eol)
    BY <1>7
  <2>4. /\ Scan(m, at[i]).parts = <<lines[i]>> \o Scan(m, at[i + 1]).parts
        /\ Scan(m, at[i]).header_end = Scan(m, at[i + 1]).header_end
    <3>1. PICK k \in 0..Len(m), line \in Seq(Words) : k = at[i] /\ line = lines[i]
      BY <2>1, <2>2
    <3>2. PICK next : next = at[i + 1]
      OBVIOUS
    <3>3. next = k + Len(line) + Len(eol) /\ LineAt(m, k, line, eol) /\ line # <<>>
      BY <1>6, <2>2, <2>3, <3>1, <3>2
    <3>4. /\ Scan(m, k).parts = <<line>> \o Scan(m, next).parts
          /\ Scan(m, k).header_end = Scan(m, next).header_end
      BY <3>3, LineScanned
    <3>5. QED  BY <3>1, <3>2, <3>4
  <2>5. SubSeq(lines, i, count) = <<lines[i]>> \o SubSeq(lines, i + 1, count)
    BY <1>4, SubSeqRecursiveFirst
  <2>6. QED  BY <1>10, <2>4, <2>5
<1>11. 0 \in Done
  BY <1>9
<1>12. ASSUME NEW n \in Nat, n \in Done
       PROVE  n + 1 \in Done
  <2>1. ASSUME n + 1 <= count
        PROVE  Good(count + 1 - (n + 1))
    <3>1. PICK i \in 1..count : i = count + 1 - (n + 1) /\ i + 1 = count + 1 - n
      BY <2>1
    <3>2. Good(i + 1)
      <4> HIDE DEF Good
      <4>1. QED  BY <1>12, <2>1, <3>1
    <3> HIDE DEF Good
    <3>3. QED  BY <1>10, <3>1, <3>2
  <2> HIDE DEF Good
  <2>2. QED  BY <2>1
<1>13. Good(1)
  <2>1. Nat \subseteq Done
    <3> HIDE DEF Done
    <3>1. QED  BY <1>11, <1>12, AllNumbers
  <2> HIDE DEF Good
  <2>2. QED  BY <2>1
<1>14. Scan(m, at[1]).parts = lines /\ Scan(m, at[1]).header_end = head + Len(eol)
  BY <1>4, <1>13, SubSeqFull
<1>15. /\ Scan(m, 0).parts = <<r.line>> \o Scan(m, at[1]).parts
       /\ Scan(m, 0).header_end = Scan(m, at[1]).header_end
  <2>1. 0 \in 0..Len(m) /\ r.line \in Seq(Words) /\ r.line # <<>>
    BY LengthOfMessage, RequestsAssumption
  <2>2. 0 + Len(r.line) + Len(eol) = at[1]
    BY <1>6, <2>1, TerminatorTyped
  <2>3. PICK k \in 0..Len(m), line \in Seq(Words) : k = 0 /\ line = r.line
    BY <2>1
  <2>4. PICK next : next = at[1]
    OBVIOUS
  <2>5. next = k + Len(line) + Len(eol) /\ LineAt(m, k, line, eol) /\ line # <<>>
    BY <1>7, <2>1, <2>2, <2>3, <2>4
  <2>6. /\ Scan(m, k).parts = <<line>> \o Scan(m, next).parts
        /\ Scan(m, k).header_end = Scan(m, next).header_end
    BY <2>5, LineScanned
  <2>7. QED  BY <2>3, <2>4, <2>6
<1>16. QED  BY <1>1, <1>4, <1>5, <1>14, <1>15
-----------------------------------------------------------------------------
(***************************************************************************)
(* What the lines of the headers add up to.                                *)
(***************************************************************************)

LEMMA LastOfFirst ==
    ASSUME NEW n \in Nat, NEW s \in SUBSET (1..(n + 1)), s # {}
    PROVE  /\ Max(s) \in s
           /\ s \ {Max(s)} \subseteq 1..n
           /\ \A i \in s : i <= Max(s)
<1> DEFINE turned == {n + 1 - i : i \in s}
<1>1. turned \subseteq Nat /\ turned # {}
  <2>1. \A i \in s : n + 1 - i \in Nat
    OBVIOUS
  <2>2. QED  BY <2>1
<1>2. PICK least \in turned : \A k \in turned : least <= k
  <2> HIDE DEF turned
  <2>1. QED  BY <1>1, LeastNumber
<1>3. PICK top \in s : least = n + 1 - top
  OBVIOUS
<1>4. ASSUME NEW i \in s
      PROVE  i <= top
  <2>1. n + 1 - top <= n + 1 - i
    BY <1>2, <1>3
  <2>2. i \in 1..(n + 1) /\ top \in 1..(n + 1)
    OBVIOUS
  <2>3. QED  BY <2>1, <2>2
<1>5. Max(s) \in s /\ \A i \in s : i <= Max(s)
  <2> HIDE DEF turned
  <2>1. \E t \in s : \A i \in s : t >= i
    <3>1. \A i \in s : top >= i
      BY <1>4
    <3>2. QED  BY <3>1
  <2>2. PICK chosen : chosen = Max(s)
    OBVIOUS
  <2>3. chosen \in s /\ \A i \in s : chosen >= i
    BY <2>1, <2>2 DEF Max
  <2>4. QED  BY <2>2, <2>3
<1>6. s \ {Max(s)} \subseteq 1..n
  <2>1. ASSUME NEW i \in s, i # Max(s)
        PROVE  i \in 1..n
    <3>1. i <= Max(s) /\ i \in 1..(n + 1) /\ Max(s) \in 1..(n + 1)
      BY <1>5
    <3>2. QED  BY <2>1, <3>1
  <2>2. QED  BY <2>1
<1>7. QED  BY <1>5, <1>6

\* The headers after each of the lines.
HeadersOf(base, lines) == FoldLeft(AddHeader, base, lines)

Folding(f, base, lines, count) ==
    /\ f[0] = base
    /\ \A n \in 1..count : f[n] = AddHeader(f[n - 1], lines[n])
    /\ f[count] = HeadersOf(base, lines)

LEMMA HeadersFolded ==
    ASSUME NEW count \in Nat, NEW lines, DOMAIN lines = 1..count, NEW base
    PROVE  \E f : Folding(f, base, lines, count)
<1> DEFINE Sets == SUBSET (1..count)
           Folded(g, s) == IF s = {} THEN base ELSE AddHeader(g[s \ {Max(s)}], lines[Max(s)])
           Defines(g) == g = [s \in Sets |-> Folded(g, s)]
           Upto(g, n) == /\ g = [s \in Sets |-> g[s]]
                         /\ \A s \in Sets : s \subseteq 1..n => g[s] = Folded(g, s)
           Reached == {n \in Nat : n <= count => \E g : Upto(g, n)}
<1>1. 0 \in Reached
  <2>1. PICK g : g = [s \in Sets |-> base]
    OBVIOUS
  <2>2. \A s \in Sets : s \subseteq 1..0 => s = {}
    OBVIOUS
  <2>3. Upto(g, 0)
    BY <2>1, <2>2
  <2> HIDE DEF Upto
  <2>4. QED  BY <2>3
<1>2. ASSUME NEW n \in Nat, n \in Reached
      PROVE  n + 1 \in Reached
  <2> SUFFICES ASSUME n + 1 <= count
               PROVE  \E g : Upto(g, n + 1)
    <3> HIDE DEF Upto
    <3>1. QED  OBVIOUS
  <2>1. PICK g : Upto(g, n)
    <3> HIDE DEF Upto
    <3>1. QED  BY <1>2
  <2>2. PICK h : h = [s \in Sets |-> IF s \subseteq 1..n THEN g[s] ELSE Folded(g, s)]
    OBVIOUS
  <2>3. ASSUME NEW s \in Sets, s \subseteq 1..(n + 1)
        PROVE  h[s] = Folded(h, s)
    <3>1. h[s] = Folded(g, s)
      BY <2>1, <2>2
    <3>2. CASE s = {}
      BY <3>1, <3>2
    <3>3. CASE s # {}
      <4>1. PICK rest : rest = s \ {Max(s)}
        OBVIOUS
      <4>2. rest \in Sets /\ rest \subseteq 1..n
        BY <2>3, <3>3, <4>1, LastOfFirst
      <4>3. h[rest] = g[rest]
        BY <2>2, <4>2
      <4>4. QED  BY <3>1, <3>3, <4>1, <4>3
    <3>4. QED  BY <3>2, <3>3
  <2>4. h = [s \in Sets |-> h[s]]
    BY <2>2
  <2>5. Upto(h, n + 1)
    <3> HIDE DEF Folded
    <3>1. QED  BY <2>3, <2>4
  <2> HIDE DEF Upto
  <2>6. QED  BY <2>5
<1>3. PICK g : Defines(g)
  <2>1. PICK g : Upto(g, count)
    <3>1. count \in Reached
      <4> HIDE DEF Reached
      <4>1. QED  BY <1>1, <1>2, AllNumbers
    <3> HIDE DEF Upto
    <3>2. QED  BY <3>1
  <2>2. \A s \in Sets : g[s] = Folded(g, s)
    <3> HIDE DEF Folded
    <3>1. QED  BY <2>1
  <2>3. g = [s \in Sets |-> g[s]]
    BY <2>1
  <2> HIDE DEF Folded
  <2>4. QED  BY <2>2, <2>3
<1>4. PICK iter : iter = CHOOSE h : Defines(h)
  OBVIOUS
<1>5. Defines(iter)
  <2> HIDE DEF Defines
  <2>1. QED  BY <1>3, <1>4
<1>6. HeadersOf(base, lines) = iter[1..count]
  BY <1>4 DEF HeadersOf, FoldLeft, MapThenFoldSet
<1>7. \A s \in Sets : iter[s] = Folded(iter, s)
  <2> HIDE DEF Folded
  <2>1. QED  BY <1>5
<1>8. PICK f : f = [n \in 0..count |-> iter[1..n]]
  OBVIOUS
<1>9. f[0] = base
  <2>1. 1..0 = {} /\ 1..0 \in Sets /\ 0 \in 0..count
    OBVIOUS
  <2>2. QED  BY <1>7, <1>8, <2>1
<1>10. ASSUME NEW n \in 1..count
       PROVE  f[n] = AddHeader(f[n - 1], lines[n])
  <2>1. PICK s \in Sets : s = 1..n /\ s # {}
    <3>1. 1..n \in Sets /\ n \in 1..n
      OBVIOUS
    <3>2. QED  BY <3>1
  <2>2. Max(s) = n
    <3>1. PICK l \in Nat : n = l + 1
      <4>1. n - 1 \in Nat /\ n = (n - 1) + 1
        OBVIOUS
      <4>2. QED  BY <4>1
    <3>2. Max(s) \in s /\ \A i \in s : i <= Max(s)
      BY <2>1, <3>1, LastOfFirst
    <3>3. n \in s /\ \A i \in s : i \in Int /\ i <= n
      BY <2>1
    <3>4. PICK last \in Int : last = Max(s) /\ last <= n /\ n <= last
      BY <3>2, <3>3
    <3>5. QED  BY <3>4
  <2>3. s \ {Max(s)} = 1..(n - 1)
    BY <2>1, <2>2
  <2>4. iter[s] = AddHeader(iter[1..(n - 1)], lines[n])
    BY <1>7, <2>1, <2>2, <2>3
  <2>5. n \in 0..count /\ n - 1 \in 0..count
    OBVIOUS
  <2>6. QED  BY <1>8, <2>1, <2>4, <2>5
<1>11. f[count] = iter[1..count]
  BY <1>8
<1>12. QED  BY <1>6, <1>9, <1>10, <1>11 DEF Folding

\* What the header lines add to the value of one header, and its value after
\* each of them.
Contributions(r, name) == [i \in DOMAIN r.headers |-> Contribution(r.headers, i, name)]
SoFar(r, name) == CHOOSE p : Beginnings(p, Contributions(r, name))

LEMMA ContributionsTyped ==
    ASSUME NEW r \in Requests, NEW name
    PROVE  /\ Contributions(r, name) \in Seq(Messages)
           /\ Len(Contributions(r, name)) = Len(r.headers)
<1>1. PICK count \in Nat : count = Len(r.headers) /\ DOMAIN r.headers = 1..count
  BY LinesOfHeaders, TerminatorTyped, RequestsAssumption, LenProperties
<1>2. ASSUME NEW i \in 1..count
      PROVE  Contribution(r.headers, i, name) \in Messages
  <2>1. r.headers[i][2] \in Seq(Symbols) /\ <<>> \in Seq(Symbols)
    BY <1>1, HeaderLine, EmptySeq DEF Words
  <2>2. <<",", "SP">> \o r.headers[i][2] \in Seq(Symbols)
    <3>1. \A a, b \in Symbols : <<a, b>> \in Seq(Symbols)
      OBVIOUS
    <3>2. <<",", "SP">> \in Seq(Symbols)
      BY <3>1, SymbolsAssumption
    <3>3. QED  BY <2>1, <3>2, ConcatProperties
  <2>3. Contribution(r.headers, i, name)
            \in {<<>>, r.headers[i][2], <<",", "SP">> \o r.headers[i][2]}
    BY DEF Contribution
  <2>4. QED  BY <2>1, <2>2, <2>3 DEF Messages
<1>3. Contributions(r, name) \in [1..count -> Messages]
  BY <1>1, <1>2 DEF Contributions
<1>4. QED  BY <1>1, <1>3

LEMMA ValueGrows ==
    ASSUME NEW r \in Requests, NEW name
    PROVE  LET value == SoFar(r, name)
           IN  /\ value[0] = <<>>
               /\ \A n \in 0..Len(r.headers) : value[n] \in Seq(Symbols)
               /\ \A n \in 1..Len(r.headers) :
                     value[n] = value[n - 1] \o Contribution(r.headers, n, name)
               /\ value[Len(r.headers)] = ValueOf(r.headers, name)
<1>1. PICK count \in Nat : count = Len(r.headers) /\ DOMAIN r.headers = 1..count
  BY RequestsAssumption, LenProperties
<1>2. PICK added \in Seq(Messages) : added = Contributions(r, name) /\ Len(added) = count
  BY <1>1, ContributionsTyped
<1>3. PICK value : value = SoFar(r, name)
  OBVIOUS
<1>4. Beginnings(value, added)
  BY <1>2, <1>3, HasBeginnings DEF SoFar
<1>5. FlattenSeq(added) = value[count]
  BY <1>2, <1>4, FlattenedByParts
<1>6. ValueOf(r.headers, name) = FlattenSeq(added)
  BY <1>2 DEF ValueOf, Contributions
<1>7. \A n \in 1..count : added[n] = Contribution(r.headers, n, name)
  BY <1>1, <1>2 DEF Contributions
<1>8. /\ value[0] = <<>>
      /\ \A n \in 0..count : value[n] \in Seq(Symbols)
      /\ \A n \in 1..count : value[n] = value[n - 1] \o added[n]
  BY <1>2, <1>4 DEF Beginnings, Messages
<1>9. QED  BY <1>1, <1>3, <1>5, <1>6, <1>7, <1>8

\* A header has no value before its first line.
LEMMA NoValueYet ==
    ASSUME NEW r \in Requests, NEW name, NEW n \in 0..Len(r.headers),
           \A i \in 1..n : r.headers[i][1] # name
    PROVE  SoFar(r, name)[n] = <<>>
<1>1. PICK count \in Nat : count = Len(r.headers)
  BY RequestsAssumption, LenProperties
<1>2. PICK value : value = SoFar(r, name)
  OBVIOUS
<1> DEFINE Done == {l \in Nat : l <= n => value[l] = <<>>}
<1>3. 0 \in Done
  BY <1>2, ValueGrows
<1>4. ASSUME NEW l \in Nat, l \in Done
      PROVE  l + 1 \in Done
  <2> SUFFICES ASSUME NEW i \in 1..n, i = l + 1
               PROVE  value[i] = <<>>
    BY <1>1
  <2>1. i \in 1..count /\ i - 1 = l /\ l <= n
    BY <1>1
  <2>2. value[i] = value[l] \o Contribution(r.headers, i, name)
    BY <1>1, <1>2, <2>1, ValueGrows
  <2>3. Contribution(r.headers, i, name) = <<>>
    BY DEF Contribution
  <2>4. value[l] = <<>>
    BY <1>4, <2>1
  <2>5. <<>> \o <<>> = <<>>
    OBVIOUS
  <2>6. QED  BY <2>2, <2>3, <2>4, <2>5
<1>5. n \in Done
  <2>1. n \in Nat
    BY <1>1
  <2> HIDE DEF Done
  <2>2. QED  BY <1>3, <1>4, <2>1, AllNumbers
<1>6. QED  BY <1>1, <1>2, <1>5

\* Where a header line is cut.
LEMMA HeaderCut ==
    ASSUME NEW r \in Requests, NEW i \in DOMAIN r.headers
    PROVE  LET line == HeaderLines(r)[i]
           IN  /\ Colons(line) # {}
               /\ Min(Colons(line)) = 2
               /\ SubSeq(line, 1, 1) = <<r.headers[i][1]>>
               /\ SubSeq(line, 4, Len(line)) = r.headers[i][2]
<1>1. PICK line \in Seq(Words) : line = HeaderLines(r)[i]
  BY HeaderLine
<1>2. PICK name \in Words, value \in Seq(Words) : name = r.headers[i][1] /\ value = r.headers[i][2]
  <2>1. r.headers[i][1] \in Words /\ r.headers[i][2] \in Seq(Words)
    BY HeaderLine
  <2>2. QED  BY <2>1
<1>3. PICK n \in Nat : n = Len(value)
  BY LenProperties
<1>4. /\ Len(line) = n + 3 /\ line[1] = name /\ line[2] = ":" /\ line[3] = "SP"
      /\ \A j \in 1..n : line[j + 3] = value[j]
  BY <1>1, <1>2, <1>3, HeaderLine
<1>5. DOMAIN line = 1..(n + 3)
  BY <1>4, LenProperties
<1>6. 2 \in Colons(line) /\ \A j \in Colons(line) : j \in Nat /\ j >= 2
  <2>1. 2 \in DOMAIN line /\ 3 \in DOMAIN line
    BY <1>5
  <2>2. 2 \in Colons(line)
    BY <1>4, <2>1 DEF Colons, Spaces
  <2>3. ASSUME NEW j \in Colons(line)
        PROVE  j \in Nat /\ j >= 2
    <3>1. j \in 1..(n + 3) /\ line[j + 1] = "SP"
      BY <1>5 DEF Colons, Spaces
    <3>2. j # 1
      BY <1>4, <3>1
    <3>3. QED  BY <3>1, <3>2
  <2>4. QED  BY <2>2, <2>3
<1>7. Min(Colons(line)) = 2
  <2>1. PICK colons : colons = Colons(line)
    OBVIOUS
  <2>2. 2 \in colons /\ \A j \in colons : j \in Nat /\ j >= 2
    BY <1>6, <2>1
  <2>3. PICK least : least = Min(colons)
    OBVIOUS
  <2>4. least \in colons /\ \A j \in colons : least <= j
    BY <2>2, <2>3 DEF Min
  <2>5. QED  BY <2>1, <2>2, <2>3, <2>4
<1>8. SubSeq(line, 1, 1) = <<name>>
  <2>1. 1 \in 1..Len(line)
    BY <1>4
  <2>2. SubSeq(line, 1, 1) = <<line[1]>> \o SubSeq(line, 2, 1)
    <3>1. PICK one \in 1..Len(line) : one = 1
      BY <2>1
    <3>2. one \in one..Len(line)
      BY <1>4, <3>1
    <3>3. SubSeq(line, one, one) = <<line[one]>> \o SubSeq(line, one + 1, one)
      BY <3>2, SubSeqRecursiveFirst
    <3>4. QED  BY <3>1, <3>3
  <2>3. SubSeq(line, 2, 1) = <<>>
    BY SubSeqEmpty
  <2>4. line[1] \in Words
    BY <2>1, ElementOfSeq
  <2>5. <<line[1]>> \o <<>> = <<line[1]>>
    BY <2>4
  <2>6. QED  BY <1>4, <2>2, <2>3, <2>5
<1>9. SubSeq(line, 4, Len(line)) = value
  <2>1. PICK cut : cut = SubSeq(line, 4, n + 3)
    OBVIOUS
  <2>2. \A j \in 4..(n + 3) : line[j] \in Words
    BY <1>4, ElementOfSeq
  <2>3. /\ cut \in Seq(Words)
        /\ Len(cut) = IF 4 <= n + 3 THEN (n + 3) - 4 + 1 ELSE 0
        /\ \A j \in 1..((n + 3) - 4 + 1) : cut[j] = line[4 + j - 1]
    BY <2>1, <2>2, SubSeqProperties
  <2>4. Len(cut) = n /\ \A j \in 1..n : cut[j] = line[j + 3]
    <3>1. (n + 3) - 4 + 1 = n /\ \A j \in 1..n : 4 + j - 1 = j + 3
      OBVIOUS
    <3>2. QED  BY <2>3, <3>1
  <2>5. cut = value
    BY <1>3, <1>4, <2>3, <2>4, SeqEqual
  <2>6. QED  BY <1>4, <2>1, <2>5
<1>10. Colons(line) # {}
  BY <1>6
<1>11. QED  BY <1>1, <1>2, <1>7, <1>8, <1>9, <1>10

\* The headers that the first n lines give.
Known(r, n) == [k \in {<<r.headers[i][1]>> : i \in 1..n} |-> SoFar(r, k[1])[n]]

\* Each line adds to them what it should.
LEMMA HeaderAdded ==
    ASSUME NEW r \in Requests, NEW n \in 1..Len(r.headers)
    PROVE  AddHeader(Known(r, n - 1), HeaderLines(r)[n]) = Known(r, n)
<1>1. PICK count \in Nat : count = Len(r.headers) /\ DOMAIN r.headers = 1..count
  BY RequestsAssumption, LenProperties
<1>2. PICK name, value, key :
        name = r.headers[n][1] /\ value = r.headers[n][2] /\ key = <<name>>
  OBVIOUS
<1>3. value \in Seq(Symbols) /\ key[1] = name
  BY <1>1, <1>2, HeaderLine DEF Words
<1>4. PICK l \in 0..count : l = n - 1 /\ n \in 0..count /\ 1..n = 1..l \cup {n}
  <2>1. n - 1 \in 0..count /\ n \in 0..count /\ 1..n = 1..(n - 1) \cup {n}
    BY <1>1
  <2>2. QED  BY <2>1
<1>5. PICK old : old = Known(r, l)
  OBVIOUS
<1>6. PICK keys : keys = {<<r.headers[i][1]>> : i \in 1..l}
  OBVIOUS
<1>7. DOMAIN old = keys /\ \A k \in keys : old[k] = SoFar(r, k[1])[l]
  BY <1>5, <1>6 DEF Known
<1>8. Known(r, n) = [k \in keys \cup {key} |-> SoFar(r, k[1])[n]]
  <2>1. {<<r.headers[i][1]>> : i \in 1..n} = keys \cup {key}
    BY <1>2, <1>4, <1>6
  <2>2. QED  BY <2>1 DEF Known
<1>9. \A c : SoFar(r, c)[n] = SoFar(r, c)[l] \o Contribution(r.headers, n, c)
  <2>1. SUFFICES ASSUME NEW c
                 PROVE  SoFar(r, c)[n] = SoFar(r, c)[l] \o Contribution(r.headers, n, c)
    OBVIOUS
  <2>2. QED  BY <1>4, ValueGrows
<1>10. \A c : SoFar(r, c)[l] \in Seq(Symbols) /\ SoFar(r, c)[n] \in Seq(Symbols)
  <2>1. SUFFICES ASSUME NEW c
                 PROVE  SoFar(r, c)[l] \in Seq(Symbols) /\ SoFar(r, c)[n] \in Seq(Symbols)
    OBVIOUS
  <2>2. QED  BY <1>1, <1>4, ValueGrows
<1>11. \A c : c # name => SoFar(r, c)[n] = SoFar(r, c)[l]
  <2>1. SUFFICES ASSUME NEW c, c # name
                 PROVE  SoFar(r, c)[n] = SoFar(r, c)[l]
    OBVIOUS
  <2>2. Contribution(r.headers, n, c) = <<>>
    BY <1>2, <2>1 DEF Contribution
  <2>3. SoFar(r, c)[l] \o <<>> = SoFar(r, c)[l]
    BY <1>10, ConcatEmptySeq
  <2>4. QED  BY <1>9, <2>2, <2>3
<1>12. \A k \in keys : k # key => k[1] # name
  BY <1>2, <1>6
<1>13. (\E j \in 1..l : r.headers[j][1] = name) <=> key \in keys
  <2>1. \A a, b : <<a>> = <<b>> <=> a = b
    OBVIOUS
  <2>2. QED  BY <1>2, <1>6, <2>1
<1>14. PICK line : line = HeaderLines(r)[n]
  OBVIOUS
<1>15. /\ SubSeq(line, 1, Min(Colons(line)) - 1) = key
       /\ SubSeq(line, Min(Colons(line)) + 2, Len(line)) = value
  BY <1>1, <1>2, <1>14, HeaderCut
<1>16. name \in unique_headers <=> key \in {<<u>> : u \in unique_headers}
  <2>1. \A a, b : <<a>> = <<b>> <=> a = b
    OBVIOUS
  <2>2. QED  BY <1>2, <2>1
<1>17. CASE key \notin keys
  <2>1. AddHeader(old, line) = [k \in keys \cup {key} |-> IF k = key THEN value ELSE old[k]]
    BY <1>7, <1>15, <1>17 DEF AddHeader
  <2>2. SoFar(r, name)[n] = value
    <3>1. Contribution(r.headers, n, name) = value
      BY <1>2, <1>4, <1>13, <1>17 DEF Contribution
    <3>2. SoFar(r, name)[l] = <<>>
      BY <1>1, <1>13, <1>17, NoValueYet
    <3>3. QED  BY <1>3, <1>9, <3>1, <3>2, ConcatEmptySeq
  <2>3. \A k \in keys \cup {key} : (IF k = key THEN value ELSE old[k]) = SoFar(r, k[1])[n]
    BY <1>3, <1>7, <1>11, <1>12, <2>2
  <2>4. QED  BY <1>4, <1>5, <1>8, <1>14, <2>1, <2>3
<1>18. CASE key \in keys /\ name \in unique_headers
  <2>1. AddHeader(old, line) = old
    BY <1>7, <1>15, <1>16, <1>18 DEF AddHeader
  <2>2. SoFar(r, name)[n] = SoFar(r, name)[l]
    <3>1. Contribution(r.headers, n, name) = <<>>
      BY <1>2, <1>4, <1>13, <1>18 DEF Contribution
    <3>2. QED  BY <1>9, <1>10, <3>1, ConcatEmptySeq
  <2>3. keys \cup {key} = keys /\ \A k \in keys : SoFar(r, k[1])[l] = SoFar(r, k[1])[n]
    BY <1>3, <1>11, <1>12, <1>18, <2>2
  <2>4. old = [k \in keys |-> SoFar(r, k[1])[l]]
    BY <1>5, <1>6 DEF Known
  <2>5. QED  BY <1>4, <1>5, <1>8, <1>14, <2>1, <2>3, <2>4
<1>19. CASE key \in keys /\ name \notin unique_headers
  <2>1. PICK more \in Seq(Symbols) : more = <<",", "SP">> \o value
    <3>1. \A a, b \in Symbols : <<a, b>> \in Seq(Symbols)
      OBVIOUS
    <3>2. <<",", "SP">> \in Seq(Symbols)
      BY <3>1, SymbolsAssumption
    <3>3. QED  BY <1>3, <3>2, ConcatProperties
  <2>2. AddHeader(old, line) = [old EXCEPT ![key] = @ \o <<",", "SP">> \o value]
    BY <1>7, <1>15, <1>16, <1>19 DEF AddHeader
  <2>3. (old[key] \o <<",", "SP">>) \o value = old[key] \o more
    <3>1. \A a, b \in Symbols : <<a, b>> \in Seq(Symbols)
      OBVIOUS
    <3>2. PICK comma \in Seq(Symbols) : comma = <<",", "SP">>
      BY <3>1, SymbolsAssumption
    <3>3. PICK was \in Seq(Symbols) : was = old[key]
      BY <1>7, <1>10, <1>19
    <3>4. (was \o comma) \o value = was \o (comma \o value)
      BY <1>3, Regrouped
    <3>5. QED  BY <2>1, <3>2, <3>3, <3>4
  <2>4. SoFar(r, name)[n] = old[key] \o more
    <3>1. Contribution(r.headers, n, name) = more
      BY <1>2, <1>4, <1>13, <1>19, <2>1 DEF Contribution
    <3>2. old[key] = SoFar(r, name)[l]
      BY <1>3, <1>7, <1>19
    <3>3. QED  BY <1>9, <3>1, <3>2
  <2>5. AddHeader(old, line) = [k \in keys |-> IF k = key THEN old[key] \o more ELSE old[k]]
    <3>1. old = [k \in keys |-> old[k]]
      BY <1>5, <1>6 DEF Known
    <3>2. QED  BY <2>2, <2>3, <3>1
  <2>6. /\ keys \cup {key} = keys
        /\ \A k \in keys :
              (IF k = key THEN old[key] \o more ELSE old[k]) = SoFar(r, k[1])[n]
    BY <1>3, <1>7, <1>11, <1>12, <1>19, <2>4
  <2>7. QED  BY <1>4, <1>5, <1>8, <1>14, <2>5, <2>6
<1>20. QED  BY <1>17, <1>18, <1>19

\* All lines together give the headers that the client meant.
LEMMA HeadersRead ==
    ASSUME NEW r \in Requests
    PROVE  HeadersOf(<<>>, HeaderLines(r)) = Meaning(r).headers
<1>1. PICK count \in Nat :
        count = Len(r.headers) /\ DOMAIN r.headers = 1..count /\ DOMAIN HeaderLines(r) = 1..count
  BY RequestsAssumption, LenProperties DEF HeaderLines
<1>2. PICK f : Folding(f, <<>>, HeaderLines(r), count)
  BY <1>1, HeadersFolded
<1> DEFINE Done == {n \in Nat : n <= count => f[n] = Known(r, n)}
<1>3. 0 \in Done
  <2>1. {<<r.headers[i][1]>> : i \in 1..0} = {}
    OBVIOUS
  <2>2. Known(r, 0) = [k \in {} |-> SoFar(r, k[1])[0]]
    BY <2>1 DEF Known
  <2>3. Known(r, 0) = <<>>
    BY <2>2
  <2>4. QED  BY <1>2, <2>3 DEF Folding
<1>4. ASSUME NEW n \in Nat, n \in Done
      PROVE  n + 1 \in Done
  <2> SUFFICES ASSUME NEW i \in 1..count, i = n + 1
               PROVE  f[i] = Known(r, i)
    OBVIOUS
  <2>1. f[i - 1] = Known(r, i - 1)
    BY <1>4
  <2>2. QED  BY <1>1, <1>2, <2>1, HeaderAdded DEF Folding
<1>5. f[count] = Known(r, count)
  <2>1. count \in Done
    <3> HIDE DEF Done
    <3>1. QED  BY <1>3, <1>4, AllNumbers
  <2>2. QED  BY <2>1
<1>6. \A c : SoFar(r, c)[count] = ValueOf(r.headers, c)
  <2>1. SUFFICES ASSUME NEW c
                 PROVE  SoFar(r, c)[count] = ValueOf(r.headers, c)
    OBVIOUS
  <2>2. QED  BY <1>1, ValueGrows
<1>7. Known(r, count) = Meaning(r).headers
  BY <1>1, <1>6 DEF Known, Meaning
<1>8. QED  BY <1>2, <1>5, <1>7 DEF Folding
-----------------------------------------------------------------------------
(***************************************************************************)
(* What a call makes of a whole request.                                   *)
(***************************************************************************)

LEMMA LeastOf ==
    ASSUME NEW T, T \subseteq Nat, T # {}
    PROVE  Min(T) \in T /\ \A n \in T : Min(T) <= n
<1>1. \E least \in T : \A n \in T : least <= n
  BY LeastNumber
<1>2. QED  BY <1>1 DEF Min

\* The two spaces where a request line is cut.
LEMMA TwoSpaces ==
    ASSUME NEW part \in Seq(Words), Cardinality(Spaces(part)) >= 2
    PROVE  LET i == Min(Spaces(part))
               j == Min(Spaces(part) \ {i})
           IN  /\ i \in 1..Len(part) /\ j \in 1..Len(part) /\ i < j
               /\ part[i] = "SP" /\ part[j] = "SP"
<1>1. PICK n \in Nat : n = Len(part) /\ DOMAIN part = 1..n
  BY LenProperties
<1>2. PICK spaces : spaces = Spaces(part)
  OBVIOUS
<1>3. /\ spaces \subseteq 1..n /\ spaces \subseteq Nat
      /\ \A i \in spaces : part[i] = "SP"
  <2>1. spaces \subseteq 1..n /\ \A i \in spaces : part[i] = "SP"
    BY <1>1, <1>2 DEF Spaces
  <2>2. 1..n \subseteq Nat
    OBVIOUS
  <2>3. QED  BY <2>1, <2>2
<1>4. IsFiniteSet(spaces)
  <2>1. IsFiniteSet(1..n)
    BY FS_Interval
  <2>2. QED  BY <1>3, <2>1, FS_Subset
<1>5. Cardinality(spaces) \in Nat /\ Cardinality(spaces) >= 2
  BY <1>2, <1>4, FS_CardinalityType
<1>6. spaces # {}
  <2>1. Cardinality(spaces) # 0
    BY <1>5
  <2>2. QED  BY <2>1, FS_EmptySet, Zenon
<1>7. PICK i : i = Min(spaces)
  OBVIOUS
<1>8. i \in spaces /\ \A k \in spaces : i <= k
  <2>1. spaces \subseteq Nat
    BY <1>3
  <2>2. QED  BY <1>6, <1>7, <2>1, LeastOf
<1>9. PICK others : others = spaces \ {i}
  OBVIOUS
<1>10. others # {}
  <2>1. Cardinality(others) = Cardinality(spaces) - 1
    BY <1>4, <1>8, <1>9, FS_RemoveElement
  <2>2. Cardinality(others) # 0
    BY <1>5, <2>1
  <2>3. QED  BY <2>2, FS_EmptySet, Zenon
<1>11. PICK j : j = Min(others)
  OBVIOUS
<1>12. j \in others
  <2>1. others \subseteq Nat
    BY <1>3, <1>9
  <2>2. QED  BY <1>10, <1>11, <2>1, LeastOf
<1>13. i \in 1..n /\ j \in 1..n /\ i <= j /\ i # j /\ part[i] = "SP" /\ part[j] = "SP"
  BY <1>3, <1>8, <1>9, <1>12
<1>14. i < j
  BY <1>13
<1>15. QED  BY <1>1, <1>2, <1>7, <1>9, <1>11, <1>13, <1>14

\* The parts of the request line are all there is of it.
LEMMA RequestLineKept ==
    ASSUME NEW part \in Seq(Words), Cardinality(Spaces(part)) >= 2
    PROVE  RequestLine(part)[1] \o <<"SP">> \o RequestLine(part)[2] \o <<"SP">> \o RequestLine(part)[3]
             = part
<1>1. PICK n \in Nat : n = Len(part)
  BY LenProperties
<1>2. PICK i \in 1..n, j \in 1..n :
        /\ i < j
        /\ i = Min(Spaces(part)) /\ j = Min(Spaces(part) \ {i})
        /\ part[i] = "SP" /\ part[j] = "SP"
  BY <1>1, TwoSpaces
<1>3. RequestLine(part) = <<SubSeq(part, 1, i - 1), SubSeq(part, i + 1, j - 1), SubSeq(part, j + 1, n)>>
  BY <1>1, <1>2 DEF RequestLine
<1>4. SubSeq(part, 1, i - 1) \o <<"SP">> = SubSeq(part, 1, i)
  <2>1. 1 \in 1..Len(part) /\ i \in 1..Len(part)
    BY <1>1
  <2>2. SubSeq(part, 1, i) = SubSeq(part, 1, i - 1) \o <<part[i]>>
    BY <2>1, SubSeqRecursiveSecond
  <2>3. QED  BY <1>2, <2>2
<1>5. SubSeq(part, 1, i) \o SubSeq(part, i + 1, j - 1) = SubSeq(part, 1, j - 1)
  <2>1. PICK k \in i..n : k = j - 1
    BY <1>2
  <2>2. 1 \in 1..(Len(part) + 1) /\ i \in (1 - 1)..Len(part) /\ k \in i..Len(part)
    BY <1>1
  <2>3. SubSeq(part, 1, i) \o SubSeq(part, i + 1, k) = SubSeq(part, 1, k)
    BY <2>2, ConcatAdjacentSubSeq
  <2>4. QED  BY <2>1, <2>3
<1>6. SubSeq(part, 1, j - 1) \o <<"SP">> = SubSeq(part, 1, j)
  <2>1. 1 \in 1..Len(part) /\ j \in 1..Len(part)
    BY <1>1
  <2>2. SubSeq(part, 1, j) = SubSeq(part, 1, j - 1) \o <<part[j]>>
    BY <2>1, SubSeqRecursiveSecond
  <2>3. QED  BY <1>2, <2>2
<1>7. SubSeq(part, 1, j) \o SubSeq(part, j + 1, n) = part
  <2>1. 1 \in 1..(Len(part) + 1) /\ j \in (1 - 1)..Len(part) /\ n \in j..Len(part)
    BY <1>1
  <2>2. SubSeq(part, 1, j) \o SubSeq(part, j + 1, n) = SubSeq(part, 1, n)
    BY <2>1, ConcatAdjacentSubSeq
  <2>3. QED  BY <1>1, <2>2, SubSeqFull
<1>8. PICK cut : cut = RequestLine(part)
  OBVIOUS
<1>9. /\ cut[1] = SubSeq(part, 1, i - 1)
      /\ cut[2] = SubSeq(part, i + 1, j - 1)
      /\ cut[3] = SubSeq(part, j + 1, n)
  BY <1>3, <1>8
<1>10. cut[1] \o <<"SP">> \o cut[2] = SubSeq(part, 1, j - 1)
  BY <1>4, <1>5, <1>9
<1>11. cut[1] \o <<"SP">> \o cut[2] \o <<"SP">> \o cut[3] = part
  BY <1>6, <1>7, <1>9, <1>10
<1>12. QED  BY <1>8, <1>11

\* The length of the body, when there is one, is what the first Content-Length says.
LEMMA LengthRead ==
    ASSUME NEW r \in Requests, WellFormed(r)
    PROVE  LET headers == Meaning(r).headers
           IN  /\ <<"content-length">> \notin DOMAIN headers => r.body = <<>>
               /\ <<"content-length">> \in DOMAIN headers =>
                     /\ Len(r.body) < Len(Digits)
                     /\ headers[<<"content-length">>] = <<Digits[Len(r.body) + 1]>>
<1>1. PICK count \in Nat : count = Len(r.headers) /\ DOMAIN r.headers = 1..count
  BY RequestsAssumption, LenProperties
<1>2. PICK lengths : lengths = {i \in DOMAIN r.headers : r.headers[i][1] = "content-length"}
  OBVIOUS
<1>3. PICK headers : headers = Meaning(r).headers
  OBVIOUS
<1>4. headers = [k \in {<<r.headers[i][1]>> : i \in DOMAIN r.headers} |-> ValueOf(r.headers, k[1])]
  BY <1>3 DEF Meaning
<1>5. <<"content-length">> \in DOMAIN headers <=> lengths # {}
  <2>1. \A a, b : <<a>> = <<b>> <=> a = b
    OBVIOUS
  <2>2. QED  BY <1>2, <1>4, <2>1
<1>6. CASE lengths = {}
  BY <1>2, <1>3, <1>5, <1>6 DEF WellFormed
<1>7. CASE lengths # {}
  <2>1. PICK first : first = Min(lengths)
    OBVIOUS
  <2>2. /\ first \in 1..count /\ r.headers[first][1] = "content-length"
        /\ \A i \in lengths : first <= i
    <3>1. lengths \subseteq Nat
      BY <1>1, <1>2
    <3>2. first \in lengths /\ \A i \in lengths : first <= i
      BY <1>7, <2>1, <3>1, LeastOf
    <3>3. QED  BY <1>1, <1>2, <3>2
  <2>3. Len(r.body) < Len(Digits) /\ r.headers[first][2] = <<Digits[Len(r.body) + 1]>>
    BY <1>2, <1>7, <2>1 DEF WellFormed
  <2>4. PICK value : value = SoFar(r, "content-length")
    OBVIOUS
  <2>5. /\ \A n \in 1..count :
              value[n] = value[n - 1] \o Contribution(r.headers, n, "content-length")
        /\ \A n \in 0..count : value[n] \in Seq(Symbols)
        /\ value[count] = ValueOf(r.headers, "content-length")
    BY <1>1, <2>4, ValueGrows
  <2> DEFINE Done == {n \in Nat : first <= n /\ n <= count => value[n] = r.headers[first][2]}
  <2>6. 0 \in Done
    BY <2>2
  <2>7. ASSUME NEW n \in Nat, n \in Done
        PROVE  n + 1 \in Done
    <3> SUFFICES ASSUME NEW i \in 1..count, i = n + 1, first <= i
                 PROVE  value[i] = r.headers[first][2]
      BY <2>2
    <3>1. value[i] = value[n] \o Contribution(r.headers, i, "content-length")
      <4>1. i - 1 = n
        OBVIOUS
      <4>2. QED  BY <2>5, <4>1
    <3>2. n \in 0..count
      OBVIOUS
    <3>3. CASE i = first
      <4>1. \A j \in 1..n : r.headers[j][1] # "content-length"
        BY <1>1, <1>2, <2>2, <3>3
      <4>2. value[n] = <<>>
        BY <1>1, <2>4, <3>2, <4>1, NoValueYet
      <4>3. Contribution(r.headers, i, "content-length") = r.headers[first][2]
        <5>1. ~ \E j \in 1..(i - 1) : r.headers[j][1] = "content-length"
          BY <4>1
        <5>2. QED  BY <2>2, <3>3, <5>1 DEF Contribution
      <4>4. r.headers[first][2] \in Seq(Words)
        BY <1>1, <2>2, HeaderLine
      <4>5. QED  BY <3>1, <4>2, <4>3, <4>4, ConcatEmptySeq
    <3>4. CASE i # first
      <4>1. first \in 1..(i - 1) /\ first <= n /\ n <= count
        BY <2>2, <3>4
      <4>2. Contribution(r.headers, i, "content-length") = <<>>
        BY <2>2, <4>1 DEF Contribution, unique_headers
      <4>3. value[n] = r.headers[first][2]
        BY <2>7, <4>1
      <4>4. QED  BY <2>5, <3>1, <3>2, <4>2, <4>3, ConcatEmptySeq
    <3>5. QED  BY <3>3, <3>4
  <2>8. value[count] = r.headers[first][2]
    <3>1. count \in Done
      <4> HIDE DEF Done
      <4>1. QED  BY <2>6, <2>7, AllNumbers
    <3>2. QED  BY <2>2, <3>1
  <2>9. headers[<<"content-length">>] = <<Digits[Len(r.body) + 1]>>
    <3>1. PICK k \in DOMAIN headers : k = <<"content-length">> /\ k[1] = "content-length"
      BY <1>5, <1>7
    <3>2. headers[k] = ValueOf(r.headers, k[1])
      BY <1>4
    <3>3. QED  BY <2>3, <2>5, <2>8, <3>1, <3>2
  <2>10. QED  BY <1>3, <1>5, <1>7, <2>3, <2>9
<1>8. QED  BY <1>6, <1>7

\* The lines of a whole head make a request line and headers.
LEMMA LinesRead ==
    ASSUME NEW r \in Requests, NEW new, IsRequest(new), new.headers = <<>>
    PROVE  LET read == AddLines(new, <<r.line>> \o HeaderLines(r))
           IN  /\ IsRequest(read) /\ read.cursor = new.cursor
               /\ read.line = RequestLine(r.line)
               /\ read.headers = Meaning(r).headers
               /\ read.body = new.body
<1>1. PICK lines \in Seq(Seq(Words)) : lines = HeaderLines(r)
  <2>1. PICK count \in Nat : DOMAIN r.headers = 1..count
    BY RequestsAssumption, LenProperties
  <2>2. \A i \in 1..count : HeaderLines(r)[i] \in Seq(Words)
    BY <2>1, HeaderLine
  <2>3. HeaderLines(r) \in [1..count -> Seq(Words)]
    BY <2>1, <2>2 DEF HeaderLines
  <2>4. QED  BY <2>3
<1>2. PICK line \in Seq(Words) : line = r.line
  BY RequestsAssumption
<1>3. PICK parts : parts = <<line>> \o lines
  OBVIOUS
<1>4. parts # <<>> /\ Head(parts) = line /\ Tail(parts) = lines
  <2>1. \A a \in Seq(Words), b \in Seq(Seq(Words)) :
            <<a>> \o b # <<>> /\ Head(<<a>> \o b) = a /\ Tail(<<a>> \o b) = b
    OBVIOUS
  <2>2. QED  BY <1>3, <2>1
<1>5. PICK more : more = HeadersOf(<<>>, lines)
  OBVIOUS
<1>6. more = Meaning(r).headers
  BY <1>1, <1>5, HeadersRead
<1>7. PICK cut : cut = RequestLine(line)
  OBVIOUS
<1>8. AddLines(new, parts) = [new EXCEPT !.line = cut, !.headers = more]
  BY <1>4, <1>5, <1>7 DEF AddLines, HeadersOf
<1>9. PICK read : read = [new EXCEPT !.line = cut, !.headers = more]
  OBVIOUS
<1>10. /\ IsRequest(read) /\ read.cursor = new.cursor
       /\ read.line = cut /\ read.headers = more /\ read.body = new.body
  BY <1>9 DEF IsRequest
<1>11. QED  BY <1>1, <1>2, <1>3, <1>6, <1>7, <1>8, <1>9, <1>10

\* The body stands behind the head and its empty line.
LEMMA BodyRead ==
    ASSUME NEW r \in Requests, NEW eol \in LineEnds, NEW header_end,
           header_end = Len(HeadBytes(r, eol)) + Len(eol)
    PROVE  LET m == Marshal(r, eol)
           IN  /\ header_end \in Nat /\ header_end > 0
               /\ Len(m) = header_end + Len(r.body)
               /\ SubSeq(m, header_end + 1, header_end + Len(r.body)) = r.body
<1>1. PICK m \in Messages : m = Marshal(r, eol)
  BY MarshalTyped
<1>2. PICK at : Layout(r, eol, m, at)
  BY <1>1, HasLayout
<1>3. PICK nb \in Nat : nb = Len(r.body)
  BY RequestsAssumption, LenProperties
<1>4. PICK e \in Nat : e = header_end /\ e > 0
  <2>1. PICK nh \in Nat : nh = Len(HeadBytes(r, eol))
    BY HeadLined, LengthOfMessage DEF Lined
  <2>2. PICK ne \in Nat : ne = Len(eol) /\ ne > 0
    <3>1. Len(eol) = 1 \/ Len(eol) = 2
      BY TerminatorTyped
    <3>2. CASE Len(eol) = 1
      BY <3>2
    <3>3. CASE Len(eol) = 2
      BY <3>3
    <3>4. QED  BY <3>1, <3>2, <3>3
  <2>3. nh + ne \in Nat /\ nh + ne > 0
    BY <2>2
  <2>4. QED  BY <2>1, <2>2, <2>3
<1>5. Len(m) = e + nb /\ \A j \in 1..nb : m[e + j] = r.body[j]
  BY <1>2, <1>3, <1>4, Zenon DEF Layout
<1>6. r.body \in Seq(Symbols)
  BY RequestsAssumption
<1>7. PICK cut : cut = SubSeq(m, e + 1, e + nb)
  OBVIOUS
<1>8. /\ cut \in Seq(Symbols)
      /\ Len(cut) = IF e + 1 <= e + nb THEN (e + nb) - (e + 1) + 1 ELSE 0
      /\ \A i \in 1..((e + nb) - (e + 1) + 1) : cut[i] = m[(e + 1) + i - 1]
  <2>1. \A i \in (e + 1)..(e + nb) : m[i] \in Symbols
    BY <1>5 DEF Messages
  <2>2. e + 1 \in Int /\ e + nb \in Int
    OBVIOUS
  <2>3. QED  BY <1>7, <2>1, <2>2, SubSeqProperties
<1>9. Len(cut) = nb /\ \A i \in 1..nb : cut[i] = r.body[i]
  <2>1. /\ (e + nb) - (e + 1) + 1 = nb /\ \A i \in 1..nb : (e + 1) + i - 1 = e + i
        /\ (IF e + 1 <= e + nb THEN (e + nb) - (e + 1) + 1 ELSE 0) = nb
    OBVIOUS
  <2>2. Len(cut) = nb
    BY <1>8, <2>1
  <2>3. ASSUME NEW i \in 1..nb
        PROVE  cut[i] = r.body[i]
    <3>1. cut[i] = m[(e + 1) + i - 1] /\ (e + 1) + i - 1 = e + i
      BY <1>8, <2>1
    <3>2. QED  BY <1>5, <3>1
  <2>4. QED  BY <2>2, <2>3
<1>10. cut = r.body
  BY <1>3, <1>6, <1>8, <1>9, SeqEqual
<1>11. QED  BY <1>1, <1>3, <1>4, <1>5, <1>7, <1>10

\* The length in a header is the one it stands for.
LEMMA LengthOfBody ==
    ASSUME NEW r \in Requests, WellFormed(r), NEW read, read.headers = Meaning(r).headers
    PROVE  /\ BodyLength(read) = Len(r.body)
           /\ ~HasBody(read) => r.body = <<>>
           /\ HasBody(read) => Contains(Digits, ContentLength(read))
<1>1. PICK n \in Nat : n = Len(r.body) /\ (r.body = <<>> <=> n = 0)
  BY RequestsAssumption, EmptySeq
<1>2. Len(Digits) = 4 /\ Digits[1] = "0" /\ Digits[2] = "1" /\ Digits[3] = "2" /\ Digits[4] = "3"
  BY DEF Digits
<1>3. CASE ~HasBody(read)
  <2>1. r.body = <<>>
    BY <1>3, LengthRead DEF HasBody
  <2>2. QED  BY <1>1, <1>3, <2>1 DEF BodyLength
<1>4. CASE HasBody(read)
  <2>1. n < 4 /\ ContentLength(read) = Digits[n + 1]
    <3>1. n < Len(Digits) /\ read.headers[<<"content-length">>] = <<Digits[n + 1]>>
      BY <1>1, <1>4, LengthRead DEF HasBody
    <3>2. QED  BY <1>2, <3>1 DEF ContentLength
  <2>2. PICK i \in 1..4 : i = n + 1 /\ ContentLength(read) = Digits[i]
    BY <2>1
  <2>3. Contains(Digits, ContentLength(read))
    BY <1>2, <2>2 DEF Contains
  <2>4. {j \in 1..Len(Digits) : Digits[j] = ContentLength(read)} = {i}
    <3>1. \A j \in 1..4 : Digits[j] = Digits[i] => j = i
      BY <1>2
    <3>2. QED  BY <1>2, <2>2, <3>1
  <2>5. Min({i}) = i
    <3>1. Min({i}) \in {i}
      BY LeastOf
    <3>2. QED  BY <3>1
  <2>6. SelectInSeq(Digits, LAMBDA d : d = ContentLength(read)) = i
    BY <2>4, <2>5 DEF SelectInSeq
  <2>7. BodyLength(read) = i - 1
    BY <1>4, <2>6 DEF BodyLength
  <2>8. QED  BY <1>1, <1>4, <2>2, <2>3, <2>7
<1>5. QED  BY <1>3, <1>4

\* One call with all of a request's bytes understands it.
LEMMA WholeRequestParsed ==
    ASSUME NEW r \in Requests, NEW eol \in LineEnds, WellFormed(r),
           ~(eol = <<"CR">> /\ r.body # <<>> /\ r.body[1] = "LF")
    PROVE  LET m      == Marshal(r, eol)
               parsed == Parsed(Empty, m)
           IN  /\ ~Throws(Empty, m)
               /\ parsed.cursor = PARSE_COMPLETE
               /\ parsed.line = RequestLine(r.line)
               /\ parsed.headers = Meaning(r).headers
               /\ parsed.body = r.body
<1>1. PICK m : m = Marshal(r, eol)
  OBVIOUS
<1>2. PICK found : found = Scan(m, 0)
  OBVIOUS
<1>3. PICK header_end : header_end = Len(HeadBytes(r, eol)) + Len(eol)
  OBVIOUS
<1>4. /\ found.parts = <<r.line>> \o HeaderLines(r)
      /\ found.header_end = header_end
  BY <1>1, <1>2, <1>3, HeadScanned
<1>5. /\ header_end \in Nat /\ header_end > 0
      /\ Len(m) = header_end + Len(r.body)
      /\ SubSeq(m, header_end + 1, header_end + Len(r.body)) = r.body
  BY <1>1, <1>3, BodyRead
<1>6. IsRequest(Empty) /\ Empty.cursor = 0 /\ Empty.headers = <<>> /\ Empty.body = <<>>
  BY DEF Empty, IsRequest
<1>7. ~Throws(Empty, m)
  <2>1. PICK read : read = AddLines(Empty, found.parts)
    OBVIOUS
  <2>2. read.headers = Meaning(r).headers
    BY <1>4, <1>6, <2>1, LinesRead
  <2>3. HasBody(read) => Contains(Digits, ContentLength(read))
    BY <2>2, LengthOfBody
  <2>4. ASSUME NEW i \in DOMAIN found.parts
        PROVE  IF i = 1 THEN ~(Cardinality(Spaces(found.parts[i])) < 2)
                        ELSE Colons(found.parts[i]) # {}
    <3>1. PICK count \in Nat : DOMAIN r.headers = 1..count
      BY RequestsAssumption, LenProperties
    <3>2. HeaderLines(r) \in Seq(Seq(Words)) /\ Len(HeaderLines(r)) = count
      <4>1. \A k \in 1..count : HeaderLines(r)[k] \in Seq(Words)
        BY <3>1, HeaderLine
      <4>2. HeaderLines(r) \in [1..count -> Seq(Words)]
        BY <3>1, <4>1 DEF HeaderLines
      <4>3. QED  BY <4>2
    <3>3. PICK lines \in Seq(Seq(Words)) : lines = HeaderLines(r) /\ Len(lines) = count
      BY <3>2
    <3>4. PICK line \in Seq(Words) : line = r.line
      BY RequestsAssumption
    <3>5. /\ i \in 1..(count + 1)
          /\ found.parts[i] = IF i = 1 THEN line ELSE lines[i - 1]
      <4>1. \A a \in Seq(Words) :
                <<a>> \in Seq(Seq(Words)) /\ Len(<<a>>) = 1 /\ <<a>>[1] = a
        OBVIOUS
      <4>2. PICK first \in Seq(Seq(Words)) : first = <<line>> /\ Len(first) = 1 /\ first[1] = line
        BY <4>1
      <4>3. found.parts = first \o lines
        BY <1>4, <3>3, <3>4, <4>2
      <4>4. /\ first \o lines \in Seq(Seq(Words)) /\ Len(first \o lines) = 1 + count
            /\ \A k \in 1..(1 + count) : (first \o lines)[k] = IF k <= 1 THEN first[k] ELSE lines[k - 1]
        BY <3>3, <4>2, ConcatProperties
      <4>5. i \in 1..(1 + count)
        BY <4>3, <4>4
      <4>6. QED  BY <4>2, <4>3, <4>4, <4>5
    <3>6. CASE i = 1
      <4>1. found.parts[i] = r.line /\ Cardinality(Spaces(r.line)) >= 2
        BY <3>4, <3>5, <3>6 DEF WellFormed
      <4>2. Cardinality(Spaces(r.line)) \in Nat
        <5>1. IsFiniteSet(1..Len(line)) /\ Spaces(line) \in SUBSET (1..Len(line))
          <6>1. Len(line) \in Int /\ DOMAIN line = 1..Len(line)
            BY LenProperties
          <6>2. QED  BY <6>1, FS_Interval DEF Spaces
        <5>2. IsFiniteSet(Spaces(line))
          BY <5>1, FS_Subset
        <5>3. QED  BY <3>4, <5>2, FS_CardinalityType
      <4>3. QED  BY <3>6, <4>1, <4>2
    <3>7. CASE i # 1
      <4>1. PICK k \in 1..count : k = i - 1
        BY <3>5, <3>7
      <4>2. found.parts[i] = HeaderLines(r)[k]
        BY <3>3, <3>5, <3>7, <4>1
      <4>3. Colons(HeaderLines(r)[k]) # {}
        BY <3>1, HeaderCut
      <4>4. QED  BY <3>7, <4>2, <4>3
    <3>8. QED  BY <3>6, <3>7
  <2>5. Scan(m, Empty.cursor) = found
    BY <1>2, <1>6
  <2>6. QED  BY <2>1, <2>3, <2>4, <2>5 DEF Throws
<1>8. PICK moved : moved = [Empty EXCEPT !.cursor = found.cursor]
  OBVIOUS
<1>9. IsRequest(moved) /\ moved.headers = <<>> /\ moved.body = <<>>
  BY <1>6, <1>8 DEF IsRequest
<1>10. PICK read : read = AddLines(moved, found.parts)
  OBVIOUS
<1>11. /\ IsRequest(read) /\ read.line = RequestLine(r.line)
       /\ read.headers = Meaning(r).headers /\ read.body = <<>>
  BY <1>4, <1>9, <1>10, LinesRead
<1>12. Parsed(Empty, m) = TakeBody(read, m, header_end)
  <2>1. Scan(m, Empty.cursor) = found
    BY <1>2, <1>6
  <2>2. Parsed(Empty, m) = IF found.header_end = 0 THEN read ELSE TakeBody(read, m, found.header_end)
    BY <1>8, <1>10, <2>1 DEF Parsed
  <2>3. found.header_end # 0
    BY <1>4, <1>5
  <2>4. QED  BY <1>4, <2>2, <2>3
<1>13. BodyLength(read) = Len(r.body) /\ (~HasBody(read) => r.body = <<>>)
  BY <1>11, LengthOfBody
<1>14. TakeBody(read, m, header_end) = [read EXCEPT !.cursor = PARSE_COMPLETE, !.body = r.body]
  <2>1. ~(header_end + BodyLength(read) > Len(m))
    <3>1. PICK nb \in Nat : nb = Len(r.body)
      BY RequestsAssumption, LenProperties
    <3>2. QED  BY <1>5, <1>13, <3>1
  <2>2. PICK body : body = IF HasBody(read) THEN SubSeq(m, header_end + 1, header_end + BodyLength(read))
                                            ELSE read.body
    OBVIOUS
  <2>3. body = r.body
    BY <1>5, <1>11, <1>13, <2>2
  <2>4. TakeBody(read, m, header_end) = [read EXCEPT !.cursor = PARSE_COMPLETE, !.body = body]
    BY <2>1, <2>2 DEF TakeBody
  <2>5. QED  BY <2>3, <2>4
<1>15. PICK parsed : parsed = [read EXCEPT !.cursor = PARSE_COMPLETE, !.body = r.body]
  OBVIOUS
<1>16. /\ parsed.cursor = PARSE_COMPLETE /\ parsed.line = read.line
       /\ parsed.headers = read.headers /\ parsed.body = r.body
  BY <1>11, <1>15 DEF IsRequest
<1>17. QED  BY <1>1, <1>7, <1>11, <1>12, <1>14, <1>15, <1>16

\* A well-formed request of which everything behind the first line terminator
\* comes in the last chunk is understood as the client meant it, for every
\* request, header, body and line terminator.
THEOREM WholeUnderstood == Spec => []UnderstoodWhenWhole
<1>1. ASSUME ParserInv, wire = <<>>, ~cutHead, Clear
      PROVE  Understood
  <2>1. PICK r \in Requests, eol \in LineEnds : sent.request = r /\ sent.eol = eol
    BY <1>1 DEF ParserInv, TypeOK
  <2>2. message_buffer = Marshal(r, eol)
    <3>1. message_buffer \o <<>> = Marshal(r, eol)
      BY <1>1, <2>1 DEF ParserInv, TypeOK
    <3>2. message_buffer \in Seq(Symbols)
      BY <1>1 DEF ParserInv, Buffers
    <3>3. QED  BY <3>1, <3>2, ConcatEmptySeq
  <2>3. WellFormed(r) /\ ~(eol = <<"CR">> /\ r.body # <<>> /\ r.body[1] = "LF")
    BY <1>1, <2>1 DEF Clear, TerminatorReachesBody
  <2>4. PICK parsed : parsed = Parsed(Empty, Marshal(r, eol))
    OBVIOUS
  <2>5. /\ ~Throws(Empty, Marshal(r, eol))
        /\ parsed.cursor = PARSE_COMPLETE
        /\ parsed.line = RequestLine(r.line)
        /\ parsed.headers = Meaning(r).headers
        /\ parsed.body = r.body
    BY <2>3, <2>4, WholeRequestParsed
  <2>6. request = parsed
    BY <1>1, <2>2, <2>4, <2>5 DEF ParserInv, ChunksLeaveNoTrace
  <2>7. r.line \in Seq(Words) /\ Cardinality(Spaces(r.line)) >= 2
    BY <2>3, RequestsAssumption DEF WellFormed
  <2>8. PICK line : line = parsed.line[1] \o <<"SP">> \o parsed.line[2] \o <<"SP">> \o parsed.line[3]
    OBVIOUS
  <2>9. line = r.line
    BY <2>5, <2>7, <2>8, RequestLineKept
  <2>10. Meaning(r) = [line |-> line, body |-> parsed.body, headers |-> parsed.headers]
    <3>1. PICK headers : headers = Meaning(r).headers
      OBVIOUS
    <3>2. Meaning(r) = [line |-> r.line, body |-> r.body, headers |-> headers]
      BY <3>1 DEF Meaning
    <3>3. QED  BY <2>5, <2>9, <3>1, <3>2
  <2>11. QED  BY <2>1, <2>5, <2>6, <2>8, <2>10 DEF Understood, Ready
<1>2. ParserInv => UnderstoodWhenWhole
  BY <1>1 DEF UnderstoodWhenWhole
<1>3. QED  BY <1>2, ParserInvariant, PTL
=============================================================================
