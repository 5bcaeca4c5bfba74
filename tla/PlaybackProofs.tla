--------------------------- MODULE PlaybackProofs ---------------------------
(***************************************************************************)
(* Proofs about the playing of a session, for any tracks, Range headers    *)
(* and numbers of handlers; first, what parse_range_header() makes of the  *)
(* forms of its grammar, for all numbers.                                  *)
(***************************************************************************)
EXTENDS Playback, SequenceTheorems, TLAPS
-----------------------------------------------------------------------------
(***************************************************************************)
(* The inductive invariant.                                                *)
(***************************************************************************)

\* send_frames() works on a track; play() on one, too, between its two calls,
\* and with a Range header that it could parse.
TracksInHand ==
    /\ wpc \in {"test", "frame"} => current \in Tracks
    /\ \A h \in Handlers :
          /\ hpc[h] = "end" => next[h] \in Tracks
          /\ hpc[h] \in {"time", "end"} => ~Throws(range[h])

\* The worker's cutoff stays within the range end, and play_time before it.
CutoffInRange ==
    wpc \in {"test", "frame"} /\ undisturbed =>
        /\ play_range_end[current] # 0 => ~Less(play_range_end[current], cutoff)
        /\ wpc = "frame" => Less(play_time[current], cutoff)

\* After a frame at or behind the range end the track's loop is over, in this
\* pass and in those to come.
BehindStops ==
    \A t \in Tracks :
        /\ behind[t] \in {0, 1}
        /\ behind[t] = 1 =>
              /\ play_range_end[t] # 0
              /\ ~Less(play_time[t], play_range_end[t])
              /\ wpc = "test" /\ current = t => ~Less(play_time[t], cutoff)
              /\ ~(wpc = "frame" /\ current = t)

\* A PLAY with a Range header is under way.
Setting(h) == hpc[h] \in {"time", "end"}
Ranged(h) == Setting(h) \/ (hpc[h] = "reply" /\ range[h] # <<>>)

RangedAlone ==
    ~mixed => \A h, g \in Handlers : Ranged(h) /\ Ranged(g) => h = g

\* The session and its tracks know the same end.
Settled == \A t \in Tracks : play_range_end[t] = play_range[2]

SettledBetween == ~mixed /\ (\A h \in Handlers : ~Setting(h)) => Settled

\* How far play()'s loop has come.
EndsSet ==
    ~mixed => \A h \in Handlers : Setting(h) =>
        LET end == ParseRange(range[h])[2]
        IN  /\ end = 0 => Settled
            /\ end # 0 => \A t \in Tracks : t < next[h] => play_range_end[t] = end

BeginKnown(h) ==
    \/ hpc[h] = "end"
    \/ hpc[h] = "time" /\ next[h] > 1
    \/ hpc[h] = "reply" /\ range[h] # <<>> /\ Kind # <<>>

BeginSet ==
    ~mixed => \A h \in Handlers :
        BeginKnown(h) => play_range[1] = ParseRange(range[h])[1]

EndKnown(h) ==
    /\ ParseRange(range[h])[2] # 0
    /\ \/ hpc[h] \in {"time", "end"} /\ next[h] > 1
       \/ hpc[h] = "reply" /\ range[h] # <<>> /\ Kind # <<>>

EndSet ==
    ~mixed => \A h \in Handlers :
        EndKnown(h) => play_range[2] = ParseRange(range[h])[2]

PlaybackInv ==
    TypeOK /\ TracksInHand /\ CutoffInRange /\ BehindStops /\ RangedAlone
        /\ SettledBetween /\ EndsSet /\ BeginSet /\ EndSet
-----------------------------------------------------------------------------
\* A text that ends behind its first dash is its one time.
LEMMA OpenText ==
    ASSUME NEW t \in Times
    PROVE  Split(<<t, <<>>>>) = <<t>>
<1> DEFINE text == <<t, <<>>>>
           front == SubSeq(text, 1, 1)
<1>1. text # <<>> /\ Last(text) = <<>> /\ Len(text) - 1 = 1
  BY DEF Last
<1>2. Split(text) = front
  BY <1>1 DEF Split, Front
<1>3. \A i \in 1..1 : text[i] \in Times
  OBVIOUS
<1>4. front \in Seq(Times) /\ Len(front) = 1 /\ front[1] = t
  <2> HIDE DEF text
  <2>1. /\ front \in Seq(Times)
        /\ Len(front) = IF 1 <= 1 THEN 1 - 1 + 1 ELSE 0
        /\ \A i \in 1..(1 - 1 + 1) : front[i] = text[1 + i - 1]
    BY <1>3, SubSeqProperties
  <2>2. text[1] = t
    BY DEF text
  <2>3. QED  BY <2>1, <2>2
<1>5. <<t>> \in Seq(Times) /\ Len(<<t>>) = 1 /\ <<t>>[1] = t
  OBVIOUS
<1> HIDE DEF front
<1>6. front = <<t>>
  BY <1>4, <1>5, SeqEqual
<1>7. QED  BY <1>2, <1>6

\* The sum of Seconds for a time of three numbers.
LEMMA SecondsOfClock ==
    ASSUME NEW h \in Nat, NEW m \in Nat, NEW s \in Nat
    PROVE  Seconds(<<h, m, s>>) = 3600 * h + 60 * m + s
<1> DEFINE time == <<h, m, s>>
           Sums(f) == f = [i \in 0..Len(time) |->
                             IF i = 0 THEN 0 ELSE 60 * f[i - 1] + time[i]]
<1>1. Len(time) = 3 /\ time[1] = h /\ time[2] = m /\ time[3] = s
  OBVIOUS
<1>2. PICK g : g = [i \in 0..3 |-> IF i = 0 THEN 0 ELSE IF i = 1 THEN h
                                   ELSE IF i = 2 THEN 60 * h + m
                                   ELSE 60 * (60 * h + m) + s]
  OBVIOUS
<1>3. Sums(g)
  <2>1. /\ g[0] = 0 /\ g[1] = h /\ g[2] = 60 * h + m
        /\ g[3] = 60 * (60 * h + m) + s
    BY <1>2
  <2>2. \A i \in 0..3 : i = 0 \/ i = 1 \/ i = 2 \/ i = 3
    OBVIOUS
  <2> HIDE DEF time
  <2>3. \A i \in 0..3 : g[i] = IF i = 0 THEN 0 ELSE 60 * g[i - 1] + time[i]
    BY <1>1, <2>1, <2>2
  <2>4. QED  BY <1>1, <1>2, <2>3
<1>4. PICK sum : sum = CHOOSE f : Sums(f)
  OBVIOUS
<1>5. Sums(sum)
  <2> HIDE DEF Sums
  <2>1. QED  BY <1>3, <1>4
<1>6. Seconds(time) = sum[3]
  BY <1>1, <1>4 DEF Seconds
<1>7. sum[0] = 0 /\ sum[1] = 60 * sum[0] + h
  BY <1>1, <1>5
<1>8. sum[2] = 60 * sum[1] + m
  BY <1>1, <1>5
<1>9. sum[3] = 60 * sum[2] + s
  BY <1>1, <1>5
<1>10. sum[1] = h /\ sum[2] = 60 * h + m
  BY <1>7, <1>8
<1>11. sum[3] = 3600 * h + 60 * m + s
  BY <1>9, <1>10
<1>12. QED  BY <1>6, <1>11

\* A range with two times in seconds is understood, and the answer repeats it.
THEOREM BoundedRangeRoundTrip ==
    \A b, e \in Numbers :
        /\ ~Throws(<<<<b>>, <<e>>>>)
        /\ FormatRange(ParseRange(<<<<b>>, <<e>>>>)) = <<<<b>>, <<e>>>>
<1> SUFFICES ASSUME NEW b \in Numbers, NEW e \in Numbers
             PROVE  /\ ~Throws(<<<<b>>, <<e>>>>)
                    /\ FormatRange(ParseRange(<<<<b>>, <<e>>>>)) = <<<<b>>, <<e>>>>
  OBVIOUS
<1> DEFINE text == <<<<b>>, <<e>>>>
<1>1. Split(text) = text
  BY DEF Split, Last
<1>2. QED  BY <1>1 DEF Throws, ParseRange, FromChars, FormatRange, FormatTime

\* An open range is understood, but the answer names an end, 0, before its
\* begin; the grammar's third form, without a begin, is refused.
THEOREM OpenRangeAnswered ==
    \A b, e \in Numbers :
        /\ ~Throws(<<<<b>>, <<>>>>)
        /\ FormatRange(ParseRange(<<<<b>>, <<>>>>)) = <<<<b>>, <<0>>>>
        /\ Throws(<<<<>>, <<e>>>>)
<1> SUFFICES ASSUME NEW b \in Numbers, NEW e \in Numbers
             PROVE  /\ ~Throws(<<<<b>>, <<>>>>)
                    /\ FormatRange(ParseRange(<<<<b>>, <<>>>>)) = <<<<b>>, <<0>>>>
                    /\ Throws(<<<<>>, <<e>>>>)
  OBVIOUS
<1>1. Split(<<<<b>>, <<>>>>) = <<<<b>>>>
  BY OpenText DEF Times
<1>2. Split(<<<<>>, <<e>>>>) = <<<<>>, <<e>>>>
  BY DEF Split, Last
<1>3. QED  BY <1>1, <1>2 DEF Throws, ParseRange, FromChars, FormatRange, FormatTime

\* A time with hours and minutes is read as its hours, taken for seconds: the
\* right value only for 0:00:00.
THEOREM ClockTimeMisread ==
    \A h, m, s \in Numbers :
        ParseRange(<<<<h, m, s>>, <<>>>>)[1] = Seconds(<<h, m, s>>)
            <=> h = 0 /\ m = 0 /\ s = 0
<1> SUFFICES ASSUME NEW h \in Numbers, NEW m \in Numbers, NEW s \in Numbers
             PROVE  ParseRange(<<<<h, m, s>>, <<>>>>)[1] = Seconds(<<h, m, s>>)
                        <=> h = 0 /\ m = 0 /\ s = 0
  OBVIOUS
<1>1. Split(<<<<h, m, s>>, <<>>>>) = <<<<h, m, s>>>>
  <2>1. <<h, m, s>> \in Times
    BY DEF Times
  <2>2. QED  BY <2>1, OpenText
<1>2. ParseRange(<<<<h, m, s>>, <<>>>>)[1] = h
  BY <1>1 DEF ParseRange, FromChars
<1>3. h \in Nat /\ m \in Nat /\ s \in Nat
  BY DEF Numbers
<1>4. h = Seconds(<<h, m, s>>) <=> h = 0 /\ m = 0 /\ s = 0
  BY <1>3, SecondsOfClock
<1>5. QED  BY <1>2, <1>4

\* A text of times that is not refused gives a pair of numbers.
LEMMA SplitTyped ==
    ASSUME NEW text \in Texts
    PROVE  Split(text) \in Texts
<1>1. CASE text = <<>> \/ Last(text) # <<>>
  <2>1. Split(text) = text
    BY <1>1 DEF Split
  <2>2. QED  BY <2>1 DEF Texts
<1>2. CASE text # <<>> /\ Last(text) = <<>>
  <2>1. PICK n : n = Len(text) - 1
    OBVIOUS
  <2>2. n \in Nat /\ Len(text) = n + 1 /\ text \in Seq(Times)
    BY <1>2, <2>1 DEF Texts
  <2>3. Split(text) = SubSeq(text, 1, n)
    BY <1>2, <2>1 DEF Split, Front
  <2>4. \A i \in 1..n : text[i] \in Times
    BY <2>2
  <2>5. /\ SubSeq(text, 1, n) \in Seq(Times)
        /\ Len(SubSeq(text, 1, n)) = IF 1 <= n THEN n - 1 + 1 ELSE 0
        /\ \A i \in 1..(n - 1 + 1) : SubSeq(text, 1, n)[i] = text[1 + i - 1]
    BY <2>2, <2>4, SubSeqProperties
  <2>6. QED  BY <2>3, <2>5 DEF Texts
<1>3. QED  BY <1>1, <1>2

LEMMA ParsedRange ==
    ASSUME NEW text \in Texts, ~Throws(text)
    PROVE  ParseRange(text) \in Nat \X Nat
<1>1. PICK parts : parts = Split(text)
  OBVIOUS
<1>2. parts \in Seq(Seq(Numbers))
  BY <1>1, SplitTyped DEF Texts, Times
<1>3. \A i \in {1, 2} \cap DOMAIN parts : parts[i] # <<>>
  BY <1>1 DEF Throws
<1>4. \A i \in {1, 2} \cap DOMAIN parts : FromChars(parts[i]) \in Nat
  BY <1>2, <1>3 DEF FromChars, Numbers
<1>5. CASE parts = <<>>
  BY <1>1, <1>5 DEF ParseRange
<1>6. CASE parts # <<>>
  <2>1. 1 \in DOMAIN parts /\ (Len(parts) > 1 => 2 \in DOMAIN parts)
    BY <1>2, <1>6
  <2>2. /\ FromChars(parts[1]) \in Nat
        /\ Len(parts) > 1 => FromChars(parts[2]) \in Nat
    BY <1>4, <2>1
  <2>3. ParseRange(text) =
          <<FromChars(parts[1]), IF Len(parts) > 1 THEN FromChars(parts[2]) ELSE 0>>
    BY <1>1, <1>6 DEF ParseRange
  <2>4. QED  BY <2>2, <2>3
<1>7. QED  BY <1>5, <1>6

\* Two times in seconds, and what is made of them.
LEMMA BoundedText ==
    ASSUME NEW text \in Texts, Len(text) = 2, Len(text[1]) = 1, Len(text[2]) = 1,
           text[2] # << 0 >>
    PROVE  /\ text # <<>> /\ ParseRange(text)[2] # 0
           /\ text = <<<<ParseRange(text)[1]>>, <<ParseRange(text)[2]>>>>
<1>1. text[1] \in Seq(Numbers) /\ text[2] \in Seq(Numbers) /\ text \in Seq(Times)
  BY DEF Texts, Times
<1>2. PICK b, e : b = text[1] /\ e = text[2]
  OBVIOUS
<1>3. b = <<b[1]>> /\ e = <<e[1]>>
  BY <1>1, <1>2
<1>4. text = <<<<b[1]>>, <<e[1]>>>>
  BY <1>1, <1>2, <1>3
<1>5. Split(text) = text
  <2>1. text # <<>> /\ Last(text) # <<>>
    BY <1>4 DEF Last
  <2>2. QED  BY <2>1 DEF Split
<1>6. ParseRange(text) = <<b[1], e[1]>>
  BY <1>4, <1>5 DEF ParseRange, FromChars
<1>7. QED  BY <1>2, <1>3, <1>4, <1>6

(***************************************************************************)
(* Types, and what is in hand.                                             *)
(***************************************************************************)

LEMMA TrackNumbers ==
    /\ Tracks = 1..Len(Kind) /\ Len(Kind) \in Nat
    /\ \A t \in Tracks : Kind[t] \in {"audio", "video"} /\ t + 1 \in 1..(Len(Kind) + 1)
  BY KindAssumption DEF Tracks

LEMMA CutoffTyped ==
    ASSUME TypeOK, NEW t \in Tracks
    PROVE  Cutoff(t) \in Floats
<1>1. play_time[t] \in Nat \cup {-1} /\ play_range_end[t] \in Nat /\ Buffer \in Nat
  BY BufferAssumption DEF TypeOK, Floats, NaN
<1>2. Plus(play_time[t], Buffer) \in Nat \cup {-1}
  BY <1>1 DEF Plus, NaN, Inf
<1>3. QED  BY <1>1, <1>2 DEF Cutoff, Floats, NaN

LEMMA NptTyped ==
    ASSUME NEW t \in Tracks, NEW timestamp \in Nat
    PROVE  NptOf(t, timestamp) \in Floats
  BY TrackNumbers DEF NptOf, Floats, NaN, Inf

LEMMA TypeInit == Init => TypeOK /\ TracksInHand
<1>1. 1 \in 1..(Len(Kind) + 1) /\ 0 \in 0..Frames /\ 0 \in 0..MaxRequests
  BY TrackNumbers, BufferAssumption, RequestsAssumption
<1>2. <<>> \in Texts
  BY DEF Texts
<1>3. <<0, 0>> \in [1..2 -> Nat]
  OBVIOUS
<1>4. 0 \in Floats /\ 0 \in Nat
  BY DEF Floats
<1>5. Init => TypeOK
  BY <1>1, <1>2, <1>3, <1>4 DEF Init, TypeOK
<1>6. Init => TracksInHand
  BY DEF Init, TracksInHand
<1>7. QED  BY <1>5, <1>6

LEMMA TypeWorker ==
    ASSUME TypeOK, TracksInHand, Worker
    PROVE  TypeOK' /\ TracksInHand'
<1> USE DEF TypeOK, TracksInHand, times, handlers
<1>1. 1 \in 1..(Len(Kind) + 1) /\ 0 \in Floats
  BY TrackNumbers DEF Floats
<1>2. CASE StartTick
  BY <1>2 DEF StartTick
<1>3. CASE StartTrack
  BY <1>3, CutoffTyped DEF StartTrack
<1>4. CASE GoOn
  BY <1>4 DEF GoOn
<1>5. CASE EndTrack
  <2>1. current + 1 \in 1..(Len(Kind) + 1)
    BY <1>5, TrackNumbers DEF EndTrack
  <2>2. QED  BY <1>1, <1>5, <2>1 DEF EndTrack, LeaveSendFrames
<1>6. CASE SendFrame
  <2>1. current \in Tracks
    BY <1>6 DEF SendFrame
  <2>2. position[current] \in 0..Frames /\ Frames \in Nat
    BY <2>1, BufferAssumption
  <2>3. NextTimestamp(current) \in Nat
    BY <2>2 DEF NextTimestamp
  <2>4. play_time' \in [Tracks -> Floats]
    BY <1>6, <2>1, <2>3, NptTyped DEF SendFrame
  <2>5. position' \in [Tracks -> 0..Frames]
    <3>1. position' = [position EXCEPT ![current] = IF @ < Frames THEN @ + 1 ELSE @]
      BY <1>6 DEF SendFrame
    <3>2. (IF position[current] < Frames THEN position[current] + 1 ELSE position[current])
            \in 0..Frames
      BY <2>2
    <3>3. QED  BY <3>1, <3>2
  <2>9. behind' \in [Tracks -> Nat]
    BY <1>6, <2>1 DEF SendFrame, CountBehind
  <2>6. CASE wpc' = "test" /\ UNCHANGED <<current, cutoff, did_send, any_sent, undisturbed>>
    BY <1>6, <2>1, <2>4, <2>5, <2>6, <2>9 DEF SendFrame
  <2>7. CASE LeaveTick
    BY <1>1, <1>6, <2>4, <2>5, <2>7, <2>9 DEF SendFrame, LeaveTick, LeaveSendFrames
  <2>8. QED  BY <1>6, <2>6, <2>7 DEF SendFrame
<1>7. CASE EndTick
  BY <1>1, <1>7 DEF EndTick, LeaveTick, LeaveSendFrames
<1>8. QED  BY <1>2, <1>3, <1>4, <1>5, <1>6, <1>7 DEF Worker

LEMMA TypeRequest ==
    ASSUME TypeOK, TracksInHand, NEW h \in Handlers, Request(h)
    PROVE  TypeOK' /\ TracksInHand'
<1> USE DEF TypeOK, TracksInHand, times, worker
<1>1. CASE Accept(h)
  <2>1. requests' \in 0..MaxRequests
    BY <1>1, RequestsAssumption DEF Accept
  <2>2. CASE Play(h)
    <3>1. <<>> \in Texts
      BY DEF Texts
    <3>2. QED  BY <2>1, <2>2, <3>1 DEF Play
  <2>3. CASE Pause(h)
    BY <2>1, <2>3 DEF Pause
  <2>4. CASE \E text \in Ranges : InvalidRange(h, text)
    BY <2>1, <2>4 DEF InvalidRange
  <2>5. CASE \E text \in Ranges : PlayRange(h, text)
    <3>1. PICK text \in Ranges : PlayRange(h, text)
      BY <2>5
    <3>2. text \in Texts /\ 1 \in 1..(Len(Kind) + 1)
      BY RangesAssumption, TrackNumbers
    <3>3. ~Throws(text)
      BY <3>1 DEF PlayRange
    <3>4. mixed' \in BOOLEAN
      BY <3>1 DEF PlayRange
    <3>5. /\ is_playing' = TRUE
          /\ hpc' = [hpc EXCEPT ![h] = "time"]
          /\ range' = [range EXCEPT ![h] = text]
          /\ next' = [next EXCEPT ![h] = 1]
          /\ UNCHANGED <<play_range, times, position, worker, undisturbed>>
      BY <3>1 DEF PlayRange
    <3>6. TypeOK'
      BY <2>1, <3>2, <3>4, <3>5
    <3>7. TracksInHand'
      BY <3>3, <3>5
    <3>8. QED  BY <3>6, <3>7
  <2>6. QED  BY <2>2, <2>3, <2>4, <2>5 DEF Request
<1>2. QED  BY <1>1 DEF Request, Play, Pause, PlayRange, InvalidRange

LEMMA TypeAnswer ==
    ASSUME TypeOK, TracksInHand, NEW h \in Handlers, Answer(h)
    PROVE  TypeOK' /\ TracksInHand'
<1> USE DEF TypeOK, TracksInHand, times, worker
<1>1. Setting(h) => ParseRange(range[h])[1] \in Nat /\ ParseRange(range[h])[2] \in Nat
  BY ParsedRange DEF Setting
<1>2. CASE SetPlayTime(h)
  <2>1. ParseRange(range[h])[1] \in Floats /\ ParseRange(range[h])[1] \in Nat
    BY <1>1, <1>2 DEF SetPlayTime, Setting, Floats
  <2>2. /\ play_time' \in [Tracks -> Floats]
        /\ play_range' \in [1..2 -> Nat]
        /\ behind' \in [Tracks -> Nat]
    BY <1>2, <2>1 DEF SetPlayTime
  <2>3. QED  BY <1>2, <2>2 DEF SetPlayTime
<1>3. CASE SetRangeEnd(h)
  <2>1. ParseRange(range[h])[2] \in Nat
    BY <1>1, <1>3 DEF SetRangeEnd, Setting
  <2>2. next[h] \in Tracks /\ next[h] + 1 \in 1..(Len(Kind) + 1)
    BY <1>3, TrackNumbers DEF SetRangeEnd
  <2>3. play_range_end' \in [Tracks -> Nat] /\ play_range' \in [1..2 -> Nat]
    BY <1>3, <2>1 DEF SetRangeEnd
  <2>5. behind' \in [Tracks -> Nat]
    BY <1>3, <2>2 DEF SetRangeEnd
  <2>4. QED  BY <1>3, <2>2, <2>3, <2>5 DEF SetRangeEnd
<1>4. CASE EndOfTracks(h)
  BY <1>4 DEF EndOfTracks
<1>5. CASE Reply(h)
  <2>1. <<>> \in Texts /\ 1 \in 1..(Len(Kind) + 1)
    BY TrackNumbers DEF Texts
  <2>2. QED  BY <1>5, <2>1 DEF Reply
<1>6. QED  BY <1>2, <1>3, <1>4, <1>5 DEF Answer

(***************************************************************************)
(* The worker and the range end.                                           *)
(***************************************************************************)

LEMMA CutoffNext ==
    ASSUME TypeOK, TracksInHand, CutoffInRange, Next
    PROVE  CutoffInRange'
<1> USE DEF CutoffInRange, times, worker, handlers
<1>1. CASE StartTick
  BY <1>1 DEF StartTick
<1>2. CASE StartTrack
  <2>1. /\ play_time[current] \in Nat \cup {-1} /\ play_range_end[current] \in Nat
        /\ Buffer \in Nat
    BY <1>2, BufferAssumption DEF StartTrack, TypeOK, Floats, NaN
  <2>2. play_range_end[current] # 0 => ~Less(play_range_end[current], Cutoff(current))
    BY <2>1 DEF Cutoff, Less, Plus, NaN, Inf
  <2>3. QED  BY <1>2, <2>2 DEF StartTrack
<1>3. CASE GoOn
  BY <1>3 DEF GoOn
<1>4. CASE EndTrack
  BY <1>4 DEF EndTrack
<1>5. CASE SendFrame
  BY <1>5 DEF SendFrame, LeaveTick
<1>6. CASE EndTick
  BY <1>6 DEF EndTick, LeaveTick
<1>7. ASSUME NEW h \in Handlers, Request(h)
      PROVE  CutoffInRange'
  BY <1>7 DEF Request, Accept, Play, Pause, PlayRange, InvalidRange
<1>8. ASSUME NEW h \in Handlers, Answer(h)
      PROVE  CutoffInRange'
  BY <1>8 DEF Answer, SetPlayTime, SetRangeEnd, EndOfTracks, Reply
<1>9. QED
  BY <1>1, <1>2, <1>3, <1>4, <1>5, <1>6, <1>7, <1>8 DEF Next, Worker

LEMMA BehindNext ==
    ASSUME TypeOK, TracksInHand, CutoffInRange, BehindStops, Next
    PROVE  BehindStops'
<1> USE DEF BehindStops, times, worker, handlers
<1>1. CASE StartTick
  BY <1>1 DEF StartTick
<1>2. CASE StartTrack
  <2> SUFFICES ASSUME behind[current] = 1
               PROVE  ~Less(play_time[current], Cutoff(current))
    BY <1>2 DEF StartTrack
  <2>1. /\ play_time[current] \in Nat \cup {-1} /\ play_range_end[current] \in Nat
        /\ Buffer \in Nat /\ current \in Tracks
    BY <1>2, BufferAssumption DEF StartTrack, TypeOK, Floats, NaN
  <2>2. play_range_end[current] # 0 /\ ~Less(play_time[current], play_range_end[current])
    BY <2>1
  <2>3. QED  BY <2>1, <2>2 DEF Cutoff, Less, Plus, NaN, Inf
<1>3. CASE GoOn
  BY <1>3 DEF GoOn
<1>4. CASE EndTrack
  BY <1>4 DEF EndTrack
<1>5. CASE SendFrame
  <2>1. current \in Tracks /\ behind[current] = 0
    BY <1>5 DEF SendFrame, TracksInHand
  <2>2. PICK npt : npt = NptOf(current, NextTimestamp(current))
    OBVIOUS
  <2>3. /\ play_time' = [play_time EXCEPT ![current] = npt]
        /\ UNCHANGED play_range_end
        /\ behind' = [behind EXCEPT ![current] =
                IF undisturbed /\ play_range_end[current] # 0
                       /\ ~Less(npt, play_range_end[current])
                THEN @ + 1 ELSE @]
    BY <1>5, <2>2 DEF SendFrame, CountBehind
  <2>4. wpc' = "idle" \/ (wpc' = "test" /\ current' = current /\ cutoff' = cutoff)
    BY <1>5 DEF SendFrame, LeaveTick
  <2>5. play_time \in [Tracks -> Floats] /\ behind \in [Tracks -> Nat]
    BY DEF TypeOK
  <2>6. behind'[current] = 1 =>
            /\ undisturbed /\ play_range_end[current] # 0
            /\ ~Less(npt, play_range_end[current])
    BY <2>1, <2>3, <2>5
  <2>7. behind'[current] \in {0, 1}
    BY <2>1, <2>3, <2>5
  <2>8. behind'[current] = 1 => ~Less(npt, cutoff)
    <3>1. undisturbed /\ play_range_end[current] # 0 => ~Less(play_range_end[current], cutoff)
      BY <1>5 DEF SendFrame, CutoffInRange
    <3>2. Frames \in Nat /\ position[current] \in Nat
      BY <2>1, BufferAssumption DEF TypeOK
    <3>3. npt \in Nat \cup {-1}
      BY <2>1, <2>2, <3>2, NptTyped DEF NextTimestamp, Floats, NaN
    <3>4. cutoff \in Nat \cup {-1} /\ play_range_end[current] \in Nat
      BY <2>1 DEF TypeOK, Floats, NaN
    <3>5. QED  BY <2>6, <3>1, <3>3, <3>4 DEF Less, NaN
  <2>9. \A t \in Tracks \ {current} :
            play_time'[t] = play_time[t] /\ behind'[t] = behind[t]
    BY <2>3, <2>5
  <2>10. play_time'[current] = npt
    BY <2>1, <2>3, <2>5
  <2>11. ASSUME NEW t \in Tracks, t # current
         PROVE  /\ behind'[t] \in {0, 1}
                /\ behind'[t] = 1 =>
                      /\ play_range_end'[t] # 0
                      /\ ~Less(play_time'[t], play_range_end'[t])
                      /\ wpc' # "frame" /\ ~(wpc' = "test" /\ current' = t)
    BY <2>3, <2>4, <2>9, <2>11
  <2>12. QED  BY <2>3, <2>4, <2>6, <2>7, <2>8, <2>10, <2>11
<1>6. CASE EndTick
  BY <1>6 DEF EndTick, LeaveTick
<1>7. ASSUME NEW h \in Handlers, Request(h)
      PROVE  BehindStops'
  BY <1>7 DEF Request, Accept, Play, Pause, PlayRange, InvalidRange
<1>8. ASSUME NEW h \in Handlers, Answer(h)
      PROVE  BehindStops'
  <2>1. /\ play_time \in [Tracks -> Floats] /\ play_range_end \in [Tracks -> Nat]
        /\ behind \in [Tracks -> Nat]
    BY DEF TypeOK
  <2>2. QED  BY <1>8, <2>1 DEF Answer, SetPlayTime, SetRangeEnd, EndOfTracks, Reply
<1>9. QED
  BY <1>1, <1>2, <1>3, <1>4, <1>5, <1>6, <1>7, <1>8 DEF Next, Worker

(***************************************************************************)
(* The PLAYs of a session and the range they set.                          *)
(***************************************************************************)

RangeInv == RangedAlone /\ SettledBetween /\ EndsSet /\ BeginSet /\ EndSet

\* What a step of handler h leaves alone.
OthersKeep(h) ==
    \A g \in Handlers \ {h} :
        hpc'[g] = hpc[g] /\ range'[g] = range[g] /\ next'[g] = next[g]

\* A step that neither begins nor continues a PLAY with a range.
LEMMA RangeKept ==
    ASSUME RangeInv, UNCHANGED <<play_range, play_range_end, mixed>>,
           \A g \in Handlers :
             \/ hpc'[g] = hpc[g] /\ range'[g] = range[g] /\ next'[g] = next[g]
             \/ ~Setting(g) /\ ~Ranged(g)'
    PROVE  RangeInv'
<1>1. \A g \in Handlers :
        /\ Setting(g)' <=> Setting(g)
        /\ Ranged(g)' => Ranged(g)
        /\ Ranged(g)' => hpc'[g] = hpc[g] /\ range'[g] = range[g] /\ next'[g] = next[g]
  BY DEF Setting, Ranged
<1>2. Settled' <=> Settled
  BY DEF Settled
<1>3. RangedAlone'
  BY <1>1 DEF RangeInv, RangedAlone
<1>4. SettledBetween'
  BY <1>1, <1>2 DEF RangeInv, SettledBetween
<1>5. EndsSet'
  <2>1. \A g \in Handlers : Setting(g)' => Setting(g) /\ range'[g] = range[g] /\ next'[g] = next[g]
    BY <1>1 DEF Ranged
  <2>2. QED  BY <1>2, <2>1 DEF RangeInv, EndsSet
<1>6. BeginSet'
  <2>1. \A g \in Handlers : BeginKnown(g)' => Ranged(g)'
    BY DEF BeginKnown, Ranged, Setting
  <2>2. \A g \in Handlers : BeginKnown(g)' => BeginKnown(g) /\ range'[g] = range[g]
    BY <1>1, <2>1 DEF BeginKnown
  <2>3. QED  BY <2>2 DEF RangeInv, BeginSet
<1>7. EndSet'
  <2>1. \A g \in Handlers : EndKnown(g)' => Ranged(g)'
    BY DEF EndKnown, Ranged, Setting
  <2>2. \A g \in Handlers : EndKnown(g)' => EndKnown(g) /\ range'[g] = range[g]
    BY <1>1, <2>1 DEF EndKnown
  <2>3. QED  BY <2>2 DEF RangeInv, EndSet
<1>8. QED  BY <1>3, <1>4, <1>5, <1>6, <1>7 DEF RangeInv

LEMMA RangeWorker ==
    ASSUME RangeInv, Worker
    PROVE  RangeInv'
<1>1. UNCHANGED <<hpc, range, next, mixed, play_range, play_range_end>>
  BY DEF Worker, StartTick, StartTrack, GoOn, EndTrack, SendFrame, EndTick, handlers, times
<1>2. QED  BY <1>1, RangeKept

\* Those of a handler that do not set anything.
LEMMA RangeQuiet ==
    ASSUME TypeOK, RangeInv, NEW h \in Handlers,
           \/ Play(h) \/ Pause(h) \/ Reply(h)
           \/ \E text \in Ranges : InvalidRange(h, text)
    PROVE  RangeInv'
<1>1. hpc \in [Handlers -> {"idle", "time", "end", "reply"}] /\ range \in [Handlers -> Texts]
      /\ next \in [Handlers -> 1..(Len(Kind) + 1)]
  BY DEF TypeOK
<1>2. UNCHANGED <<play_range, play_range_end, mixed>>
  BY DEF Play, Pause, Reply, InvalidRange, times
<1>3. CASE Play(h)
  <2>1. OthersKeep(h) /\ ~Setting(h) /\ ~Ranged(h)'
    BY <1>1, <1>3 DEF Play, Accept, OthersKeep, Setting, Ranged
  <2>2. QED  BY <1>2, <2>1, RangeKept DEF OthersKeep
<1>4. CASE Pause(h) \/ \E text \in Ranges : InvalidRange(h, text)
  BY <1>2, <1>4, RangeKept DEF Pause, InvalidRange
<1>5. CASE Reply(h)
  <2>1. OthersKeep(h) /\ ~Setting(h) /\ ~Ranged(h)'
    BY <1>1, <1>5 DEF Reply, OthersKeep, Setting, Ranged
  <2>2. QED  BY <1>2, <2>1, RangeKept DEF OthersKeep
<1>6. QED  BY <1>3, <1>4, <1>5

LEMMA RangePlay ==
    ASSUME TypeOK, RangeInv, NEW h \in Handlers, NEW text \in Ranges, PlayRange(h, text)
    PROVE  RangeInv'
<1>1. PICK end : end = ParseRange(text)[2]
  OBVIOUS
<1>2. /\ hpc[h] = "idle" /\ hpc'[h] = "time" /\ range'[h] = text /\ next'[h] = 1
      /\ \A g \in Handlers \ {h} : hpc'[g] = hpc[g]
      /\ UNCHANGED <<play_range, play_range_end>>
  BY <1>1 DEF PlayRange, Accept, TypeOK, times
<1>3. ~mixed' => (\A g \in Handlers \ {h} : hpc[g] = "idle") /\ (mixed => end # 0)
  BY <1>1 DEF PlayRange, TypeOK
<1>4. ~mixed' => \A g \in Handlers : Ranged(g)' => g = h
  BY <1>2, <1>3 DEF Ranged, Setting
<1>5. ~mixed' /\ end = 0 => Settled'
  <2>1. ~mixed' => \A g \in Handlers : ~Setting(g)
    BY <1>2, <1>3 DEF Setting
  <2>2. ~mixed' /\ end = 0 => Settled
    BY <1>3, <2>1 DEF RangeInv, SettledBetween
  <2>3. QED  BY <1>2, <2>2 DEF Settled
<1>6. RangedAlone'
  BY <1>4 DEF RangedAlone
<1>7. Setting(h)'
  BY <1>2 DEF Setting
<1>8. SettledBetween'
  BY <1>7 DEF SettledBetween
<1>9. EndsSet'
  <2>1. ~mixed' => \A g \in Handlers : Setting(g)' => g = h
    BY <1>4 DEF Ranged
  <2>2. \A t \in Tracks : ~(t < 1)
    BY TrackNumbers
  <2>3. QED  BY <1>1, <1>2, <1>5, <2>1, <2>2 DEF EndsSet
<1>10. BeginSet'
  <2>1. ~mixed' => \A g \in Handlers : ~BeginKnown(g)'
    BY <1>2, <1>3 DEF BeginKnown
  <2>2. QED  BY <2>1 DEF BeginSet
<1>11. EndSet'
  <2>1. ~mixed' => \A g \in Handlers : ~EndKnown(g)'
    BY <1>2, <1>3 DEF EndKnown
  <2>2. QED  BY <2>1 DEF EndSet
<1>12. QED  BY <1>6, <1>8, <1>9, <1>10, <1>11 DEF RangeInv

LEMMA RangeAnswer ==
    ASSUME TypeOK, TracksInHand, RangeInv, NEW h \in Handlers,
           SetPlayTime(h) \/ SetRangeEnd(h) \/ EndOfTracks(h)
    PROVE  RangeInv'
<1>1. /\ hpc \in [Handlers -> {"idle", "time", "end", "reply"}]
      /\ next \in [Handlers -> 1..(Len(Kind) + 1)]
      /\ play_range \in [1..2 -> Nat]
      /\ play_range_end \in [Tracks -> Nat]
  BY DEF TypeOK
<1>2. /\ Setting(h) /\ Ranged(h)
      /\ OthersKeep(h) /\ range' = range
      /\ mixed' = mixed
      /\ Ranged(h)' => Ranged(h)
  BY <1>1 DEF SetPlayTime, SetRangeEnd, EndOfTracks, Setting, Ranged, OthersKeep
<1>3. ~mixed => \A g \in Handlers \ {h} :
        /\ ~Ranged(g) /\ ~Ranged(g)' /\ ~Setting(g) /\ ~Setting(g)'
        /\ ~BeginKnown(g)' /\ ~EndKnown(g)'
  <2>1. ~mixed => \A g \in Handlers \ {h} : ~Ranged(g)
    BY <1>2 DEF RangeInv, RangedAlone
  <2>2. \A g \in Handlers \ {h} : (Ranged(g)' <=> Ranged(g)) /\ (Setting(g)' <=> Setting(g))
    BY <1>2 DEF OthersKeep, Ranged, Setting
  <2>3. \A g \in Handlers :
            /\ Setting(g) => Ranged(g)
            /\ BeginKnown(g)' => Ranged(g)'
            /\ EndKnown(g)' => Ranged(g)'
    BY DEF Ranged, Setting, BeginKnown, EndKnown
  <2>4. QED  BY <2>1, <2>2, <2>3
<1>4. RangedAlone'
  BY <1>2, <1>3 DEF RangedAlone
<1>5. PICK end : end = ParseRange(range[h])[2]
  OBVIOUS
<1>6. PICK n : n = next[h]
  OBVIOUS
<1>7. n \in 1..(Len(Kind) + 1)
  BY <1>1, <1>6
<1>8. ~mixed /\ end = 0 => Settled
  BY <1>2, <1>5 DEF RangeInv, EndsSet
<1>9. ~mixed /\ end # 0 =>
        /\ \A t \in Tracks : t < n => play_range_end[t] = end
        /\ n > 1 => play_range[2] = end
  BY <1>2, <1>5, <1>6 DEF RangeInv, EndsSet, EndSet, EndKnown, Setting
<1>10. ~mixed /\ BeginKnown(h) => play_range[1] = ParseRange(range[h])[1]
  BY DEF RangeInv, BeginSet
<1>11. CASE SetPlayTime(h)
  <2>1. /\ play_range'[1] = ParseRange(range[h])[1] /\ play_range'[2] = play_range[2]
        /\ play_range_end' = play_range_end /\ next' = next /\ Setting(h)'
    BY <1>1, <1>11 DEF SetPlayTime, Setting, times
  <2>2. Settled' <=> Settled
    BY <1>2, <2>1 DEF Settled
  <2>3. SettledBetween'
    BY <2>1 DEF SettledBetween
  <2>4. EndsSet'
    BY <1>2, <1>3, <1>5, <1>6, <1>8, <1>9, <2>1, <2>2 DEF EndsSet
  <2>5. BeginSet'
    BY <1>2, <1>3, <2>1 DEF BeginSet
  <2>6. EndSet'
    BY <1>2, <1>3, <1>5, <1>6, <1>9, <2>1 DEF EndSet, EndKnown, Setting
  <2>7. QED  BY <1>4, <2>3, <2>4, <2>5, <2>6 DEF RangeInv
<1>12. CASE SetRangeEnd(h)
  <2>1. /\ next'[h] = n + 1 /\ Setting(h)' /\ play_range'[1] = play_range[1] /\ n \in Tracks
        /\ BeginKnown(h)
    BY <1>1, <1>5, <1>6, <1>12 DEF SetRangeEnd, Setting, TracksInHand, BeginKnown
  <2>2. end = 0 => play_range_end' = play_range_end /\ play_range' = play_range
    BY <1>5, <1>12 DEF SetRangeEnd
  <2>3. end # 0 => /\ play_range_end' = [play_range_end EXCEPT ![n] = end]
                   /\ play_range'[2] = end
    BY <1>1, <1>5, <1>6, <1>12 DEF SetRangeEnd
  <2>4. SettledBetween'
    BY <2>1 DEF SettledBetween
  <2>5. ~mixed /\ end = 0 => Settled'
    BY <1>2, <1>8, <2>2 DEF Settled
  <2>6. ~mixed /\ end # 0 => \A t \in Tracks : t < n + 1 => play_range_end'[t] = end
    <3>1. \A t \in Tracks : t < n + 1 => t = n \/ t < n
      BY <1>7, TrackNumbers
    <3>2. QED  BY <1>1, <1>9, <2>3, <3>1
  <2>7. EndsSet'
    BY <1>2, <1>3, <1>5, <1>9, <2>1, <2>3, <2>5, <2>6 DEF EndsSet
  <2>8. BeginSet'
    BY <1>2, <1>3, <1>10, <2>1 DEF BeginSet
  <2>9. EndSet'
    BY <1>2, <1>3, <1>5, <2>3 DEF EndSet, EndKnown
  <2>10. QED  BY <1>4, <2>4, <2>7, <2>8, <2>9 DEF RangeInv
<1>13. CASE EndOfTracks(h)
  <2>1. /\ UNCHANGED <<play_range, play_range_end, next>> /\ ~Setting(h)'
        /\ hpc[h] = "time" /\ n \notin Tracks
    BY <1>1, <1>6, <1>13 DEF EndOfTracks, Setting, times
  <2>2. \A t \in Tracks : t < n
    BY <1>7, <2>1, TrackNumbers
  <2>3. Kind # <<>> => n > 1
    BY <1>7, <2>1, TrackNumbers, KindAssumption
  <2>4. \A t \in Tracks : Kind # <<>>
    BY DEF Tracks
  <2>5. ~mixed => Settled'
    <3>1. ~mixed /\ end # 0 => Settled
      BY <1>9, <2>2, <2>3, <2>4 DEF Settled
    <3>2. QED  BY <1>2, <1>8, <2>1, <3>1 DEF Settled
  <2>6. SettledBetween'
    BY <1>2, <2>5 DEF SettledBetween
  <2>7. EndsSet'
    BY <1>2, <1>3, <2>1 DEF EndsSet
  <2>8. BeginSet'
    <3>1. BeginKnown(h)' => BeginKnown(h)
      BY <1>2, <1>6, <2>1, <2>3 DEF BeginKnown, Setting
    <3>2. QED  BY <1>2, <1>3, <1>10, <2>1, <3>1 DEF BeginSet
  <2>9. EndSet'
    <3>1. ~mixed /\ EndKnown(h)' => play_range[2] = ParseRange(range[h])[2]
      BY <1>2, <1>5, <1>9, <2>1, <2>3 DEF EndKnown, Setting
    <3>2. QED  BY <1>2, <1>3, <2>1, <3>1 DEF EndSet
  <2>10. QED  BY <1>4, <2>6, <2>7, <2>8, <2>9 DEF RangeInv
<1>14. QED  BY <1>11, <1>12, <1>13

(***************************************************************************)
(* The invariant.                                                          *)
(***************************************************************************)

LEMMA PlaybackInit == Init => PlaybackInv
<1>1. Init => TypeOK /\ TracksInHand
  BY TypeInit
<1>2. Init => /\ CutoffInRange /\ BehindStops /\ RangedAlone /\ SettledBetween
              /\ EndsSet /\ BeginSet /\ EndSet
  BY DEF Init, CutoffInRange, BehindStops, RangedAlone, Ranged, SettledBetween, Settled,
         Setting, EndsSet, BeginSet, BeginKnown, EndSet, EndKnown
<1>3. QED  BY <1>1, <1>2 DEF PlaybackInv

LEMMA PlaybackNext == PlaybackInv /\ [Next]_vars => PlaybackInv'
<1> SUFFICES ASSUME PlaybackInv, [Next]_vars
             PROVE  PlaybackInv'
  OBVIOUS
<1>1. TypeOK /\ TracksInHand /\ CutoffInRange /\ BehindStops /\ RangeInv
  BY DEF PlaybackInv, RangeInv
<1>2. CASE Next
  <2>1. CASE Worker
    <3>1. TypeOK' /\ TracksInHand'
      BY <1>1, <2>1, TypeWorker
    <3>2. CutoffInRange' /\ BehindStops'
      BY <1>1, <1>2, CutoffNext, BehindNext
    <3>3. RangeInv'
      BY <1>1, <2>1, RangeWorker
    <3>4. QED  BY <3>1, <3>2, <3>3 DEF PlaybackInv, RangeInv
  <2>2. ASSUME NEW h \in Handlers, Request(h)
        PROVE  PlaybackInv'
    <3>1. TypeOK' /\ TracksInHand'
      BY <1>1, <2>2, TypeRequest
    <3>2. CutoffInRange' /\ BehindStops'
      BY <1>1, <1>2, CutoffNext, BehindNext
    <3>3. RangeInv'
      BY <1>1, <2>2, RangeQuiet, RangePlay DEF Request
    <3>4. QED  BY <3>1, <3>2, <3>3 DEF PlaybackInv, RangeInv
  <2>3. ASSUME NEW h \in Handlers, Answer(h)
        PROVE  PlaybackInv'
    <3>1. TypeOK' /\ TracksInHand'
      BY <1>1, <2>3, TypeAnswer
    <3>2. CutoffInRange' /\ BehindStops'
      BY <1>1, <1>2, CutoffNext, BehindNext
    <3>3. RangeInv'
      BY <1>1, <2>3, RangeQuiet, RangeAnswer DEF Answer
    <3>4. QED  BY <3>1, <3>2, <3>3 DEF PlaybackInv, RangeInv
  <2>4. QED  BY <1>2, <2>1, <2>2, <2>3 DEF Next
<1>3. CASE UNCHANGED vars
  <2> USE <1>3 DEF vars, times, worker, handlers
  <2>1. TypeOK' /\ TracksInHand'
    BY <1>1 DEF TypeOK, TracksInHand
  <2>2. CutoffInRange' /\ BehindStops'
    BY <1>1 DEF CutoffInRange, BehindStops
  <2>3. RangeInv'
    BY <1>1, RangeKept
  <2>4. QED  BY <2>1, <2>2, <2>3 DEF PlaybackInv, RangeInv
<1>4. QED  BY <1>2, <1>3

\* The inductive invariant holds for any tracks, frames, buffer, handlers and
\* Range headers.
THEOREM PlaybackInvariant == Spec => []PlaybackInv
<1>1. QED  BY PlaybackInit, PlaybackNext, PTL DEF Spec

\* Type correctness.
THEOREM PlaybackTypes == Spec => []TypeOK
<1>1. PlaybackInv => TypeOK
  BY DEF PlaybackInv
<1>2. QED  BY <1>1, PlaybackInvariant, PTL

\* Over all passes since a PLAY set its times, a track fetches no second frame
\* at or behind its range end.
THEOREM OneBehindEnd == Spec => []OneFrameBehindEnd
<1>1. PlaybackInv => OneFrameBehindEnd
  <2>1. PlaybackInv => \A t \in Tracks : behind[t] \in {0, 1}
    BY DEF PlaybackInv, BehindStops
  <2>2. QED  BY <2>1 DEF OneFrameBehindEnd
<1>2. QED  BY <1>1, PlaybackInvariant, PTL

\* The tracks have the range end that the session reports.
THEOREM TracksAgreeWithSession == Spec => []TracksAgree
<1>1. PlaybackInv => TracksAgree
  BY DEF PlaybackInv, SettledBetween, Settled, Setting, TracksAgree
<1>2. QED  BY <1>1, PlaybackInvariant, PTL

\* A PLAY that names its range is answered with it, unless PLAYs overlap, in a
\* session with a track.  (One without is what a failed SETUP leaves behind; no
\* answer has named it.)
THEOREM AnswerToPlay ==
    ASSUME Kind # <<>>
    PROVE  Spec => []AnsweredRange
<1>1. PlaybackInv => AnsweredRange
  <2> SUFFICES ASSUME PlaybackInv, NEW h \in Handlers, hpc[h] = "reply", ~mixed,
                      Len(range[h]) = 2, Len(range[h][1]) = 1, Len(range[h][2]) = 1,
                      range[h][2] # << 0 >>
               PROVE  FormatRange(play_range) = range[h]
    BY DEF AnsweredRange
  <2>1. range[h] \in Texts
    BY DEF PlaybackInv, TypeOK
  <2>2. /\ range[h] # <<>> /\ ParseRange(range[h])[2] # 0
        /\ range[h] = <<<<ParseRange(range[h])[1]>>, <<ParseRange(range[h])[2]>>>>
    BY <2>1, BoundedText
  <2>3. play_range[1] = ParseRange(range[h])[1]
    BY <2>2 DEF PlaybackInv, BeginSet, BeginKnown
  <2>4. play_range[2] = ParseRange(range[h])[2]
    BY <2>2 DEF PlaybackInv, EndSet, EndKnown
  <2>5. FormatRange(play_range) = <<<<play_range[1]>>, <<play_range[2]>>>>
    BY DEF FormatRange, FormatTime
  <2>6. QED  BY <2>2, <2>3, <2>4, <2>5
<1>2. QED  BY <1>1, PlaybackInvariant, PTL

=============================================================================
