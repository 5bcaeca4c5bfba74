------------------------------ MODULE Playback ------------------------------
(***************************************************************************)
(* One Session while it plays: the session worker that runs                *)
(* Session::tick() and Track::send_frames(), and the server threads that   *)
(* run play() and pause() for the requests of its clients.  The members of *)
(* Session and Track that both sides use are not locked; a step is one     *)
(* access to them, or the handling of one frame.                           *)
(*                                                                         *)
(* Times are whole numbers, frame k of a stream being due at k - 1; the    *)
(* float values NaN and infinity, which sample_rate_to_npt() produces for  *)
(* streams without a sample rate, are kept apart from them.                *)
(***************************************************************************)
EXTENDS NPT, FiniteSets

CONSTANTS
    Kind,       \* Session::tracks: "audio" or "video" for each track
    Frames,     \* number of frames in the media file's streams
    Buffer,     \* Track::frame_buffer_size_seconds
    Handlers,   \* server threads
    Ranges,     \* Range headers of PLAY, as texts of module NPT
    MaxRequests \* bound: requests handled

ASSUME KindAssumption == Kind \in Seq({"audio", "video"})
ASSUME BufferAssumption == Buffer \in Nat \ {0} /\ Frames \in Nat
ASSUME RangesAssumption == Ranges \subseteq Texts
ASSUME RequestsAssumption == MaxRequests \in Nat

Tracks == DOMAIN Kind

VARIABLES
    is_playing,     \* Session::is_playing
    play_range,     \* Session::play_range
    play_time, play_range_end,      \* of each Track
    position,       \* frames read from each track's stream
    wpc,            \* the worker: "idle", "track", "test" or "frame"
    current, cutoff, did_send, any_sent,    \* locals of tick(), send_frames()
    undisturbed,    \* no PLAY wrote to a track since cutoff was computed (history)
    hpc,            \* each handler: "idle", "time", "end", "reply"
    range, next,    \* Range header of the PLAY, index of play()'s loop
    mixed,          \* two PLAYs were handled at a time, and no later one has
                    \* set all the ends alone (history)
    behind,         \* of each track, the frames at or behind its range end that
                    \* undisturbed passes fetched since PLAY set it (history)
    requests        \* requests accepted so far (bound)

vars == <<is_playing, play_range, play_time, play_range_end, position, wpc,
          current, cutoff, did_send, any_sent, undisturbed, hpc, range, next,
          mixed, behind, requests>>

worker == <<wpc, current, cutoff, did_send, any_sent>>
handlers == <<hpc, range, next, mixed, requests>>
times == <<play_time, play_range_end, behind>>

(***************************************************************************)
(* float arithmetic                                                        *)
(***************************************************************************)

NaN == -1
Inf == 1000

Less(a, b) == a # NaN /\ b # NaN /\ a < b

Plus(a, d) == IF a \in {NaN, Inf} THEN a ELSE a + d

\* Mutant of NptOf: the timestamp is divided by its own frequency.
NptByFrequency(t, timestamp) == timestamp

\* Stream::sample_rate_to_npt(): a video stream has the sample rate 0.
NptOf(t, timestamp) ==
    CASE Kind[t] = "audio"                      -> timestamp
      [] Kind[t] = "video" /\ timestamp = 0     -> NaN
      [] Kind[t] = "video" /\ timestamp # 0     -> Inf

\* Mutant of Cutoff: the range end extends the buffer.
LaterCutoff(t) ==
    LET full == Plus(play_time[t], Buffer)
    IN  IF play_range_end[t] # 0 /\ Less(full, play_range_end[t])
          THEN play_range_end[t] ELSE full

\* How far send_frames() goes: one buffer, but not behind the range end.
Cutoff(t) ==
    LET full == Plus(play_time[t], Buffer)
    IN  IF play_range_end[t] # 0 /\ Less(play_range_end[t], full)
          THEN play_range_end[t] ELSE full

\* SETUP of a later track made the vector of tracks grow (its capacity doubles)
\* after it held track t, and Stream's move constructor does not take
\* timestamp_frequency along.
Moved(t) ==
    \E k \in 0..Len(Kind) : t <= 2^k /\ 2^k < Len(Kind)

\* Stream::read_frame(): the next frame's timestamp; 0 at the end of the file,
\* and when it is rescaled to a frequency of 0.
NextTimestamp(t) == IF position[t] < Frames /\ ~Moved(t) THEN position[t] ELSE 0

\* The frame at hand is due at or behind the range end of the track.
CountBehind ==
    LET npt == NptOf(current, NextTimestamp(current))
        late == undisturbed /\ play_range_end[current] # 0
                    /\ ~Less(npt, play_range_end[current])
    IN  behind' = [behind EXCEPT ![current] = IF late THEN @ + 1 ELSE @]

(***************************************************************************)
(* Session::tick() and Track::send_frames()                                *)
(***************************************************************************)

\* The locals of send_frames() are gone, and those of tick().
LeaveSendFrames ==
    cutoff' = 0 /\ did_send' = FALSE /\ undisturbed' = FALSE

LeaveTick ==
    /\ wpc' = "idle"
    /\ current' = 1
    /\ any_sent' = FALSE
    /\ LeaveSendFrames

\* is_playing.load() is true.
StartTick ==
    /\ wpc = "idle"
    /\ is_playing
    /\ wpc' = "track"
    /\ UNCHANGED <<is_playing, play_range, times, position, current, cutoff,
                   did_send, any_sent, undisturbed, handlers>>

\* send_frames() of the next track, unless an earlier one has sent already.
StartTrack ==
    /\ wpc = "track"
    /\ current \in Tracks
    /\ ~any_sent
    /\ cutoff' = Cutoff(current)
    /\ undisturbed' = TRUE
    /\ did_send' = FALSE
    /\ wpc' = "test"
    /\ UNCHANGED <<is_playing, play_range, times, position, current, any_sent, handlers>>

\* while (play_time < cutoff)
GoOn ==
    /\ wpc = "test"
    /\ Less(play_time[current], cutoff)
    /\ did_send' = TRUE
    /\ wpc' = "frame"
    /\ UNCHANGED <<is_playing, play_range, times, position, current, cutoff,
                   any_sent, undisturbed, handlers>>

\* send_frames() returns did_send.
EndTrack ==
    /\ wpc = "test"
    /\ ~Less(play_time[current], cutoff)
    /\ any_sent' = did_send
    /\ current' = current + 1
    /\ wpc' = "track"
    /\ LeaveSendFrames
    /\ UNCHANGED <<is_playing, play_range, times, position, handlers>>

\* Mutant of SendFrame: the end of the file is not noticed.
SendFramePastEnd ==
    /\ wpc = "frame"
    /\ play_time' = [play_time EXCEPT ![current] = NptOf(current, NextTimestamp(current))]
    /\ position' = [position EXCEPT ![current] = @ + 1]
    /\ \/ wpc' = "test" /\ UNCHANGED <<current, cutoff, did_send, any_sent, undisturbed>>
       \/ LeaveTick
    /\ CountBehind
    /\ UNCHANGED <<is_playing, play_range, play_range_end, handlers>>

\* read_frame(), play_time and the packets of the frame; when a packet cannot
\* be sent, an exception ends the tick.
SendFrame ==
    /\ wpc = "frame"
    /\ play_time' = [play_time EXCEPT ![current] = NptOf(current, NextTimestamp(current))]
    /\ position' = [position EXCEPT ![current] = IF @ < Frames THEN @ + 1 ELSE @]
    /\ \/ wpc' = "test" /\ UNCHANGED <<current, cutoff, did_send, any_sent, undisturbed>>
       \/ LeaveTick
    /\ CountBehind
    /\ UNCHANGED <<is_playing, play_range, play_range_end, handlers>>

\* Mutant of EndTick: nothing stops the playing.
EndTickPlaying ==
    /\ wpc = "track"
    /\ any_sent \/ current \notin Tracks
    /\ LeaveTick
    /\ UNCHANGED <<is_playing, play_range, times, position, handlers>>

\* The end of tick(): without anything sent, the playing is over.
EndTick ==
    /\ wpc = "track"
    /\ any_sent \/ current \notin Tracks
    /\ is_playing' = (is_playing /\ any_sent)
    /\ LeaveTick
    /\ UNCHANGED <<play_range, times, position, handlers>>

(***************************************************************************)
(* Session::play() and Session::pause()                                    *)
(***************************************************************************)

Accept(h) ==
    /\ hpc[h] = "idle"
    /\ requests < MaxRequests
    /\ requests' = requests + 1

\* play() without a Range header.
Play(h) ==
    /\ Accept(h)
    /\ is_playing' = TRUE
    /\ hpc' = [hpc EXCEPT ![h] = "reply"]
    /\ range' = [range EXCEPT ![h] = <<>>]
    /\ UNCHANGED <<play_range, times, position, worker, undisturbed, next, mixed>>

\* parse_range_header() throws: serve() strands the client.
InvalidRange(h, text) ==
    /\ Accept(h)
    /\ Throws(text)
    /\ UNCHANGED <<is_playing, play_range, times, position, worker, undisturbed,
                   hpc, range, next, mixed>>

\* play(begin, end): the session plays before its tracks know the range.
PlayRange(h, text) ==
    LET end == ParseRange(text)[2]
        alone == \A g \in Handlers \ {h} : hpc[g] = "idle"
    IN  /\ Accept(h)
        /\ ~Throws(text)
        /\ is_playing' = TRUE
        /\ hpc' = [hpc EXCEPT ![h] = "time"]
        /\ range' = [range EXCEPT ![h] = text]
        /\ next' = [next EXCEPT ![h] = 1]
        /\ mixed' = (~alone \/ (mixed /\ end = 0))
        /\ UNCHANGED <<play_range, times, position, worker, undisturbed>>

\* play_range.first = t.set_play_time(begin)
SetPlayTime(h) ==
    /\ hpc[h] = "time"
    /\ next[h] \in Tracks
    /\ play_time' = [play_time EXCEPT ![next[h]] = ParseRange(range[h])[1]]
    /\ play_range' = [play_range EXCEPT ![1] = ParseRange(range[h])[1]]
    /\ behind' = [behind EXCEPT ![next[h]] = 0]
    /\ undisturbed' = FALSE
    /\ hpc' = [hpc EXCEPT ![h] = "end"]
    /\ UNCHANGED <<is_playing, play_range_end, position, worker, range, next,
                   mixed, requests>>

\* Mutant of SetRangeEnd: only the session notes the end.
SetSessionEnd(h) ==
    LET end == ParseRange(range[h])[2]
    IN  /\ hpc[h] = "end"
        /\ play_range' = [play_range EXCEPT ![2] = IF end # 0 THEN end ELSE @]
        /\ undisturbed' = FALSE
        /\ next' = [next EXCEPT ![h] = @ + 1]
        /\ hpc' = [hpc EXCEPT ![h] = "time"]
        /\ UNCHANGED <<is_playing, times, position, worker, range, mixed, requests>>

\* Mutant of SetRangeEnd: only the track notes the end.
SetTrackEnd(h) ==
    LET end == ParseRange(range[h])[2]
    IN  /\ hpc[h] = "end"
        /\ play_range_end' = [play_range_end EXCEPT ![next[h]] = IF end # 0 THEN end ELSE @]
        /\ behind' = [behind EXCEPT ![next[h]] = IF end # 0 THEN 0 ELSE @]
        /\ undisturbed' = FALSE
        /\ next' = [next EXCEPT ![h] = @ + 1]
        /\ hpc' = [hpc EXCEPT ![h] = "time"]
        /\ UNCHANGED <<is_playing, play_range, play_time, position, worker, range,
                       mixed, requests>>

\* if (npt_end) play_range.second = t.set_play_range_end(npt_end)
SetRangeEnd(h) ==
    LET end == ParseRange(range[h])[2]
    IN  /\ hpc[h] = "end"
        /\ IF end # 0
             THEN /\ play_range_end' = [play_range_end EXCEPT ![next[h]] = end]
                  /\ play_range' = [play_range EXCEPT ![2] = end]
                  /\ behind' = [behind EXCEPT ![next[h]] = 0]
             ELSE UNCHANGED <<play_range_end, play_range, behind>>
        /\ undisturbed' = FALSE
        /\ next' = [next EXCEPT ![h] = @ + 1]
        /\ hpc' = [hpc EXCEPT ![h] = "time"]
        /\ UNCHANGED <<is_playing, play_time, position, worker, range, mixed, requests>>

\* The loop over the tracks is over.
EndOfTracks(h) ==
    /\ hpc[h] = "time"
    /\ next[h] \notin Tracks
    /\ hpc' = [hpc EXCEPT ![h] = "reply"]
    /\ UNCHANGED <<is_playing, play_range, times, position, worker, undisturbed,
                   range, next, mixed, requests>>

\* The pair that the Range header of the response is made from.
Reply(h) ==
    /\ hpc[h] = "reply"
    /\ hpc' = [hpc EXCEPT ![h] = "idle"]
    /\ range' = [range EXCEPT ![h] = <<>>]
    /\ next' = [next EXCEPT ![h] = 1]
    /\ UNCHANGED <<is_playing, play_range, times, position, worker, undisturbed,
                   mixed, requests>>

\* pause()
Pause(h) ==
    /\ Accept(h)
    /\ is_playing' = FALSE
    /\ UNCHANGED <<play_range, times, position, worker, undisturbed, hpc, range, next,
                   mixed>>
-----------------------------------------------------------------------------
Init ==
    /\ is_playing = FALSE
    /\ play_range = <<0, 0>>
    /\ play_time = [t \in Tracks |-> 0]
    /\ play_range_end = [t \in Tracks |-> 0]
    /\ position = [t \in Tracks |-> 0]
    /\ wpc = "idle"
    /\ current = 1
    /\ cutoff = 0
    /\ did_send = FALSE
    /\ any_sent = FALSE
    /\ undisturbed = FALSE
    /\ hpc = [h \in Handlers |-> "idle"]
    /\ range = [h \in Handlers |-> <<>>]
    /\ next = [h \in Handlers |-> 1]
    /\ mixed = FALSE
    /\ behind = [t \in Tracks |-> 0]
    /\ requests = 0

Worker == StartTick \/ StartTrack \/ GoOn \/ EndTrack \/ SendFrame \/ EndTick

Request(h) ==
    \/ Play(h)
    \/ Pause(h)
    \/ \E text \in Ranges : PlayRange(h, text) \/ InvalidRange(h, text)

Answer(h) == SetPlayTime(h) \/ SetRangeEnd(h) \/ EndOfTracks(h) \/ Reply(h)

Next == Worker \/ (\E h \in Handlers : Request(h) \/ Answer(h))

Spec == Init /\ [][Next]_vars

\* The kernel schedules the session worker.  Clients need not send requests, and
\* the server threads need not come to the end of one: the worker does not wait
\* for them.
FairSpec == Spec /\ WF_vars(Worker)
-----------------------------------------------------------------------------
Floats == Nat \cup {NaN}

TypeOK ==
    /\ is_playing \in BOOLEAN
    /\ play_range \in [1..2 -> Nat]
    /\ play_time \in [Tracks -> Floats]
    /\ play_range_end \in [Tracks -> Nat]
    /\ position \in [Tracks -> 0..Frames]
    /\ wpc \in {"idle", "track", "test", "frame"}
    /\ current \in 1..(Len(Kind) + 1)
    /\ cutoff \in Floats
    /\ did_send \in BOOLEAN /\ any_sent \in BOOLEAN /\ undisturbed \in BOOLEAN
    /\ hpc \in [Handlers -> {"idle", "time", "end", "reply"}]
    /\ range \in [Handlers -> Texts]
    /\ next \in [Handlers -> 1..(Len(Kind) + 1)]
    /\ mixed \in BOOLEAN
    /\ behind \in [Tracks -> Nat]
    /\ requests \in 0..MaxRequests

\* The range end that PLAY reports is the one that every track observes once
\* its PLAY is through, unless PLAYs of the session were handled at the same
\* time: each of two may set the end of one track.
TracksAgree ==
    ~mixed /\ (\A h \in Handlers : hpc[h] \in {"idle", "reply"}) =>
        \A t \in Tracks : play_range_end[t] = play_range[2]

\* A PLAY that names a begin and an end in seconds, and that no other PLAY
\* overlaps, is answered with just this range, whatever earlier PLAYs, the
\* worker and PAUSEs have done to the session.
AnsweredRange ==
    \A h \in Handlers :
        LET text == range[h]
        IN  /\ hpc[h] = "reply"
            /\ Len(text) = 2 /\ Len(text[1]) = 1 /\ Len(text[2]) = 1
            /\ text[2] # <<0>>
            /\ ~mixed
            => FormatRange(play_range) = text

\* A track stops at its range end in every pass: once a frame at or behind the
\* end was fetched, no pass fetches another one until a PLAY sets a time of
\* the track.  (In a pass that a PLAY interferes with, the cutoff is the one
\* of the old range; such frames are not counted.)
OneFrameBehindEnd == \A t \in Tracks : behind[t] <= 1

\* read_frame() is about to be called on a sound track that has no frames left
\* or has lost its frequency: its timestamp is 0, which takes play_time back
\* to the start.
TimeStandsStill ==
    /\ wpc = "frame" /\ Kind[current] = "audio"
    /\ position[current] = Frames \/ Moved(current)

\* A tick comes to its end, so that the worker gets to the other sessions of
\* its group and to shutdown, unless time stands still for a sound track: NaN
\* and infinity, too, end the loop over a video track.
TickEnds == wpc # "idle" ~> wpc = "idle" \/ TimeStandsStill

\* Nor does playing go on for ever without a request: a pass over the tracks
\* finds nothing to send, or time stands still for a sound track.
PlayingStops == is_playing ~> ~is_playing \/ TimeStandsStill

\* The comment above pause(): the PAUSE request causes the stream delivery to
\* be halted until the next PLAY.
PauseHalts == ~is_playing ~> wpc = "idle" \/ is_playing
=============================================================================
