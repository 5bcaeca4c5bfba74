------------------------------- MODULE Media -------------------------------
(***************************************************************************)
(* The catalogue: SDP_Loader reads the SDP text of a media file line by    *)
(* line and notes which control id belongs to which medium.                *)
(*                                                                         *)
(* A line is a record: its "kind" ("m", "control" or "other"), the medium  *)
(* or control id it names, and whether it fits getline()'s 64 bytes.       *)
(***************************************************************************)
EXTENDS Integers, Sequences, FiniteSetsExt

Lines == [kind : {"m", "control", "other"}, value : STRING, fits : BOOLEAN]

\* The lines the loop sees: a line that does not fit sets failbit.
ReadLines(sdp) ==
    {i \in DOMAIN sdp : \A j \in 1..i : sdp[j].fits}

\* The medium of the m= line above line i.
MediumAbove(sdp, i) ==
    LET above == {j \in 1..i : sdp[j].kind = "m"}
    IN  IF above = {} THEN "" ELSE sdp[Max(above)].value

\* stream_type_by_control_id: media_types knows these two media.
Mapped(sdp, control_id) ==
    {MediumAbove(sdp, i) : i \in {j \in ReadLines(sdp) :
        sdp[j].kind = "control" /\ sdp[j].value = control_id}} \cap {"video", "audio"}

\* The stream that a Track opens: operator[] gives 0, which is video, for an
\* id it does not find.  The keys are views of a string that is gone once the
\* loop's body ends, so an id that was mapped may or may not be found.
StreamTypes(sdp, control_id) == {"video"} \cup Mapped(sdp, control_id)
=============================================================================
