-------------------------------- MODULE NPT --------------------------------
(***************************************************************************)
(* Range headers: NPT::parse_range_header() and NPT::format_range().       *)
(*                                                                         *)
(* A time is the sequence of the numbers between its colons, <<s>> or      *)
(* <<h, m, s>>.  The text behind "npt=" is the sequence of what stands     *)
(* between its dashes, the empty sequence where nothing does: "10-15" is   *)
(* <<<<10>>, <<15>>>>, "10-" is <<<<10>>, <<>>>>, "-15" is                 *)
(* <<<<>>, <<15>>>>.  Numbers are whole, so that two decimals hold them,   *)
(* and below 100000, from where on to_chars() may write an exponent.       *)
(***************************************************************************)
EXTENDS Integers, SequencesExt

Numbers == {n \in Nat : n < 100000}
Times == Seq(Numbers)
Texts == Seq(Times)

\* util::split(): only an empty part at the end is dropped.
Split(text) == IF text # <<>> /\ Last(text) = <<>> THEN Front(text) ELSE text

\* from_chars() stops at the first colon, and fails where no number stands.
FromChars(time) == Head(time)

Throws(text) == \E i \in {1, 2} \cap DOMAIN Split(text) : Split(text)[i] = <<>>

\* The pair of floats; the end is 0 if there is none.
ParseRange(text) ==
    LET parts == Split(text)
    IN  IF parts = <<>> THEN <<0, 0>>
        ELSE <<FromChars(parts[1]), IF Len(parts) > 1 THEN FromChars(parts[2]) ELSE 0>>

\* get_time() writes seconds: set_mode() has no caller.
FormatTime(npt) == <<npt>>

\* The text of the answer has both times, also when the end is 0 because
\* there is none.
FormatRange(range) == <<FormatTime(range[1]), FormatTime(range[2])>>

\* What the grammar above parse_range_header() means by a time.
Seconds(time) ==
    LET sum[i \in 0..Len(time)] == IF i = 0 THEN 0 ELSE 60 * sum[i - 1] + time[i]
    IN  sum[Len(time)]
=============================================================================
