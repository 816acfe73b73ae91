--------------------------- MODULE SerialFraming ---------------------------
(* The CI-V frame codec of the serial link                                 *)
(* (backends/icom7610/drivers/serial_civ_link.py), which searches the      *)
(* bytes it holds each time some arrive, beside a decoder that reads the   *)
(* line byte by byte and says what it should find.                         *)
(***************************************************************************)
EXTENDS Integers, Sequences, SequencesExt, FiniteSetsExt

CONSTANTS MaxFrame,   \* _max_frame_len
          MaxChunk,   \* bound: bytes that arrive at once
          MaxBytes    \* bound: bytes on the line

\* The constructor refuses less; the bounds are naturals.
ASSUME FrameSizes == MaxFrame \in Nat /\ MaxFrame >= 4 /\ MaxChunk \in Nat /\ MaxBytes \in Nat

\* FE, FD (end), FC (collision) and any other byte.
Bytes == {"FE", "FD", "FC", "data"}
SOF   == <<"FE", "FE">>

VARIABLES
    buffer,     \* _buffer
    partial,    \* _partial_since is set
    frames,     \* what the last feed() returned
    overflowed, \* it raised instead
    mode,       \* the reference decoder: outside a frame, after one FE, or inside
    body,       \* the bytes of its frame so far, without SOF
    expected,   \* the frames it found in the last chunk
    fed

framingAll == <<buffer, partial, frames, overflowed, mode, body, expected, fed>>

FramingInit ==
    /\ buffer = <<>> /\ partial = FALSE /\ frames = <<>> /\ overflowed = FALSE
    /\ mode = "outside" /\ body = <<>> /\ expected = <<>> /\ fed = 0

-----------------------------------------------------------------------------
(* The codec.                                                              *)

\* The first place from `from` on where the bytes pattern begin; past the end if
\* nowhere.
Find(b, pattern, from) ==
    LET found == { i \in from..Len(b) : IsPrefix(pattern, SubSeq(b, i, Len(b))) }
    IN  IF found = {} THEN Len(b) + 1 ELSE Min(found)

From(b, i) == SubSeq(b, i, Len(b))

\* Mutant: all is dropped when there is no start.
NothingKept(b) == <<>>

\* A last FE may be half of a start.
Kept(b) == IF b # <<>> /\ Last(b) = "FE" THEN <<"FE">> ELSE <<>>

\* One pass of the loop of feed(), over what is left; it runs until what is left
\* lacks a start or an end.
Pass(s) ==
    LET start  == Find(s.rest, SOF, 1)
        c      == From(s.rest, start)
        end    == Find(c, <<"FD">>, 3)
        abort  == Find(c, <<"FC">>, 3)
        nested == Find(c, SOF, 3)
        more(i, found) == [rest |-> From(c, i), partial |-> FALSE, frames |-> found, runs |-> TRUE]
        last(rest, p) == [rest |-> rest, partial |-> p, frames |-> s.frames, runs |-> FALSE]
    IN  IF ~s.runs THEN s
        ELSE IF start > Len(s.rest) THEN last(Kept(s.rest), s.partial /\ Kept(s.rest) # <<>>)
        ELSE IF abort < end THEN more(abort + 1, s.frames)
        ELSE IF nested < end THEN more(nested, s.frames)
        ELSE IF end > Len(c) THEN last(c, TRUE)
        ELSE more(end + 1, IF end > MaxFrame THEN s.frames ELSE Append(s.frames, SubSeq(c, 1, end)))

\* The loop: what is left of b, whether its clock p runs, and the frames taken from
\* it.  A pass that is not the last drops two bytes or more.
Scan(b, p) ==
    FoldLeft(LAMBDA s, byte : Pass(s), [rest |-> b, partial |-> p, frames |-> <<>>, runs |-> TRUE], b)

-----------------------------------------------------------------------------
(* The reference.                                                          *)

\* One byte more.
ReadByte(r, byte) ==
    CASE r.mode = "outside" -> [r EXCEPT !.mode = IF byte = "FE" THEN "half" ELSE "outside"]
      [] r.mode = "half" -> [r EXCEPT !.mode = IF byte = "FE" THEN "inside" ELSE "outside", !.body = <<>>]
      [] r.mode = "inside" /\ byte = "FC" -> [r EXCEPT !.mode = "outside", !.body = <<>>]
      [] r.mode = "inside" /\ byte = "FD" ->
            [mode |-> "outside", body |-> <<>>,
             expected |-> IF Len(r.body) + 3 > MaxFrame THEN r.expected
                          ELSE Append(r.expected, SOF \o r.body \o <<"FD">>)]
      [] r.mode = "inside" /\ byte = "FE" /\ r.body # <<>> /\ Last(r.body) = "FE" -> [r EXCEPT !.body = <<>>]
      [] OTHER -> [r EXCEPT !.body = Append(@, byte)]

-----------------------------------------------------------------------------
(* The line.                                                               *)

\* feed(): a chunk arrives.  Too long an incomplete frame raises, and what was
\* found before it in the same chunk is lost.
Feed(chunk) ==
    /\ fed + Len(chunk) <= MaxBytes /\ fed' = fed + Len(chunk)
    /\ LET r == Scan(buffer \o chunk, partial)
       IN  /\ overflowed' = (Len(r.rest) > MaxFrame)
           /\ buffer' = IF overflowed' THEN <<>> ELSE r.rest
           /\ frames' = IF overflowed' THEN <<>> ELSE r.frames
           /\ partial' = (r.partial /\ ~overflowed')
    /\ LET r == FoldLeft(ReadByte, [mode |-> mode, body |-> body, expected |-> <<>>], chunk)
           tooLong == r.mode = "inside" /\ Len(r.body) + 2 > MaxFrame
       IN  /\ expected' = r.expected
           /\ mode' = IF tooLong THEN "outside" ELSE r.mode
           /\ body' = IF tooLong THEN <<>> ELSE r.body

\* expire_partial(): the rest of a frame has not come in time.
Expire ==
    /\ partial
    /\ buffer' = <<>> /\ partial' = FALSE
    /\ frames' = <<>> /\ overflowed' = FALSE /\ expected' = <<>>
    /\ mode' = "outside" /\ body' = <<>>
    /\ UNCHANGED fed

FramingNext == Expire \/ \E n \in 1..MaxChunk : \E chunk \in [1..n -> Bytes] : Feed(chunk)

FramingSpec == FramingInit /\ [][FramingNext]_framingAll

-----------------------------------------------------------------------------
(* Properties.                                                             *)

FramingTypeOK ==
    /\ buffer \in Seq(Bytes) /\ Len(buffer) <= MaxFrame
    /\ \A f \in ToSet(frames) : Len(f) \in 3..MaxFrame
    /\ {partial, overflowed} \subseteq BOOLEAN
    /\ mode \in {"outside", "half", "inside"}

\* However the line cuts and corrupts the bytes, with collisions, frames that
\* lack their end and starts that are halved between two chunks, the codec finds
\* the frames that reading byte by byte finds, it holds exactly the frame under
\* way, and the clock of the timeout runs exactly while one is.
FramesAgree ==
    /\ ~overflowed => frames = expected
    /\ buffer = CASE mode = "outside" -> <<>>
                  [] mode = "half" -> <<"FE">>
                  [] mode = "inside" -> SOF \o body
    /\ partial <=> mode = "inside"
=============================================================================
