----------------------------- MODULE Decompress -----------------------------
(***************************************************************************)
(* decompress(bytes, codec, opts): the output buffer that grows until the  *)
(* library is content or max_output is reached, for gzip and zlib          *)
(* (libdeflate_wrap.cpp) and LZ4 frames (lz4_wrap.cpp).                    *)
(*                                                                         *)
(* The libraries are external.  A stream is what they see in it: `in`, its *)
(* own size; `end`, how it ends after `size` bytes of output ("whole",     *)
(* "corrupt", or "cut" short); and for gzip `isize`, the last four bytes   *)
(* read as a number, which any trailing bytes or a wrapped count may make  *)
(* unrelated to `size`.                                                    *)
(*                                                                         *)
(* A definition whose name extends that of the next one (growUncapped,     *)
(* LimitReachedEarly, ...) is that one with a slip in it, and is not used. *)
(***************************************************************************)
EXTENDS Integers

CONSTANTS
  Streams,   \* the inputs: records [in, size, end, isize]
  Limits     \* the values of opts.max_output

ASSUME StreamAssumption ==
  /\ Streams \subseteq [in : Nat, size : Nat,
                        end : {"whole", "corrupt", "cut"}, isize : Nat]
  /\ \A s \in Streams : s.end = "whole" => s.in > 0

ASSUME LimitAssumption == Limits \subseteq Nat

VARIABLES
  codec, stream, max_output,   \* the call's arguments
  pc,       \* "start", "loop" or "done"
  guess,    \* bytes of the output buffer (gzip, zlib)
  out,      \* bytes of output kept
  chunk,    \* bytes the buffer grows by next (LZ4)
  result    \* "none", "ok" or an error code

callVars == <<codec, stream, max_output, pc, guess, out, chunk, result>>

Lesser(a, b) == IF a < b THEN a ELSE b
Greater(a, b) == IF a > b THEN a ELSE b

CallInit ==
  /\ codec \in {"None", "Gzip", "Zlib", "Lz4"}
  /\ stream \in Streams
  /\ max_output \in Limits
  /\ pc = "start"
  /\ guess = 0 /\ out = 0 /\ chunk = 0
  /\ result = "none"

Return(r) == pc' = "done" /\ result' = r

Keep == UNCHANGED <<codec, stream, max_output>>

-----------------------------------------------------------------------------
(* Codec::None: the bytes, whatever max_output says.                       *)

CopyNone ==
  /\ pc = "start" /\ codec = "None"
  /\ out' = stream.in
  /\ Return("ok")
  /\ UNCHANGED <<guess, chunk>> /\ Keep

-----------------------------------------------------------------------------
(* decompress_gzip and decompress_zlib.                                    *)

\* ISIZE when it is usable, else eight times the input, else one page.
gzip_fallback(s, limit) ==
  IF Lesser(s.in * 8, limit) = 0 THEN 4096 ELSE Lesser(s.in * 8, limit)

gzip_guess(s, limit) ==
  IF s.in >= 4 /\ s.isize # 0 /\ s.isize <= limit THEN s.isize
  ELSE gzip_fallback(s, limit)

zlib_guess(s, limit) == Lesser(Greater(s.in * 4, 4096), limit)

StartGzip ==
  /\ pc = "start" /\ codec = "Gzip"
  /\ guess' = gzip_guess(stream, max_output)
  /\ pc' = "loop"
  /\ UNCHANGED <<out, chunk, result>> /\ Keep

StartZlib ==
  /\ pc = "start" /\ codec = "Zlib"
  /\ guess' = zlib_guess(stream, max_output)
  /\ pc' = "loop"
  /\ UNCHANGED <<out, chunk, result>> /\ Keep

\* One call of libdeflate: success, failure, or not enough space, after
\* which the buffer grows up to the limit.
LimitReachedNever == FALSE
LimitReachedEarly == guess * 2 >= max_output
LimitReached == guess >= max_output

growUncapped(g, limit) == g * 2 + 1
grow(g, limit) == Lesser(limit, g * 2 + 1)

DeflateSuccess ==
  /\ pc = "loop" /\ codec \in {"Gzip", "Zlib"}
  /\ stream.end = "whole" /\ stream.size <= guess
  /\ out' = stream.size
  /\ Return("ok")
  /\ UNCHANGED <<guess, chunk>> /\ Keep

DeflateBadData ==
  /\ pc = "loop" /\ codec \in {"Gzip", "Zlib"}
  /\ stream.end # "whole" /\ stream.size <= guess
  /\ Return("DecompressionFailed")
  /\ UNCHANGED <<guess, out, chunk>> /\ Keep

DeflateLimit ==
  /\ pc = "loop" /\ codec \in {"Gzip", "Zlib"}
  /\ stream.size > guess /\ LimitReached
  /\ Return("LimitExceeded")
  /\ UNCHANGED <<guess, out, chunk>> /\ Keep

DeflateGrow ==
  /\ pc = "loop" /\ codec \in {"Gzip", "Zlib"}
  /\ stream.size > guess /\ ~ LimitReached
  /\ guess' = grow(guess, max_output)
  /\ UNCHANGED <<pc, out, chunk, result>> /\ Keep

-----------------------------------------------------------------------------
(* decompress_lz4: the output grows by `chunk`, which doubles.             *)

StartLz4 ==
  /\ pc = "start" /\ codec = "Lz4"
  /\ chunk' = IF Lesser(65536, max_output) = 0 THEN 1024
              ELSE Lesser(65536, max_output)
  /\ pc' = "loop"
  /\ UNCHANGED <<guess, out, result>> /\ Keep

Lz4Limit ==
  /\ pc = "loop" /\ codec = "Lz4"
  /\ out >= max_output
  /\ Return("LimitExceeded")
  /\ UNCHANGED <<guess, out, chunk>> /\ Keep

\* The library fills what it is given while the frame has more to give.
out_growUncapped == chunk
out_grow == Lesser(chunk, max_output - out)

Lz4Grow ==
  /\ pc = "loop" /\ codec = "Lz4" /\ out < max_output
  /\ stream.size - out > out_grow
  /\ out' = out + out_grow
  /\ chunk' = Lesser(chunk * 2, max_output)
  /\ UNCHANGED <<pc, guess, result>> /\ Keep

\* All of the frame's content fits: the frame's end tells what is returned.
Lz4End ==
  /\ pc = "loop" /\ codec = "Lz4" /\ out < max_output
  /\ stream.size - out <= out_grow
  /\ out' = stream.size
  /\ Return(IF stream.end = "whole" THEN "ok" ELSE "DecompressionFailed")
  /\ UNCHANGED <<guess, chunk>> /\ Keep

-----------------------------------------------------------------------------

CallNext ==
  \/ CopyNone
  \/ StartGzip \/ StartZlib
  \/ DeflateSuccess \/ DeflateBadData \/ DeflateLimit \/ DeflateGrow
  \/ StartLz4 \/ Lz4Limit \/ Lz4Grow \/ Lz4End

CallSpec == CallInit /\ [][CallNext]_callVars

\* The call runs until it returns.
FairCallSpec == CallSpec /\ WF_callVars(CallNext)

-----------------------------------------------------------------------------
(* Properties.                                                             *)

CallTypeOK ==
  /\ codec \in {"None", "Gzip", "Zlib", "Lz4"}
  /\ stream \in Streams
  /\ max_output \in Limits
  /\ pc \in {"start", "loop", "done"}
  /\ guess \in Nat /\ out \in Nat /\ chunk \in Nat
  /\ result \in {"none", "ok", "DecompressionFailed", "LimitExceeded"}
  /\ pc = "done" <=> result # "none"

Packed == codec \in {"Gzip", "Zlib", "Lz4"}

\* Under any limit but 0 the output of a compressed stream never grows beyond
\* max_output at any iteration, nor does the buffer of an input that is not
\* empty.
OutputBounded ==
  Packed /\ max_output > 0 =>
    /\ out <= max_output
    /\ stream.in > 0 => guess <= max_output

\* Success is the whole content; a refusal means the content is really too
\* large; failure means the stream is really damaged.
AnswerRight ==
  Packed =>
    /\ result = "ok" => stream.end = "whole" /\ out = stream.size
    /\ result = "LimitExceeded" /\ max_output > 0 => stream.size > max_output
    /\ result = "DecompressionFailed" => stream.end # "whole"

\* Every call returns, whatever the stream claims.
Returns == <>(pc = "done")

-----------------------------------------------------------------------------
(* What a doc or a comment says and the code does not do: not invariants.  *)

\* "Hard upper bound on output size" (compress.hpp:41), 0 included.
OutputWithin == Packed /\ result = "ok" => out <= max_output

=============================================================================
