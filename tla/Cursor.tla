------------------------------- MODULE Cursor -------------------------------
(***************************************************************************)
(* What a call on a Cursor returns: [ok, v, pos], which is what it read,   *)
(* or the error code, and the number of bytes taken from the buffer by     *)
(* then.  After an error that is in the middle of what was to be read.     *)
(***************************************************************************)
EXTENDS Integers, Sequences

Ok(v, pos) == [ok |-> TRUE, v |-> v, pos |-> pos]
Err(code, pos) == [ok |-> FALSE, v |-> code, pos |-> pos]

\* `if (!r) return unexpected(r.error());` and the rest of the function.
Then(r, Rest(_, _)) == IF r.ok THEN Rest(r.v, r.pos) ELSE r

Offsets(in) == 0 .. Len(in)

-----------------------------------------------------------------------------
(* A loop that appends to a result: each round appends what step, applied  *)
(* to the cursor, yields.  It ends after n rounds, or after a round that   *)
(* yields nothing, or with the first error.                                *)

round(step, n, rest, k, p) ==
  IF k = n THEN Ok(<<>>, p)
  ELSE Then(step[p], LAMBDA x, q :
         IF x = <<>> THEN Ok(<<>>, q)
         ELSE Then(rest[k + 1][q], LAMBDA xs, r : Ok(x \o xs, r)))

\* rest[k][p] is what the loop makes of p when k rounds have been done.
Rounds(step, n, pos) ==
  LET rest[k \in 0 .. n] == [p \in DOMAIN step |-> round(step, n, rest, k, p)]
  IN  rest[0][pos]

=============================================================================
