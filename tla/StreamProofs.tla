---------------------------- MODULE StreamProofs ----------------------------
(***************************************************************************)
(* What encode writes for a root is what decode and skip make of it, and   *)
(* so the streams of NbtStream bring back what was sent.                   *)
(*                                                                         *)
(* In a stream (RootsInv) the roots sent stand one after the other in what *)
(* there is of the sink (Tiled), and a reader has taken the first of them  *)
(* (Taken) up to the one at which it fails (FailsAt).  A span of NbtInto   *)
(* has the last document accepted at its beginning (IntoInv).              *)
(*                                                                         *)
(* What decode accepts encode can write again (DecodedEncodes), part by    *)
(* part: a Short write takes no more bytes than were read, Ran says what a *)
(* loop that read its items leaves, PayloadBack is one level of it,        *)
(* LevelsBack the induction over the levels, ValueBack and RootBack the    *)
(* rest of the way, to what is Reencoded.                                  *)
(***************************************************************************)
EXTENDS CodecProofs, NbtStream, NbtInto, FiniteSetTheorems

-----------------------------------------------------------------------------
(* The stream.                                                             *)

\* The inductive invariant: the buffer is bytes, and the cursor in it.
StreamInv ==
  /\ format \in Formats
  /\ sink \in Seq(Byte)
  /\ pos \in Offsets(sink)
  /\ phase \in {"writing", "reading"} \cup ErrorCodes
  /\ phase = "writing" => pos = 0

\* It holds when the sink is empty ...
LEMMA StreamInit == Init => StreamInv
BY DEF Init, StreamInv, Offsets

\* ... a reader keeps it ...
LEMMA ReadKeepsInv ==
  ASSUME StreamInv, phase = "reading", NEW r, Yields(r, pos, Len(sink)),
         NEW result, Read(r, result)
  PROVE  StreamInv'
<1>1. /\ pos' = r.pos /\ sink' = sink /\ format' = format
      /\ phase' = IF r.ok THEN "reading" ELSE r.v
  BY DEF Read
<1>2. pos' \in Offsets(sink')
  <2>1. Len(sink) \in Nat /\ pos \in 0 .. Len(sink)
    BY DEF StreamInv, Offsets
  <2> QED
    BY <1>1, <2>1 DEF Yields, Offsets
<1>3. phase' \in {"reading"} \cup ErrorCodes
  BY <1>1 DEF Yields
<1>4. phase' # "writing"
  BY <1>3 DEF ErrorCodes
<1> QED
  BY <1>1, <1>2, <1>3, <1>4 DEF StreamInv

\* ... and so does every step.
LEMMA StreamStep == StreamInv /\ [Next]_vars => StreamInv'
<1> SUFFICES ASSUME StreamInv, [Next]_vars PROVE StreamInv'
  OBVIOUS
<1>0. Len(sink) \in Nat
  BY DEF StreamInv
<1>1. ASSUME NEW nv \in Roots, Write(nv) PROVE StreamInv'
  <2> DEFINE w == encode(format, nv)
  <2>1. w.out \in Seq(Byte)
    <3>1. MaxNesting \in Nat /\ nv \in Seq(Byte) \X Values(MaxNesting)
      BY RootsAssumption DEF ByteStrings
    <3> QED
      BY <3>1, EncodesBytes DEF StreamInv
  <2>2. sink' = sink \o w.out /\ UNCHANGED <<format, pos, phase>> /\ phase = "writing"
    BY <1>1 DEF Write
  <2> HIDE DEF w
  <2>3. sink' \in Seq(Byte) /\ Len(sink') \in Nat
    BY <2>1, <2>2 DEF StreamInv
  <2> QED
    BY <2>2, <2>3 DEF StreamInv, Offsets
<1>2. ASSUME NEW n \in 0 .. Len(sink), Arrive(n) PROVE StreamInv'
  <2>1. sink' = SubSeq(sink, 1, n) /\ UNCHANGED <<format, pos>>
        /\ phase = "writing" /\ phase' = "reading"
    BY <1>2 DEF Arrive
  <2>2. sink' \in Seq(Byte) /\ Len(sink') \in Nat
    BY <1>0, <2>1 DEF StreamInv
  <2> QED
    BY <2>1, <2>2 DEF StreamInv, Offsets
<1>3. ASSUME NEW i \in DOMAIN sink, NEW b \in Damage, ArriveDamaged(i, b)
      PROVE  StreamInv'
  <2>1. sink' = [sink EXCEPT ![i] = b] /\ UNCHANGED <<format, pos>>
        /\ phase = "writing" /\ phase' = "reading"
    BY <1>3 DEF ArriveDamaged
  <2>2. b \in Byte
    BY DamageAssumption
  <2>3. sink' \in Seq(Byte) /\ Len(sink') \in Nat
    BY <2>1, <2>2 DEF StreamInv
  <2> QED
    BY <2>1, <2>3 DEF StreamInv, Offsets
<1>4. CASE DecodeRoot
  <2>1. phase = "reading" /\ Read(decode(format, sink, pos), decode(format, sink, pos).v)
    BY <1>4 DEF DecodeRoot
  <2>2. Yields(decode(format, sink, pos), pos, Len(sink))
    BY SkipsWhatDecodes DEF StreamInv
  <2> QED
    BY <2>1, <2>2, ReadKeepsInv
<1>5. CASE SkipRoot
  <2>1. phase = "reading" /\ Read(skip(format, sink, pos), Skipped)
    BY <1>5 DEF SkipRoot
  <2>2. Yields(skip(format, sink, pos), pos, Len(sink))
    BY SkipsWhatDecodes DEF StreamInv
  <2> QED
    BY <2>1, <2>2, ReadKeepsInv
<1>6. CASE UNCHANGED vars
  BY <1>6 DEF vars, StreamInv, Offsets
<1> QED
  BY <1>1, <1>2, <1>3, <1>4, <1>5, <1>6 DEF Next

\* The sink holds bytes, the cursor stays in it, and a reader that stops has
\* one of the decoder's error codes.
THEOREM StreamTyped == Spec => []TypeOK
<1>1. StreamInv => TypeOK
  <2> SUFFICES ASSUME StreamInv PROVE TypeOK
    OBVIOUS
  <2>1. \A i \in DOMAIN sink : sink[i] \in Byte
    BY DEF StreamInv
  <2> QED
    BY <2>1 DEF StreamInv, TypeOK, Offsets
<1> QED
  BY <1>1, StreamInit, StreamStep, PTL DEF Spec

\* Wherever a reader stands in whatever bytes arrived, intact, cut short or
\* changed, decode and skip take the same bytes for a root and fail alike.
THEOREM SkipAlwaysAgrees == Spec => []SkipAgrees
<1>1. StreamInv => SkipAgrees
  BY SkipsWhatDecodes DEF StreamInv, SkipAgrees
<1> QED
  BY <1>1, StreamInit, StreamStep, PTL DEF Spec

-----------------------------------------------------------------------------
(* The roots of a stream.                                                  *)

\* What sent holds for a root that encode wrote at p.
SentAt(f, in, p, s, whole) ==
  \E nv \in Roots : \E w \in {encode(f, nv)} :
    /\ w.ok
    /\ s = <<StoredAs(f, nv), p + Len(w.out)>>
    /\ whole => Stand(in, p, w.out)

IsSequence(s) == \E S : s \in Seq(S)

\* Where the k-th of the roots sent ends.
EndIn(s, k) == IF k = 0 THEN 0 ELSE s[k][2]

\* The roots sent stand one after the other in what there is of the sink ...
Tiled(f, in, s, whole) ==
  /\ IsSequence(s)
  /\ \A k \in 0 .. Len(s) : EndIn(s, k) \in Nat
  /\ \A j, k \in 0 .. Len(s) : j <= k => EndIn(s, j) <= EndIn(s, k)
  /\ \A k \in 1 .. Len(s) : SentAt(f, in, EndIn(s, k - 1), s[k], whole)

\* ... which is all there is before it travels, and unless a write failed ...
SinkInv ==
  /\ torn \in BOOLEAN /\ damaged \in BOOLEAN
  /\ phase = "writing" =>
       ~ damaged /\ got = <<>> /\ EndIn(sent, Len(sent)) <= Len(sink)
  /\ ~ torn => Len(sink) <= EndIn(sent, Len(sent))

\* ... and a reader has taken them off in order ...
Taken(s, g, p) ==
  \A k \in 1 .. Len(g) : k <= Len(s) => g[k] \in {s[k][1], Skipped} /\ EndIn(s, k) <= p

\* ... up to the one at which it fails.
FailsAt(s, k, n, code) ==
  \/ code = "UnexpectedEndOfInput" /\ EndIn(s, k) > n
  \/ code = "LimitExceeded" /\ Nested(s[k][1][2])[kMaxDecodeDepth] # {}

GotInv ==
  /\ IsSequence(got)
  /\ ~ damaged =>
       /\ phase # "writing" => Taken(sent, got, pos)
       /\ phase = "reading" /\ Len(got) <= Len(sent) => pos = EndIn(sent, Len(got))
       /\ ~ torn =>
            /\ Len(got) <= Len(sent)
            /\ phase \in ErrorCodes =>
                 Len(got) < Len(sent) /\ FailsAt(sent, Len(got) + 1, Len(sink), phase)

RootsInv ==
  /\ StreamInv
  /\ Tiled(format, sink, sent, ~ damaged)
  /\ SinkInv
  /\ GotInv

\* What stands in a buffer still does when more is appended to it ...
LEMMA StandLonger ==
  ASSUME NEW in \in Seq(Byte), NEW z \in Seq(Byte), NEW p \in Nat, NEW x \in Seq(Byte),
         p + Len(x) <= Len(in), Stand(in, p, x)
  PROVE  Stand(in \o z, p, x)
<1>1. \A i \in 1 .. Len(in) : (in \o z)[i] = in[i]
  OBVIOUS
<1>2. \A i \in 1 .. Len(x) : p + i \in 1 .. Len(in)
  OBVIOUS
<1>3. \A i \in 1 .. Len(x) : p + i <= Len(in)
  BY <1>2
<1> QED
  BY <1>1, <1>2, <1>3 DEF Stand

\* ... as what was appended does ...
LEMMA StandAppended ==
  ASSUME NEW in \in Seq(Byte), NEW z \in Seq(Byte)
  PROVE  Stand(in \o z, Len(in), z)
<1>1. \A i \in 1 .. Len(z) : (in \o z)[Len(in) + i] = z[i]
  OBVIOUS
<1> QED
  BY <1>1 DEF Stand

\* ... and when it is cut short.
LEMMA StandCut ==
  ASSUME NEW in \in Seq(Byte), NEW n \in 0 .. Len(in), NEW p \in Nat, NEW x \in Seq(Byte),
         Stand(in, p, x)
  PROVE  Stand(SubSeq(in, 1, n), p, x)
<1> DEFINE c == SubSeq(in, 1, n)
<1>1. Len(c) = n /\ n <= Len(in) /\ n \in Nat /\ Len(in) \in Nat
  OBVIOUS
<1>2. \A i \in 1 .. n : c[i] = in[i]
  OBVIOUS
<1> HIDE DEF c
<1>3. SUFFICES ASSUME NEW i \in 1 .. Len(x), p + i <= n PROVE c[p + i] = x[i]
  BY <1>1 DEF Stand, c
<1>4. p + i \in 1 .. n /\ p + i <= Len(in)
  BY <1>1, <1>3
<1>5. in[p + i] = x[i]
  BY <1>4 DEF Stand
<1> QED
  BY <1>2, <1>4, <1>5

\* A root sent is a root the callers wrote.
LEMMA SentIs ==
  ASSUME NEW f \in Formats, NEW in, NEW p \in Nat, NEW s, NEW whole,
         SentAt(f, in, p, s, whole)
  PROVE  \E nv \in Roots, o \in Seq(Byte) :
           /\ encode(f, nv).ok /\ encode(f, nv).out = o
           /\ s = <<StoredAs(f, nv), p + Len(o)>>
           /\ whole => Stand(in, p, o)
<1>1. PICK nv \in Roots : /\ encode(f, nv).ok
                          /\ s = <<StoredAs(f, nv), p + Len(encode(f, nv).out)>>
                          /\ whole => Stand(in, p, encode(f, nv).out)
  BY DEF SentAt
<1>2. encode(f, nv).out \in Seq(Byte)
  <2>1. MaxNesting \in Nat /\ nv \in Seq(Byte) \X Values(MaxNesting)
    BY RootsAssumption DEF ByteStrings
  <2> QED
    BY <2>1, EncodesBytes
<1> QED
  BY <1>1, <1>2

\* Its end.
LEMMA SentEnds ==
  ASSUME NEW f \in Formats, NEW in, NEW p \in Nat, NEW s, NEW whole,
         SentAt(f, in, p, s, whole)
  PROVE  s[2] \in Nat /\ p <= s[2]
<1>1. PICK nv \in Roots, o \in Seq(Byte) : s = <<StoredAs(f, nv), p + Len(o)>>
  BY SentIs
<1>2. s[2] = p + Len(o) /\ Len(o) \in Nat
  BY <1>1
<1> QED
  BY <1>2

LEMMA SentLonger ==
  ASSUME NEW f \in Formats, NEW in \in Seq(Byte), NEW z \in Seq(Byte),
         NEW p \in Nat, NEW s, NEW whole, SentAt(f, in, p, s, whole), s[2] <= Len(in)
  PROVE  SentAt(f, in \o z, p, s, whole)
<1>1. PICK nv \in Roots, o \in Seq(Byte) :
        /\ encode(f, nv).ok /\ encode(f, nv).out = o
        /\ s = <<StoredAs(f, nv), p + Len(o)>>
        /\ whole => Stand(in, p, o)
  BY SentIs
<1>2. whole => Stand(in \o z, p, o)
  BY <1>1, StandLonger
<1> QED
  BY <1>1, <1>2 DEF SentAt

LEMMA SentCut ==
  ASSUME NEW f \in Formats, NEW in \in Seq(Byte), NEW n \in 0 .. Len(in),
         NEW p \in Nat, NEW s, NEW whole, SentAt(f, in, p, s, whole)
  PROVE  SentAt(f, SubSeq(in, 1, n), p, s, whole)
<1>1. PICK nv \in Roots, o \in Seq(Byte) :
        /\ encode(f, nv).ok /\ encode(f, nv).out = o
        /\ s = <<StoredAs(f, nv), p + Len(o)>>
        /\ whole => Stand(in, p, o)
  BY SentIs
<1>2. whole => Stand(SubSeq(in, 1, n), p, o)
  BY <1>1, StandCut
<1> QED
  BY <1>1, <1>2 DEF SentAt

\* A root just written.
LEMMA SentNow ==
  ASSUME NEW f \in Formats, NEW in \in Seq(Byte), NEW nv \in Roots, encode(f, nv).ok,
         NEW z \in Seq(Byte), z = encode(f, nv).out, NEW whole
  PROVE  SentAt(f, in \o z, Len(in), <<StoredAs(f, nv), Len(in \o z)>>, whole)
<1>1. Stand(in \o z, Len(in), z)
  BY StandAppended
<1>2. Len(in \o z) = Len(in) + Len(z)
  OBVIOUS
<1> QED
  BY <1>1, <1>2 DEF SentAt

\* One that was damaged is still as long.
LEMMA SentHurt ==
  ASSUME NEW f, NEW in, NEW to, NEW p, NEW s, NEW whole, SentAt(f, in, p, s, whole)
  PROVE  SentAt(f, to, p, s, FALSE)
BY DEF SentAt

\* The Values of proper roots are proper: below MaxNesting there are no parts.
LEMMA AllProper ==
  ASSUME ProperRoots, NEW nv \in Roots
  PROVE  Proper(nv[2])
<1> SUFFICES ASSUME NEW d \in Nat, d # 0 PROVE EndTag \notin Nested(nv[2])[d]
  BY DEF Proper
<1>1. MaxNesting \in Nat /\ nv[2] \in Values(MaxNesting)
  BY RootsAssumption
<1>2. PICK at : /\ \A k \in 0 .. MaxNesting : at[k] = ValueLevel(k, at[k - 1])
                /\ Values(MaxNesting) = at[MaxNesting]
  BY <1>1, ValuesAre
<1>3. Nested(nv[2])[MaxNesting + 1] = {}
  BY <1>1, <1>2, NestedTyped
<1>4. CASE d >= MaxNesting + 1
  BY <1>1, <1>3, <1>4, NestedEnds
<1>5. CASE ~ (d >= MaxNesting + 1)
  <2>1. d \in 1 .. MaxNesting
    BY <1>1, <1>5
  <2> QED
    BY <2>1 DEF ProperRoots
<1> QED
  BY <1>4, <1>5

\* What decode and skip make of a root that was sent.
LEMMA SentGets ==
  ASSUME ProperRoots, NEW f \in Formats, NEW in \in Seq(Byte), NEW p \in Offsets(in),
         NEW s, SentAt(f, in, p, s, TRUE),
         NEW deep, deep = (Nested(s[1][2])[kMaxDecodeDepth] # {})
  PROVE  LET r == skip(f, in, p)
             m == s[2] - p
         IN  /\ Gets(decode(f, in, p), s[1], p, m, Len(in), deep)
             /\ Gets(r, r.v, p, m, Len(in), deep)
<1>0. p \in Nat
  BY DEF Offsets
<1>1. PICK nv \in Roots, o \in Seq(Byte) :
        /\ encode(f, nv).ok /\ encode(f, nv).out = o
        /\ s = <<StoredAs(f, nv), p + Len(o)>>
        /\ Stand(in, p, o)
  BY <1>0, SentIs
<1>2. PICK name \in ByteStrings, v \in Values(MaxNesting) : nv = <<name, v>>
  BY RootsAssumption
<1>3. MaxNesting \in Nat /\ Proper(v)
  <2>1. nv[2] = v
    BY <1>2
  <2> QED
    BY <2>1, RootsAssumption, AllProper
<1>4. s[1] = StoredAs(f, <<name, v>>) /\ s[1][2] = v /\ s[2] - p = Len(o)
  <2>1. s[1] = StoredAs(f, nv) /\ s[2] = p + Len(o) /\ Len(o) \in Nat
    BY <1>1
  <2>2. StoredAs(f, nv)[2] = nv[2] /\ nv[2] = v
    BY <1>2 DEF StoredAs, NoRoot
  <2>3. s[2] - p = Len(o)
    BY <1>0, <2>1
  <2> QED
    BY <1>2, <2>1, <2>2, <2>3
<1>5. PICK w : w = encode(f, <<name, v>>)
  OBVIOUS
<1>6. w.ok /\ w.out = o
  BY <1>1, <1>2, <1>5
<1>7. LET r == skip(f, in, p) IN
      /\ Len(w.out) >= 1
      /\ Stand(in, p, w.out) =>
           /\ Gets(decode(f, in, p), StoredAs(f, <<name, v>>), p, Len(w.out), Len(in), deep)
           /\ Gets(r, r.v, p, Len(w.out), Len(in), deep)
  <2>1. Nested(v)[kMaxDecodeDepth] # {} => deep
    BY <1>4
  <2> QED
    BY <1>3, <1>5, <1>6, <2>1, RootGets
<1> QED
  BY <1>1, <1>4, <1>6, <1>7

\* Sequences of anything, one longer.
IsAppended(t, s, x) == t = Append(s, x)

LEMMA Appended ==
  ASSUME NEW s, IsSequence(s), NEW x, NEW t, IsAppended(t, s, x)
  PROVE  /\ IsSequence(t)
         /\ Len(t) = Len(s) + 1 /\ Len(s) \in Nat
         /\ \A i \in 1 .. Len(s) : t[i] = s[i]
         /\ t[Len(s) + 1] = x
<1>1. PICK S : s \in Seq(S)
  BY DEF IsSequence
<1>2. PICK T : T = S \cup {x}
  OBVIOUS
<1>3. s \in Seq(T) /\ x \in T
  <2>1. Len(s) \in Nat /\ s \in [1 .. Len(s) -> S]
    BY <1>1
  <2>2. s \in [1 .. Len(s) -> T]
    BY <1>2, <2>1
  <2> QED
    BY <1>2, <2>1, <2>2
<1>4. t = Append(s, x)
  BY DEF IsAppended
<1>5. t \in Seq(T)
  BY <1>3, <1>4
<1>6. /\ Len(t) = Len(s) + 1 /\ Len(s) \in Nat
      /\ t[Len(s) + 1] = x
      /\ \A i \in 1 .. Len(s) : t[i] = s[i]
  BY <1>3, <1>4
<1> QED
  BY <1>5, <1>6 DEF IsSequence

\* Where the roots end is a number.
LEMMA TiledEnds ==
  ASSUME NEW f, NEW in, NEW s, NEW whole, Tiled(f, in, s, whole)
  PROVE  /\ Len(s) \in Nat
         /\ \A k \in 0 .. Len(s) : EndIn(s, k) \in Nat /\ EndIn(s, k) <= EndIn(s, Len(s))
<1>1. Len(s) \in Nat
  BY DEF Tiled, IsSequence
<1>2. \A k \in 0 .. Len(s) : k <= Len(s) /\ Len(s) \in 0 .. Len(s)
  BY <1>1
<1> QED
  BY <1>1, <1>2 DEF Tiled

\* The ends of one root more.
LEMMA EndsMore ==
  ASSUME NEW s, IsSequence(s), NEW e, NEW t, IsAppended(t, s, e)
  PROVE  /\ \A k \in 0 .. Len(s) : EndIn(t, k) = EndIn(s, k)
         /\ EndIn(t, Len(s) + 1) = e[2]
<1>1. /\ Len(s) \in Nat /\ \A i \in 1 .. Len(s) : t[i] = s[i]
      /\ t[Len(s) + 1] = e
  BY Appended
<1>2. Len(s) + 1 # 0 /\ \A k \in 0 .. Len(s) : k # 0 => k \in 1 .. Len(s)
  BY <1>1
<1> QED
  BY <1>1, <1>2 DEF EndIn

IsJoined(to, in, z) == to = in \o z

\* A root more, written where the last one ends.
LEMMA TiledMore ==
  ASSUME NEW f \in Formats, NEW in \in Seq(Byte), NEW z \in Seq(Byte),
         NEW s, NEW whole, Tiled(f, in, s, whole), EndIn(s, Len(s)) = Len(in),
         NEW to, IsJoined(to, in, z), NEW e, NEW t, IsAppended(t, s, e),
         SentAt(f, to, Len(in), e, whole), e[2] = Len(to)
  PROVE  Tiled(f, to, t, whole) /\ EndIn(t, Len(t)) = Len(to)
<1>1. to = in \o z
  BY DEF IsJoined
<1>2. Len(in) \in Nat /\ Len(to) \in Nat /\ Len(in) <= Len(to)
  <2>1. Len(in \o z) = Len(in) + Len(z) /\ Len(in) \in Nat /\ Len(z) \in Nat
    OBVIOUS
  <2> QED
    BY <1>1, <2>1
<1>3. IsSequence(s)
  BY DEF Tiled
<1>4. PICK n : n = Len(s)
  OBVIOUS
<1> n \in Nat
  BY <1>4, TiledEnds
<1>5. /\ IsSequence(t)
      /\ Len(t) = n + 1 /\ t[n + 1] = e
      /\ \A i \in 1 .. n : t[i] = s[i]
  <2>1. /\ IsSequence(t)
        /\ Len(t) = Len(s) + 1 /\ Len(s) \in Nat
        /\ \A i \in 1 .. Len(s) : t[i] = s[i]
        /\ t[Len(s) + 1] = e
    <3>1. IsSequence(t) /\ Len(t) = Len(s) + 1 /\ Len(s) \in Nat
      BY <1>3, Appended
    <3>2. \A i \in 1 .. Len(s) : t[i] = s[i]
      BY <1>3, Appended
    <3>3. t[Len(s) + 1] = e
      BY <1>3, Appended
    <3> QED
      BY <3>1, <3>2, <3>3
  <2> QED
    BY <1>4, <2>1
<1>6. e[2] = Len(to)
  BY <1>1
<1>7. (\A k \in 0 .. n : EndIn(t, k) = EndIn(s, k)) /\ EndIn(t, n + 1) = Len(to)
  <2>1. /\ \A k \in 0 .. Len(s) : EndIn(t, k) = EndIn(s, k)
        /\ EndIn(t, Len(s) + 1) = e[2]
    BY <1>3, EndsMore, Zenon
  <2> QED
    BY <1>4, <1>6, <2>1
<1>8. /\ \A k \in 0 .. n : EndIn(s, k) \in Nat /\ EndIn(s, k) <= Len(in)
      /\ \A j, k \in 0 .. n : j <= k => EndIn(s, j) <= EndIn(s, k)
      /\ \A k \in 1 .. n : SentAt(f, in, EndIn(s, k - 1), s[k], whole)
  BY <1>4, TiledEnds DEF Tiled
<1>9. \A k \in 0 .. n : EndIn(s, k) <= Len(to)
  BY <1>2, <1>8
<1>10. 0 .. (n + 1) = (0 .. n) \cup {n + 1} /\ 1 .. (n + 1) = (1 .. n) \cup {n + 1}
  OBVIOUS
<1>11. \A k \in 0 .. n + 1 : EndIn(t, k) \in Nat
  BY <1>2, <1>7, <1>8, <1>10
<1>12. ASSUME NEW j \in 0 .. n + 1, NEW k \in 0 .. n + 1, j <= k
       PROVE  EndIn(t, j) <= EndIn(t, k)
  <2>1. CASE k \in 0 .. n
    <3>1. j \in 0 .. n
      BY <1>12, <2>1
    <3> QED
      BY <1>7, <1>8, <1>12, <2>1, <3>1
  <2>2. CASE k = n + 1 /\ j \in 0 .. n
    BY <1>7, <1>9, <2>2
  <2>3. CASE k = n + 1 /\ j = n + 1
    <3>1. EndIn(t, n + 1) <= EndIn(t, n + 1)
      BY <1>2, <1>7
    <3> QED
      BY <2>3, <3>1
  <2> QED
    BY <1>10, <2>1, <2>2, <2>3
<1>13. ASSUME NEW k \in 1 .. n + 1 PROVE SentAt(f, to, EndIn(t, k - 1), t[k], whole)
  <2>1. CASE k \in 1 .. n
    <3>1. k - 1 \in 0 .. n /\ k \in 0 .. n /\ k # 0
      BY <2>1
    <3>2. EndIn(s, k - 1) \in Nat /\ s[k][2] <= Len(in)
      BY <1>8, <3>1 DEF EndIn
    <3>3. SentAt(f, to, EndIn(s, k - 1), s[k], whole)
      BY <1>1, <1>8, <2>1, <3>2, SentLonger
    <3> QED
      BY <1>5, <1>7, <2>1, <3>1, <3>3
  <2>2. CASE k = n + 1
    <3>1. k - 1 = n /\ n \in 0 .. n
      BY <2>2
    <3>2. EndIn(t, k - 1) = Len(in)
      BY <1>4, <1>7, <3>1
    <3>3. SentAt(f, to, Len(in), e, whole)
      BY <1>1
    <3> QED
      BY <1>5, <2>2, <3>2, <3>3
  <2> QED
    BY <1>10, <2>1, <2>2
<1>14. Tiled(f, to, t, whole)
  BY <1>5, <1>11, <1>12, <1>13 DEF Tiled
<1> QED
  BY <1>1, <1>5, <1>7, <1>14

\* A write that fails half way leaves more behind the last root ...
LEMMA TiledLonger ==
  ASSUME NEW f \in Formats, NEW in \in Seq(Byte), NEW z \in Seq(Byte),
         NEW s, NEW whole, Tiled(f, in, s, whole), EndIn(s, Len(s)) <= Len(in)
  PROVE  Tiled(f, in \o z, s, whole)
<1>1. ASSUME NEW k \in 1 .. Len(s)
      PROVE  SentAt(f, in \o z, EndIn(s, k - 1), s[k], whole)
  <2>1. k - 1 \in 0 .. Len(s) /\ k \in 0 .. Len(s) /\ k # 0 /\ Len(in) \in Nat
        /\ Len(s) \in 0 .. Len(s)
    BY TiledEnds
  <2>2. EndIn(s, k - 1) \in Nat /\ EndIn(s, k) \in Nat /\ EndIn(s, Len(s)) \in Nat
        /\ EndIn(s, k) <= EndIn(s, Len(s))
    BY <2>1, TiledEnds
  <2>3. EndIn(s, k) <= Len(in)
    BY <2>1, <2>2
  <2>4. s[k][2] <= Len(in) /\ SentAt(f, in, EndIn(s, k - 1), s[k], whole)
    BY <2>1, <2>3 DEF EndIn, Tiled
  <2> QED
    BY <2>2, <2>4, SentLonger
<1> QED
  BY <1>1 DEF Tiled

\* ... and a part of them is still what it was.
LEMMA TiledCut ==
  ASSUME NEW f \in Formats, NEW in \in Seq(Byte), NEW n \in 0 .. Len(in),
         NEW s, NEW whole, Tiled(f, in, s, whole)
  PROVE  Tiled(f, SubSeq(in, 1, n), s, whole)
<1>1. ASSUME NEW k \in 1 .. Len(s)
      PROVE  SentAt(f, SubSeq(in, 1, n), EndIn(s, k - 1), s[k], whole)
  <2>1. k - 1 \in 0 .. Len(s)
    BY TiledEnds
  <2>2. EndIn(s, k - 1) \in Nat /\ SentAt(f, in, EndIn(s, k - 1), s[k], whole)
    BY <2>1 DEF Tiled
  <2> QED
    BY <2>2, SentCut
<1> QED
  BY <1>1 DEF Tiled

LEMMA TiledHurt ==
  ASSUME NEW f, NEW in, NEW to, NEW s, NEW whole, Tiled(f, in, s, whole)
  PROVE  Tiled(f, to, s, FALSE)
BY SentHurt DEF Tiled

\* It holds of an empty sink ...
LEMMA RootsInit == Init => RootsInv
<1> SUFFICES ASSUME Init PROVE RootsInv
  OBVIOUS
<1>1. StreamInv
  BY StreamInit
<1>2. /\ sink = <<>> /\ sent = <<>> /\ got = <<>> /\ phase = "writing"
      /\ torn = FALSE /\ damaged = FALSE
  BY DEF Init
<1>3. Len(sent) = 0 /\ Len(got) = 0 /\ Len(sink) = 0
  BY <1>2
<1>4. IsSequence(sent) /\ IsSequence(got)
  <2>1. <<>> \in Seq({})
    OBVIOUS
  <2> QED
    BY <1>2, <2>1 DEF IsSequence
<1>5. EndIn(sent, 0) = 0
  BY DEF EndIn
<1>6. Tiled(format, sink, sent, ~ damaged)
  BY <1>3, <1>4, <1>5 DEF Tiled
<1>7. SinkInv
  <2>1. EndIn(sent, Len(sent)) <= Len(sink) /\ Len(sink) <= EndIn(sent, Len(sent))
    BY <1>3, <1>5
  <2> QED
    BY <1>2, <2>1 DEF SinkInv
<1>8. GotInv
  <2>1. phase \notin ErrorCodes /\ phase = "writing"
    BY <1>2 DEF ErrorCodes
  <2> QED
    BY <1>3, <1>4, <2>1 DEF GotInv
<1> QED
  BY <1>1, <1>6, <1>7, <1>8 DEF RootsInv

\* ... a write keeps it, which puts a root where the last one ends, and stops
\* the callers if it fails ...
LEMMA WriteKeeps ==
  ASSUME RootsInv, NEW nv \in Roots, Write(nv)
  PROVE  /\ Tiled(format', sink', sent', ~ damaged')
         /\ SinkInv'
         /\ GotInv'
<1>1. PICK w : w = encode(format, nv)
  OBVIOUS
<1>2. w.ok \in BOOLEAN /\ w.out \in Seq(Byte)
  <2>1. MaxNesting \in Nat /\ nv \in Seq(Byte) \X Values(MaxNesting)
    BY RootsAssumption DEF ByteStrings
  <2> QED
    BY <1>1, <2>1, EncodesBytes DEF RootsInv, StreamInv
<1>3. PICK z \in Seq(Byte) : z = w.out
  BY <1>2
<1>4. PICK e : e = <<StoredAs(format, nv), Len(sink \o z)>>
  OBVIOUS
<1>5. /\ phase = "writing" /\ ~ torn
      /\ sink' = sink \o z
      /\ sent' = IF w.ok THEN Append(sent, e) ELSE sent
      /\ torn' = ~ w.ok
      /\ UNCHANGED <<format, damaged, pos, got, phase>>
  BY <1>1, <1>3, <1>4 DEF Write
<1>6. /\ format \in Formats /\ sink \in Seq(Byte) /\ Len(sink) \in Nat
      /\ Tiled(format, sink, sent, ~ damaged)
      /\ damaged \in BOOLEAN /\ ~ damaged /\ got = <<>>
      /\ EndIn(sent, Len(sent)) <= Len(sink) /\ Len(sink) <= EndIn(sent, Len(sent))
  BY <1>5 DEF RootsInv, StreamInv, SinkInv
<1>7. EndIn(sent, Len(sent)) = Len(sink)
  <2>1. Len(sent) \in 0 .. Len(sent)
    BY <1>6, TiledEnds
  <2>2. EndIn(sent, Len(sent)) \in Nat
    BY <1>6, <2>1, TiledEnds
  <2> QED
    BY <1>6, <2>2
<1>8. Len(sink') = Len(sink) + Len(z) /\ Len(z) \in Nat /\ Len(sink') \in Nat
  BY <1>5, <1>6
<1>9. PICK s, t, in, to, f, b :
        /\ s = sent /\ t = Append(s, e) /\ in = sink /\ to = in \o z
        /\ f = format /\ b = ~ damaged
  OBVIOUS
<1>10. ASSUME w.ok
       PROVE  /\ Tiled(format', sink', sent', ~ damaged')
              /\ EndIn(sent', Len(sent')) = Len(sink')
  <2>1. SentAt(f, to, Len(in), e, b)
    BY <1>1, <1>3, <1>4, <1>6, <1>9, <1>10, SentNow
  <2>2. e[2] = Len(to)
    BY <1>4, <1>9
  <2>3. f \in Formats /\ in \in Seq(Byte) /\ Tiled(f, in, s, b) /\ EndIn(s, Len(s)) = Len(in)
    BY <1>6, <1>7, <1>9
  <2>4. IsAppended(t, s, e) /\ IsJoined(to, in, z)
    BY <1>9 DEF IsAppended, IsJoined
  <2>5. Tiled(f, to, t, b) /\ EndIn(t, Len(t)) = Len(to)
    BY <2>1, <2>2, <2>3, <2>4, TiledMore
  <2>6. sent' = t /\ sink' = to /\ format' = f /\ b = ~ damaged'
    BY <1>5, <1>9, <1>10
  <2> QED
    BY <2>5, <2>6
<1>11. ASSUME ~ w.ok
       PROVE  /\ Tiled(format', sink', sent', ~ damaged')
              /\ EndIn(sent', Len(sent')) = Len(sink)
  <2>1. f \in Formats /\ in \in Seq(Byte) /\ Tiled(f, in, s, b) /\ EndIn(s, Len(s)) <= Len(in)
    BY <1>6, <1>9
  <2>2. Tiled(f, in \o z, s, b)
    BY <2>1, TiledLonger
  <2>3. Tiled(format', sink', sent', ~ damaged')
    BY <1>5, <1>9, <1>11, <2>2
  <2>4. EndIn(sent', Len(sent')) = Len(sink)
    BY <1>5, <1>7, <1>11
  <2> QED
    BY <2>3, <2>4
<1>12. Tiled(format', sink', sent', ~ damaged')
  BY <1>2, <1>10, <1>11
<1>13. EndIn(sent', Len(sent')) \in Nat /\ EndIn(sent', Len(sent')) <= Len(sink')
       /\ (w.ok => EndIn(sent', Len(sent')) = Len(sink'))
  BY <1>2, <1>6, <1>8, <1>10, <1>11
<1>14. SinkInv'
  <2>1. torn' \in BOOLEAN /\ damaged' \in BOOLEAN /\ ~ damaged' /\ got' = <<>>
        /\ (~ torn' => w.ok)
    BY <1>2, <1>5, <1>6
  <2>2. ~ torn' => Len(sink') <= EndIn(sent', Len(sent'))
    BY <1>8, <1>13, <2>1
  <2> QED
    BY <1>13, <2>1, <2>2 DEF SinkInv
<1>15. GotInv'
  <2>1. phase' = "writing" /\ phase' \notin ErrorCodes /\ got' = <<>>
    BY <1>5, <1>6 DEF ErrorCodes
  <2>2. Len(got') = 0 /\ IsSequence(got') /\ Len(sent') \in Nat
    <3>1. <<>> \in Seq({})
      OBVIOUS
    <3> QED
      BY <1>12, <2>1, <3>1, TiledEnds DEF IsSequence
  <2> QED
    BY <2>1, <2>2 DEF GotInv
<1> QED
  BY <1>12, <1>14, <1>15

\* ... taking the bytes off keeps it ...

\* ... so do the bytes as they arrive, cut short ...
LEMMA ArriveKeeps ==
  ASSUME RootsInv, NEW n \in 0 .. Len(sink), Arrive(n)
  PROVE  /\ Tiled(format', sink', sent', ~ damaged')
         /\ SinkInv'
         /\ GotInv'
<1>1. /\ phase = "writing" /\ phase' = "reading" /\ sink' = SubSeq(sink, 1, n)
      /\ UNCHANGED <<format, sent, torn, damaged, pos, got>>
  BY DEF Arrive
<1>2. /\ format \in Formats /\ sink \in Seq(Byte) /\ Len(sink) \in Nat /\ pos = 0
      /\ Tiled(format, sink, sent, ~ damaged)
      /\ torn \in BOOLEAN /\ damaged \in BOOLEAN /\ ~ damaged /\ got = <<>>
      /\ (~ torn => Len(sink) <= EndIn(sent, Len(sent)))
  BY <1>1 DEF RootsInv, StreamInv, SinkInv
<1>3. Tiled(format', sink', sent', ~ damaged')
  BY <1>1, <1>2, TiledCut
<1>4. Len(sent) \in Nat /\ EndIn(sent, Len(sent)) \in Nat
  <2>1. Len(sent) \in 0 .. Len(sent)
    BY <1>2, TiledEnds
  <2> QED
    BY <1>2, <2>1, TiledEnds
<1>5. SinkInv'
  <2>1. Len(sink') = n /\ n <= Len(sink) /\ n \in Nat
    BY <1>1, <1>2
  <2>2. ~ torn => Len(sink') <= EndIn(sent, Len(sent))
    BY <1>2, <1>4, <2>1
  <2> QED
    BY <1>1, <1>2, <2>2 DEF SinkInv
<1>6. GotInv'
  <2>1. /\ phase' = "reading" /\ phase' \notin ErrorCodes
        /\ Len(got') = 0 /\ Len(sent') \in Nat /\ pos' = 0
    BY <1>1, <1>2, <1>4 DEF ErrorCodes
  <2>2. IsSequence(got')
    BY <1>1 DEF RootsInv, GotInv
  <2>3. pos' = EndIn(sent', Len(got'))
    BY <2>1 DEF EndIn
  <2>4. Taken(sent', got', pos')
    BY <2>1 DEF Taken
  <2> QED
    BY <2>1, <2>2, <2>3, <2>4 DEF GotInv
<1> QED
  BY <1>3, <1>5, <1>6

\* ... or with one of them changed ...
LEMMA DamageKeeps ==
  ASSUME RootsInv, NEW i \in DOMAIN sink, NEW b \in Damage, ArriveDamaged(i, b)
  PROVE  /\ Tiled(format', sink', sent', ~ damaged')
         /\ SinkInv'
         /\ GotInv'
<1>1. /\ phase = "writing" /\ phase' = "reading" /\ damaged' = TRUE
      /\ sink' = [sink EXCEPT ![i] = b]
      /\ UNCHANGED <<format, sent, torn, pos, got>>
  BY DEF ArriveDamaged
<1>2. /\ sink \in Seq(Byte) /\ b \in Byte
      /\ Tiled(format, sink, sent, ~ damaged)
      /\ torn \in BOOLEAN
      /\ (~ torn => Len(sink) <= EndIn(sent, Len(sent)))
  BY DamageAssumption DEF RootsInv, StreamInv, SinkInv
<1>3. Tiled(format', sink', sent', ~ damaged')
  <2>1. (~ damaged') = FALSE
    BY <1>1
  <2>2. Tiled(format, sink', sent, FALSE)
    BY <1>2, TiledHurt
  <2> QED
    BY <1>1, <2>1, <2>2
<1>4. Len(sink') = Len(sink)
  BY <1>1, <1>2
<1>5. SinkInv'
  BY <1>1, <1>2, <1>4 DEF SinkInv
<1>6. GotInv'
  <2>1. IsSequence(got')
    BY <1>1 DEF RootsInv, GotInv
  <2> QED
    BY <1>1, <2>1 DEF GotInv
<1> QED
  BY <1>3, <1>5, <1>6

\* What a reader that stands before the k-th root may return.
ReadsRoot(k, r, result) ==
  /\ r.ok => result \in {sent[k][1], Skipped} /\ r.pos = EndIn(sent, k)
  /\ ~ r.ok => FailsAt(sent, k, Len(sink), r.v)

LEMMA ReadKeeps ==
  ASSUME RootsInv, phase = "reading", pos < Len(sink),
         NEW r, Yields(r, pos, Len(sink)), NEW result, Read(r, result),
         NEW k, k = Len(got) + 1,
         ~ damaged /\ k <= Len(sent) => ReadsRoot(k, r, result)
  PROVE  /\ Tiled(format', sink', sent', ~ damaged')
         /\ SinkInv'
         /\ GotInv'
<1>1. /\ pos' = r.pos
      /\ r.ok => phase' = phase /\ got' = Append(got, result)
      /\ ~ r.ok => phase' = r.v /\ got' = got
      /\ UNCHANGED <<format, sink, sent, torn, damaged>>
  BY DEF Read
<1>2. /\ Tiled(format, sink, sent, ~ damaged)
      /\ torn \in BOOLEAN /\ damaged \in BOOLEAN
      /\ sink \in Seq(Byte) /\ Len(sink) \in Nat /\ pos \in 0 .. Len(sink)
      /\ (~ torn => Len(sink) <= EndIn(sent, Len(sent)))
  BY DEF RootsInv, StreamInv, SinkInv, Offsets
<1>3. Tiled(format', sink', sent', ~ damaged')
  BY <1>1, <1>2
<1>4. /\ Len(sent) \in Nat
      /\ \A j \in 0 .. Len(sent) : EndIn(sent, j) \in Nat
  BY <1>2, TiledEnds
<1>5. phase' # "writing" /\ (~ r.ok => phase' \in ErrorCodes /\ phase' # "reading")
      /\ (r.ok => phase' = "reading" /\ phase' \notin ErrorCodes)
      /\ r.ok \in BOOLEAN /\ r.pos \in Int /\ pos <= r.pos
  BY <1>1, <1>2 DEF Yields, ErrorCodes
<1>6. SinkInv'
  BY <1>1, <1>2, <1>5 DEF SinkInv
<1>7. IsSequence(got) /\ Len(got) \in Nat
  BY DEF RootsInv, GotInv, IsSequence
<1>8. /\ IsSequence(got')
      /\ r.ok => /\ Len(got') = k /\ got'[k] = result
                 /\ \A j \in 1 .. Len(got) : got'[j] = got[j]
      /\ ~ r.ok => got' = got
  <2>1. CASE r.ok
    <3>1. IsAppended(got', got, result)
      BY <1>1, <2>1 DEF IsAppended
    <3> QED
      BY <1>7, <2>1, <3>1, Appended
  <2>2. CASE ~ r.ok
    BY <1>1, <1>7, <2>2
  <2> QED
    BY <2>1, <2>2
<1>9. ASSUME ~ damaged
      PROVE  /\ Taken(sent, got, pos)
             /\ Len(got) <= Len(sent) => pos = EndIn(sent, Len(got))
             /\ ~ torn => k <= Len(sent)
             /\ k <= Len(sent) => ReadsRoot(k, r, result)
  <2>1. /\ Taken(sent, got, pos)
        /\ Len(got) <= Len(sent) => pos = EndIn(sent, Len(got))
        /\ ~ torn => Len(got) <= Len(sent)
    BY <1>9 DEF RootsInv, GotInv
  <2>2. ~ torn => Len(got) # Len(sent)
    <3>1. Len(sent) \in 0 .. Len(sent) /\ Len(sent) <= Len(sent)
      BY <1>4
    <3>2. EndIn(sent, Len(sent)) \in Nat
      BY <1>4, <3>1
    <3>3. ASSUME ~ torn, Len(got) = Len(sent) PROVE FALSE
      <4>1. pos = EndIn(sent, Len(sent))
        BY <2>1, <3>1, <3>3
      <4>2. Len(sink) <= pos
        BY <1>2, <3>3, <4>1
      <4> QED
        BY <1>2, <4>2
    <3> QED
      BY <3>3
  <2>3. ~ torn => k <= Len(sent)
    BY <1>4, <1>7, <2>1, <2>2
  <2> QED
    BY <1>9, <2>1, <2>3
<1>10. ASSUME ~ damaged PROVE Taken(sent, got', pos')
  <2> SUFFICES ASSUME NEW j \in 1 .. Len(got'), j <= Len(sent)
               PROVE  got'[j] \in {sent[j][1], Skipped} /\ EndIn(sent, j) <= pos'
    BY DEF Taken
  <2>1. CASE j \in 1 .. Len(got)
    <3>1. got'[j] = got[j]
      BY <1>5, <1>8, <2>1
    <3>2. got[j] \in {sent[j][1], Skipped} /\ EndIn(sent, j) <= pos
      BY <1>9, <1>10, <2>1 DEF Taken
    <3>3. j \in 0 .. Len(sent)
      BY <1>4, <2>1
    <3>4. EndIn(sent, j) <= pos'
      BY <1>1, <1>2, <1>4, <1>5, <3>2, <3>3
    <3> QED
      BY <3>1, <3>2, <3>4
  <2>2. CASE r.ok /\ j = k
    <3>1. ReadsRoot(k, r, result)
      BY <1>9, <1>10, <2>2
    <3>2. result \in {sent[k][1], Skipped} /\ pos' = EndIn(sent, k)
      BY <1>1, <2>2, <3>1 DEF ReadsRoot
    <3>3. EndIn(sent, j) <= pos'
      <4>1. j \in 0 .. Len(sent)
        BY <1>4, <1>7, <2>2
      <4> QED
        BY <1>4, <2>2, <3>2, <4>1
    <3> QED
      BY <1>8, <2>2, <3>2, <3>3
  <2>3. j \in 1 .. Len(got) \/ (r.ok /\ j = k)
    BY <1>5, <1>7, <1>8
  <2> QED
    BY <2>1, <2>2, <2>3
<1>11. ASSUME ~ damaged, phase' = "reading", Len(got') <= Len(sent)
       PROVE  pos' = EndIn(sent, Len(got'))
  <2>1. r.ok
    BY <1>5, <1>11
  <2>2. Len(got') = k /\ k <= Len(sent)
    BY <1>8, <1>11, <2>1
  <2>3. ReadsRoot(k, r, result)
    BY <1>9, <1>11, <2>2
  <2> QED
    BY <1>1, <2>1, <2>2, <2>3 DEF ReadsRoot
<1>12. ASSUME ~ damaged, ~ torn PROVE Len(got') <= Len(sent)
  BY <1>4, <1>5, <1>7, <1>8, <1>9, <1>12
<1>13. ASSUME ~ damaged, ~ torn, phase' \in ErrorCodes
       PROVE  Len(got') < Len(sent) /\ FailsAt(sent, Len(got') + 1, Len(sink), phase')
  <2>1. ~ r.ok /\ got' = got /\ phase' = r.v
    BY <1>1, <1>5, <1>8, <1>13
  <2>2. k <= Len(sent) /\ ReadsRoot(k, r, result)
    BY <1>9, <1>13
  <2>3. FailsAt(sent, k, Len(sink), r.v)
    BY <2>1, <2>2 DEF ReadsRoot
  <2> QED
    BY <1>4, <1>7, <2>1, <2>2, <2>3
<1>14. GotInv'
  <2>1. sent' = sent /\ sink' = sink /\ torn' = torn /\ damaged' = damaged
    BY <1>1
  <2> QED
    BY <1>8, <1>10, <1>11, <1>12, <1>13, <2>1 DEF GotInv
<1> QED
  BY <1>3, <1>6, <1>14

\* What decode and skip return for the next of the roots.
LEMMA NextRoot ==
  ASSUME ProperRoots, RootsInv, phase = "reading", ~ damaged,
         NEW k, k = Len(got) + 1, k <= Len(sent)
  PROVE  LET d == decode(format, sink, pos) IN
         /\ ReadsRoot(k, d, d.v)
         /\ ReadsRoot(k, skip(format, sink, pos), Skipped)
<1>1. /\ Tiled(format, sink, sent, ~ damaged)
      /\ format \in Formats /\ sink \in Seq(Byte) /\ pos \in Offsets(sink)
  BY DEF RootsInv, StreamInv
<1>2. Len(got) \in Nat /\ Len(sent) \in Nat
  BY <1>1, TiledEnds DEF RootsInv, GotInv, IsSequence
<1>3. k \in 1 .. Len(sent) /\ k - 1 = Len(got) /\ k \in 0 .. Len(sent) /\ k # 0
      /\ Len(got) <= Len(sent)
  BY <1>2
<1>4. pos = EndIn(sent, k - 1)
  BY <1>3 DEF RootsInv, GotInv
<1>5. EndIn(sent, k) \in Nat /\ pos \in Nat /\ EndIn(sent, k) = sent[k][2]
  BY <1>1, <1>3, TiledEnds DEF Offsets, EndIn
<1>6. PICK s, deep, d, j, e :
        /\ s = sent[k] /\ deep = (Nested(s[1][2])[kMaxDecodeDepth] # {})
        /\ d = decode(format, sink, pos) /\ j = skip(format, sink, pos)
        /\ e = EndIn(sent, k)
  OBVIOUS
<1>7. SentAt(format, sink, pos, s, TRUE)
  <2>1. SentAt(format, sink, EndIn(sent, k - 1), sent[k], ~ damaged)
    BY <1>1, <1>3 DEF Tiled
  <2>2. (~ damaged) = TRUE
    OBVIOUS
  <2> QED
    BY <1>4, <1>6, <2>1, <2>2
<1>8. /\ Gets(d, s[1], pos, s[2] - pos, Len(sink), deep)
      /\ Gets(j, j.v, pos, s[2] - pos, Len(sink), deep)
  BY <1>1, <1>6, <1>7, SentGets
<1>9. ASSUME NEW r, NEW x, Gets(r, x, pos, e - pos, Len(sink), deep)
      PROVE  /\ r.ok \in BOOLEAN
             /\ r.ok => r.v = x /\ r.pos = e
             /\ ~ r.ok => \/ r.v = "UnexpectedEndOfInput" /\ e > Len(sink)
                          \/ r.v = "LimitExceeded" /\ deep
  <2>1. pos + (e - pos) = e
    BY <1>5, <1>6
  <2> QED
    BY <1>9, <2>1 DEF Gets
<1>10. s[2] = e
  BY <1>5, <1>6
<1>11. /\ d.ok => d.v = s[1] /\ d.pos = e
       /\ ~ d.ok => \/ d.v = "UnexpectedEndOfInput" /\ e > Len(sink)
                    \/ d.v = "LimitExceeded" /\ deep
  BY <1>8, <1>9, <1>10
<1>12. /\ j.ok => j.pos = e
       /\ ~ j.ok => \/ j.v = "UnexpectedEndOfInput" /\ e > Len(sink)
                    \/ j.v = "LimitExceeded" /\ deep
  BY <1>8, <1>9, <1>10
<1>13. ReadsRoot(k, d, d.v)
  BY <1>6, <1>11 DEF ReadsRoot, FailsAt
<1>14. ReadsRoot(k, j, Skipped)
  BY <1>6, <1>12 DEF ReadsRoot, FailsAt
<1> QED
  BY <1>6, <1>13, <1>14

LEMMA RootsStep ==
  ASSUME ProperRoots
  PROVE  RootsInv /\ [Next]_vars => RootsInv'
<1> SUFFICES ASSUME RootsInv, [Next]_vars PROVE RootsInv'
  OBVIOUS
<1>1. StreamInv'
  BY StreamStep DEF RootsInv
<1>2. SUFFICES /\ Tiled(format', sink', sent', ~ damaged')
               /\ SinkInv'
               /\ GotInv'
  BY <1>1 DEF RootsInv
<1>3. ASSUME NEW nv \in Roots, Write(nv)
      PROVE  Tiled(format', sink', sent', ~ damaged') /\ SinkInv' /\ GotInv'
  BY <1>3, WriteKeeps
<1>4. ASSUME NEW n \in 0 .. Len(sink), Arrive(n)
      PROVE  Tiled(format', sink', sent', ~ damaged') /\ SinkInv' /\ GotInv'
  BY <1>4, ArriveKeeps
<1>5. ASSUME NEW i \in DOMAIN sink, NEW b \in Damage, ArriveDamaged(i, b)
      PROVE  Tiled(format', sink', sent', ~ damaged') /\ SinkInv' /\ GotInv'
  BY <1>5, DamageKeeps
<1>6. PICK k : k = Len(got) + 1
  OBVIOUS
<1>7. CASE DecodeRoot
  <2>1. PICK d : d = decode(format, sink, pos)
    OBVIOUS
  <2>2. phase = "reading" /\ pos < Len(sink) /\ Read(d, d.v)
    BY <1>7, <2>1 DEF DecodeRoot
  <2>3. Yields(d, pos, Len(sink))
    BY <2>1, SkipsWhatDecodes DEF RootsInv, StreamInv
  <2>4. ~ damaged /\ k <= Len(sent) => ReadsRoot(k, d, d.v)
    BY <1>6, <2>1, <2>2, NextRoot
  <2> QED
    BY <1>6, <2>2, <2>3, <2>4, ReadKeeps
<1>8. CASE SkipRoot
  <2>1. PICK s : s = skip(format, sink, pos)
    OBVIOUS
  <2>2. phase = "reading" /\ pos < Len(sink) /\ Read(s, Skipped)
    BY <1>8, <2>1 DEF SkipRoot
  <2>3. Yields(s, pos, Len(sink))
    BY <2>1, SkipsWhatDecodes DEF RootsInv, StreamInv
  <2>4. ~ damaged /\ k <= Len(sent) => ReadsRoot(k, s, Skipped)
    BY <1>6, <2>1, <2>2, NextRoot
  <2> QED
    BY <1>6, <2>2, <2>3, <2>4, ReadKeeps
<1>9. CASE UNCHANGED vars
  <2>1. UNCHANGED <<format, sink, sent, torn, damaged, pos, got, phase>>
    BY <1>9 DEF vars
  <2> QED
    BY <2>1 DEF RootsInv, SinkInv, GotInv
<1> QED
  BY <1>3, <1>4, <1>5, <1>7, <1>8, <1>9 DEF Next

\* Roots that were accepted come back in order and unchanged, and each read,
\* decode or skip, leaves the cursor where the next root begins: for every
\* stream of proper roots, in every dialect, however the bytes are cut.
THEOREM SentRootsReadBack ==
  ASSUME ProperRoots
  PROVE  Spec => []RootsReadBack
<1>1. RootsInv => RootsReadBack
  <2> SUFFICES ASSUME RootsInv, Reading, NEW k \in DOMAIN got, k <= Len(sent)
               PROVE  /\ got[k] \in {sent[k][1], Skipped}
                      /\ pos >= End(k)
                      /\ k = Len(got) /\ phase = "reading" => pos = End(k)
    BY DEF RootsReadBack
  <2>1. ~ damaged /\ phase # "writing"
    BY DEF Reading
  <2>2. k \in 1 .. Len(got)
    BY DEF RootsInv, GotInv, IsSequence
  <2>3. /\ got[k] \in {sent[k][1], Skipped} /\ EndIn(sent, k) <= pos
        /\ phase = "reading" /\ Len(got) <= Len(sent) => pos = EndIn(sent, Len(got))
    BY <2>1, <2>2 DEF RootsInv, GotInv, Taken
  <2>4. EndIn(sent, k) = End(k)
    BY DEF EndIn, End
  <2>5. pos \in Nat /\ EndIn(sent, k) \in Nat
    <3>1. Len(sent) \in Nat
      BY TiledEnds DEF RootsInv
    <3>2. k \in 0 .. Len(sent)
      BY <2>2, <3>1
    <3> QED
      BY <3>2, TiledEnds DEF RootsInv, StreamInv, Offsets
  <2> QED
    BY <2>3, <2>4, <2>5
<1> QED
  BY <1>1, RootsInit, RootsStep, PTL DEF Spec

\* How many roots arrived whole: those up to the first that did not.
LEMMA WholeIs ==
  ASSUME RootsInv, NEW n \in 0 .. Len(sent)
  PROVE  /\ EndIn(sent, n) <= Len(sink) => n <= Whole
         /\ n < Len(sent) /\ EndIn(sent, n + 1) > Len(sink) => Whole <= n
<1> DEFINE W == {k \in DOMAIN sent : End(k) <= Len(sink)}
<1>1. /\ Len(sent) \in Nat /\ DOMAIN sent = 1 .. Len(sent) /\ Len(sink) \in Nat
      /\ \A k \in 0 .. Len(sent) : EndIn(sent, k) \in Nat
      /\ \A j, k \in 0 .. Len(sent) : j <= k => EndIn(sent, j) <= EndIn(sent, k)
  BY DEF RootsInv, Tiled, IsSequence, StreamInv
<1>2. W = {k \in 1 .. Len(sent) : EndIn(sent, k) <= Len(sink)}
  BY <1>1 DEF End, EndIn
<1>3. Whole = Cardinality(W)
  BY DEF Whole
<1> HIDE DEF W
<1>4. /\ \A m \in Nat : IsFiniteSet(1 .. m) /\ Cardinality(1 .. m) = m
  BY FS_Interval
<1>5. IsFiniteSet(W) /\ Cardinality(W) \in Nat
  <2>1. W \in SUBSET (1 .. Len(sent)) /\ IsFiniteSet(1 .. Len(sent))
    BY <1>1, <1>2, <1>4
  <2> QED
    BY <2>1, FS_Subset, FS_CardinalityType
<1>6. ASSUME EndIn(sent, n) <= Len(sink) PROVE n <= Cardinality(W)
  <2>1. 1 .. n \in SUBSET W
    <3> SUFFICES ASSUME NEW k \in 1 .. n PROVE k \in W
      OBVIOUS
    <3>1. k \in 0 .. Len(sent) /\ k \in 1 .. Len(sent) /\ k <= n
      BY <1>1
    <3>2. EndIn(sent, k) <= EndIn(sent, n) /\ EndIn(sent, k) \in Nat /\ EndIn(sent, n) \in Nat
      BY <1>1, <3>1
    <3> QED
      BY <1>1, <1>2, <1>6, <3>1, <3>2
  <2>2. Cardinality(1 .. n) <= Cardinality(W)
    BY <1>5, <2>1, FS_Subset
  <2> QED
    BY <1>4, <2>2
<1>7. ASSUME n < Len(sent), EndIn(sent, n + 1) > Len(sink) PROVE Cardinality(W) <= n
  <2>1. W \in SUBSET (1 .. n)
    <3> SUFFICES ASSUME NEW k \in W PROVE k \in 1 .. n
      OBVIOUS
    <3>1. k \in 1 .. Len(sent) /\ EndIn(sent, k) <= Len(sink) /\ k \in 0 .. Len(sent)
          /\ n + 1 \in 0 .. Len(sent)
      BY <1>1, <1>2, <1>7
    <3>2. ~ (n + 1 <= k)
      <4>1. SUFFICES ASSUME n + 1 <= k PROVE FALSE
        OBVIOUS
      <4>2. EndIn(sent, n + 1) <= EndIn(sent, k) /\ EndIn(sent, k) \in Nat
            /\ EndIn(sent, n + 1) \in Nat
        BY <1>1, <3>1, <4>1
      <4> QED
        BY <1>1, <1>7, <3>1, <4>2
    <3> QED
      BY <1>1, <3>1, <3>2
  <2>2. n \in Nat /\ IsFiniteSet(1 .. n) /\ Cardinality(1 .. n) = n
    BY <1>1, <1>4
  <2>3. Cardinality(W) <= Cardinality(1 .. n)
    BY <2>1, <2>2, FS_Subset
  <2> QED
    BY <2>2, <2>3
<1> QED
  BY <1>3, <1>6, <1>7

\* Whatever number of bytes arrive, a reader gets every root that arrived
\* whole, and of the next, cut short, the end of the input and never a shorter
\* root; only one nested past the depth limit may be refused instead.
THEOREM CutIsAlwaysSeen ==
  ASSUME ProperRoots
  PROVE  Spec => []CutIsSeen
<1>1. RootsInv => CutIsSeen
  <2> SUFFICES ASSUME RootsInv, Reading, ~ torn
               PROVE  /\ Len(got) <= Whole
                      /\ phase \in ErrorCodes =>
                           IF Len(got) < Whole
                           THEN phase = "LimitExceeded" /\ TooDeep(Len(got) + 1)
                           ELSE \/ phase = "UnexpectedEndOfInput"
                                \/ phase = "LimitExceeded" /\ TooDeep(Len(got) + 1)
    BY DEF CutIsSeen
  <2>1. /\ ~ damaged /\ phase # "writing"
        /\ IsSequence(got) /\ Taken(sent, got, pos)
        /\ Len(got) <= Len(sent)
        /\ phase \in ErrorCodes =>
             Len(got) < Len(sent) /\ FailsAt(sent, Len(got) + 1, Len(sink), phase)
    BY DEF Reading, RootsInv, GotInv
  <2>2. Len(got) \in Nat /\ Len(sent) \in Nat
    BY <2>1, TiledEnds DEF RootsInv, IsSequence
  <2>3. Len(got) \in 0 .. Len(sent)
    BY <2>1, <2>2
  <2>4. Len(got) <= Whole
    <3>1. CASE Len(got) = 0
      <4>1. EndIn(sent, Len(got)) = 0 /\ Len(sink) \in Nat
        BY <3>1 DEF EndIn, RootsInv, StreamInv
      <4>2. EndIn(sent, Len(got)) <= Len(sink)
        BY <4>1
      <4> QED
        BY <2>3, <4>2, WholeIs
    <3>2. CASE Len(got) # 0
      <4>1. Len(got) \in 1 .. Len(got)
        BY <2>2, <3>2
      <4>2. EndIn(sent, Len(got)) <= pos /\ EndIn(sent, Len(got)) \in Nat
        BY <2>1, <2>3, <4>1, TiledEnds DEF Taken, RootsInv
      <4>3. pos \in 0 .. Len(sink) /\ Len(sink) \in Nat
        BY DEF RootsInv, StreamInv, Offsets
      <4>4. EndIn(sent, Len(got)) <= Len(sink)
        BY <4>2, <4>3
      <4> QED
        BY <2>3, <4>4, WholeIs
    <3> QED
      BY <3>1, <3>2
  <2>5. ASSUME phase \in ErrorCodes
        PROVE  IF Len(got) < Whole
               THEN phase = "LimitExceeded" /\ TooDeep(Len(got) + 1)
               ELSE \/ phase = "UnexpectedEndOfInput"
                    \/ phase = "LimitExceeded" /\ TooDeep(Len(got) + 1)
    <3>1. \/ phase = "UnexpectedEndOfInput" /\ EndIn(sent, Len(got) + 1) > Len(sink)
          \/ phase = "LimitExceeded" /\ TooDeep(Len(got) + 1)
      BY <2>1, <2>5 DEF FailsAt, TooDeep
    <3>2. EndIn(sent, Len(got) + 1) > Len(sink) => Whole <= Len(got)
      BY <2>1, <2>3, <2>5, WholeIs
    <3>3. Whole <= Len(got) => ~ (Len(got) < Whole)
      <4>1. Whole \in Nat
        <5>1. /\ DOMAIN sent = 1 .. Len(sent) /\ IsFiniteSet(1 .. Len(sent))
          BY <2>2, FS_Interval DEF RootsInv, Tiled, IsSequence
        <5>2. {k \in DOMAIN sent : End(k) <= Len(sink)} \in SUBSET (1 .. Len(sent))
          BY <5>1
        <5> QED
          BY <5>1, <5>2, FS_Subset, FS_CardinalityType DEF Whole
      <4> QED
        BY <2>2, <4>1
    <3> QED
      BY <3>1, <3>2, <3>3
  <2> QED
    BY <2>4, <2>5
<1> QED
  BY <1>1, RootsInit, RootsStep, PTL DEF Spec

-----------------------------------------------------------------------------
(* The span.                                                               *)

\* The last document accepted, o, is in the span, and is the one held.
HeldAs(nv, o) ==
  /\ encode(dialect, nv).ok /\ encode(dialect, nv).out = o
  /\ held = StoredAs(dialect, nv)
  /\ answer = Len(o) /\ Len(o) <= Len(span)
  /\ Stand(span, 0, o)

\* What a call writes: a patch as it is, or its Value with no name.
Rooted(nv) == \E patch \in Patches : nv = patch \/ nv = << <<>>, patch[2]>>

IntoInv ==
  /\ dialect \in Formats
  /\ span \in Seq(Byte) /\ Len(span) \in Sizes
  /\ answer \in 0 .. Len(span)
  /\ held # Nothing => \E nv, o : Rooted(nv) /\ o \in Seq(Byte) /\ HeldAs(nv, o)

\* It holds before the first call ...
LEMMA IntoStarts == IntoInit => IntoInv
<1> SUFFICES ASSUME IntoInit PROVE IntoInv
  OBVIOUS
<1>1. PICK n \in Sizes : span = [i \in 1 .. n |-> Fill]
  BY DEF IntoInit
<1>2. n \in Nat /\ Fill \in Byte
  BY IntoAssumption
<1>3. span \in Seq(Byte) /\ Len(span) = n
  BY <1>1, <1>2
<1>4. dialect \in Formats /\ held = Nothing /\ answer = 0
  BY DEF IntoInit
<1>5. answer \in 0 .. Len(span)
  BY <1>2, <1>3, <1>4
<1> QED
  BY <1>3, <1>4, <1>5 DEF IntoInv

\* What the calls write is a root.
LEMMA RootedAre ==
  ASSUME NEW nv, Rooted(nv)
  PROVE  \E patch \in Patches, name \in ByteStrings :
           nv = <<name, patch[2]>> /\ patch[2] \in Values(kMaxDecodeDepth)
<1>1. PICK patch \in Patches : nv = patch \/ nv = << <<>>, patch[2]>>
  BY DEF Rooted
<1>2. PICK name \in ByteStrings, v \in Values(kMaxDecodeDepth) : patch = <<name, v>>
  BY IntoAssumption
<1>3. patch[2] = v
  BY <1>2
<1>4. <<>> \in ByteStrings
  BY DEF ByteStrings, INT32_MAX
<1>5. CASE nv = patch
  BY <1>2, <1>3, <1>5
<1>6. CASE nv = << <<>>, patch[2]>>
  BY <1>3, <1>4, <1>6
<1> QED
  BY <1>1, <1>5, <1>6

\* A call keeps it: the copy is whole, or there is none.
LEMMA PutKeeps ==
  ASSUME IntoInv, NEW nv, Rooted(nv), NEW w, w = encode(dialect, nv),
         Put(w, StoredAs(dialect, nv))
  PROVE  IntoInv'
<1>1. w.ok /\ w.out \in Seq(Byte)
  <2>1. PICK patch \in Patches, name \in ByteStrings :
          nv = <<name, patch[2]>> /\ patch[2] \in Values(kMaxDecodeDepth)
    BY RootedAre
  <2>2. nv \in Seq(Byte) \X Values(kMaxDecodeDepth) /\ kMaxDecodeDepth \in Nat
    BY <2>1, DepthAssumption DEF ByteStrings
  <2>3. dialect \in Formats
    BY DEF IntoInv
  <2>4. encode(dialect, nv).out \in Seq(Byte)
    BY <2>2, <2>3, EncodesBytes
  <2> QED
    BY <2>4 DEF Put, Fits
<1>2. PICK o \in Seq(Byte) : o = w.out
  BY <1>1
<1>3. /\ dialect' = dialect /\ held' = StoredAs(dialect, nv)
      /\ answer' = Len(o) /\ Len(o) <= Len(span) /\ span' = copied(o)
  BY <1>2 DEF Put, Fits
<1>4. span \in Seq(Byte) /\ Len(span) \in Sizes /\ dialect \in Formats
  BY DEF IntoInv
<1>5. /\ span' \in Seq(Byte) /\ Len(span') = Len(span)
      /\ \A i \in 1 .. Len(o) : span'[i] = o[i]
  <2>1. /\ DOMAIN span = 1 .. Len(span) /\ Len(span) \in Nat /\ Len(o) \in Nat
        /\ \A i \in DOMAIN span : span[i] \in Byte
        /\ \A i \in 1 .. Len(o) : o[i] \in Byte
    BY <1>4
  <2>2. span' = [i \in 1 .. Len(span) |-> IF i <= Len(o) THEN o[i] ELSE span[i]]
    BY <1>3, <2>1 DEF copied
  <2>3. \A i \in 1 .. Len(span) : span'[i] \in Byte
    BY <2>1, <2>2
  <2>4. \A i \in 1 .. Len(o) : span'[i] = o[i]
    BY <1>3, <2>1, <2>2
  <2> QED
    BY <2>1, <2>2, <2>3, <2>4
<1>6. Stand(span', 0, o)
  BY <1>5 DEF Stand
<1>7. HeldAs(nv, o)'
  BY <1>1, <1>2, <1>3, <1>5, <1>6 DEF HeldAs
<1>8. answer' \in 0 .. Len(span')
  BY <1>3, <1>4, <1>5
<1>9. \E x, z : Rooted(x) /\ z \in Seq(Byte) /\ HeldAs(x, z)'
  BY <1>7
<1> QED
  BY <1>3, <1>4, <1>5, <1>8, <1>9 DEF IntoInv, Rooted

\* What is written without a name is written as a root with the empty one.
LEMMA AnonymousIs ==
  ASSUME NEW f \in Formats, NEW v
  PROVE  encode_anonymous(f, v) = encode(f, << <<>>, v>>)
BY DEF encode_anonymous, encode

LEMMA IntoStep == IntoInv /\ [IntoNext]_intoVars => IntoInv'
<1> SUFFICES ASSUME IntoInv, [IntoNext]_intoVars PROVE IntoInv'
  OBVIOUS
<1>1. ASSUME NEW nv \in Patches, encode_into(nv) PROVE IntoInv'
  <2>1. Put(encode(dialect, nv), StoredAs(dialect, nv))
    BY <1>1 DEF encode_into
  <2> QED
    BY <2>1, PutKeeps DEF Rooted
<1>2. ASSUME NEW nv \in Patches, encode_anonymous_into(nv[2]) PROVE IntoInv'
  <2>1. PICK root : root = << <<>>, nv[2]>>
    OBVIOUS
  <2>2. Put(encode_anonymous(dialect, nv[2]), StoredAs(dialect, root))
    BY <1>2, <2>1 DEF encode_anonymous_into
  <2>3. encode_anonymous(dialect, nv[2]) = encode(dialect, root)
    BY <2>1, AnonymousIs DEF IntoInv
  <2> QED
    BY <2>1, <2>2, <2>3, PutKeeps DEF Rooted
<1>3. CASE UNCHANGED intoVars
  BY <1>3 DEF intoVars, IntoInv, HeldAs
<1> QED
  BY <1>1, <1>2, <1>3 DEF IntoNext

\* The Values of proper patches are proper.
LEMMA PatchProper ==
  ASSUME ProperPatches, NEW nv \in Patches, nv[2] \in Values(kMaxDecodeDepth)
  PROVE  Proper(nv[2]) /\ Nested(nv[2])[kMaxDecodeDepth] = {}
<1> SUFFICES ASSUME NEW d \in Nat, d # 0 PROVE EndTag \notin Nested(nv[2])[d]
  BY DEF Proper, ProperPatches
<1>1. kMaxDecodeDepth \in Nat
  BY DepthAssumption
<1>2. PICK at : /\ \A k \in 0 .. kMaxDecodeDepth : at[k] = ValueLevel(k, at[k - 1])
                /\ Values(kMaxDecodeDepth) = at[kMaxDecodeDepth]
  BY <1>1, ValuesAre
<1>3. Nested(nv[2])[kMaxDecodeDepth + 1] = {}
  BY <1>1, <1>2, NestedTyped
<1>4. CASE d >= kMaxDecodeDepth + 1
  BY <1>1, <1>3, <1>4, NestedEnds
<1>5. CASE ~ (d >= kMaxDecodeDepth + 1)
  <2>1. d \in 1 .. kMaxDecodeDepth
    BY <1>1, <1>5
  <2> QED
    BY <2>1 DEF ProperPatches
<1> QED
  BY <1>4, <1>5

\* The span holds bytes and keeps its size, and a call returns no more.
THEOREM IntoTyped == IntoSpec => []IntoTypeOK
<1>1. IntoInv => IntoTypeOK
  <2> SUFFICES ASSUME IntoInv PROVE IntoTypeOK
    OBVIOUS
  <2>1. \A i \in DOMAIN span : span[i] \in Byte
    BY DEF IntoInv
  <2> QED
    BY <2>1 DEF IntoInv, IntoTypeOK
<1> QED
  BY <1>1, IntoStarts, IntoStep, PTL DEF IntoSpec

\* A span that encode_into and encode_anonymous_into patch again and again
\* begins with the last document they accepted, whole, and decodes to it.
THEOREM SpansHoldTheLast ==
  ASSUME ProperPatches
  PROVE  IntoSpec => []HoldsLast
<1>1. IntoInv => HoldsLast
  <2> SUFFICES ASSUME IntoInv, held # Nothing,
                      NEW d, d = decode(dialect, span, 0)
               PROVE  d.ok /\ d.v = held /\ d.pos = answer
    BY DEF HoldsLast
  <2>1. PICK nv, o : Rooted(nv) /\ o \in Seq(Byte) /\ HeldAs(nv, o)
    BY DEF IntoInv
  <2>2. PICK patch \in Patches, name \in ByteStrings :
          nv = <<name, patch[2]>> /\ patch[2] \in Values(kMaxDecodeDepth)
    BY <2>1, RootedAre
  <2>3. PICK v : v = patch[2]
    OBVIOUS
  <2>4. /\ v \in Values(kMaxDecodeDepth) /\ kMaxDecodeDepth \in Nat
        /\ Proper(v) /\ Nested(v)[kMaxDecodeDepth] = {}
    BY <2>2, <2>3, PatchProper, DepthAssumption
  <2>5. dialect \in Formats /\ span \in Seq(Byte) /\ 0 \in Offsets(span)
    BY DEF IntoInv, Offsets
  <2>6. PICK w, root : w = encode(dialect, <<name, v>>) /\ root = StoredAs(dialect, <<name, v>>)
    OBVIOUS
  <2>7. /\ w.ok /\ w.out = o /\ held = root
        /\ answer = Len(o) /\ Len(o) <= Len(span) /\ Stand(span, 0, o)
    BY <2>1, <2>2, <2>3, <2>6 DEF HeldAs
  <2>8. Gets(d, root, 0, Len(w.out), Len(span), FALSE)
    BY <2>4, <2>5, <2>6, <2>7, RootGets
  <2>9. Len(o) \in Nat /\ Len(span) \in Nat
    BY <2>1, <2>5
  <2> QED
    BY <2>7, <2>8, <2>9 DEF Gets
<1> QED
  BY <1>1, IntoStarts, IntoStep, PTL DEF IntoSpec

-----------------------------------------------------------------------------
(* What decode accepts, written again, in no more bytes than it was read   *)
(* from.                                                                   *)

\* A whole write of at most m bytes.
Short(w, m) == w \in Writes /\ w.ok /\ Len(w.out) <= m

\* One write after another.
LEMMA ShortBoth ==
  ASSUME NEW a \in Nat, NEW b \in Nat, NEW w, NEW rest, Short(w, a), Short(rest, b)
  PROVE  Short(AndThen(w, rest), a + b)
<1>1. w \in Writes /\ rest \in Writes /\ w.ok /\ rest.ok
  BY DEF Short
<1>2. PICK x \in Seq(Byte), y \in Seq(Byte) : x = w.out /\ y = rest.out
  BY <1>1 DEF Writes
<1>3. AndThen(w, rest).ok /\ AndThen(w, rest).out = x \o y
  BY <1>1, <1>2 DEF AndThen
<1>4. Len(x) <= a /\ Len(y) <= b /\ Len(x \o y) = Len(x) + Len(y)
  BY <1>2 DEF Short
<1>5. Len(x) \in Nat /\ Len(y) \in Nat
  OBVIOUS
<1>6. Len(x \o y) <= a + b
  BY <1>4, <1>5
<1>7. AndThen(w, rest) \in Writes
  BY <1>1, AndThenWrites
<1> QED
  BY <1>3, <1>6, <1>7 DEF Short

\* Bytes as they are.
LEMMA ShortWrote ==
  ASSUME NEW b \in Seq(Byte), NEW m \in Nat, Len(b) <= m
  PROVE  Short(Wrote(b), m)
BY WroteBytes, WroteIs DEF Short

LEMMA ShortLonger ==
  ASSUME NEW m \in Nat, NEW k \in Nat, m <= k, NEW w, Short(w, m)
  PROVE  Short(w, k)
<1>1. w.out \in Seq(Byte)
  BY DEF Short, Writes
<1> QED
  BY <1>1 DEF Short

\* The numbers that bytes stand for fit.
LEMMA WordRange ==
  ASSUME NEW b, NEW x \in -128 .. 127, NEW y \in Byte, NEW z \in Byte, NEW u \in Byte,
         top(b[1]) = x, b[2] = y, b[3] = z, b[4] = u
  PROVE  word(b) \in Int32
<1>1. word(b) = ((x * 256 + y) * 256 + z) * 256 + u
  BY DEF word
<1>2. y \in 0 .. 255 /\ z \in 0 .. 255 /\ u \in 0 .. 255
  BY ByteIs
<1>3. /\ ((x * 256 + y) * 256 + z) * 256 + u \in Int
      /\ -2147483647 - 1 <= ((x * 256 + y) * 256 + z) * 256 + u
      /\ ((x * 256 + y) * 256 + z) * 256 + u <= 2147483647
  BY <1>2
<1> QED
  BY <1>1, <1>3, IntRanges DEF INT32_MAX

LEMMA TopRange == \A x \in Byte : top(x) \in -128 .. 127
BY DEF Byte, top

LEMMA Int16Is ==
  \A y : y \in Int16 <=> y \in Int /\ -INT16_MAX - 1 <= y /\ y <= INT16_MAX
<1>1. INT16_MAX \in Int
  BY SMT DEF INT16_MAX
<1> QED
  BY <1>1 DEF Int16

LEMMA SignedRange ==
  ASSUME NEW b \in Seq(Byte), Len(b) \in {1, 2, 4, 8}
  PROVE  /\ Len(b) = 1 => signed(b) \in Int8
         /\ Len(b) = 2 => signed(b) \in Int16
         /\ signed(b) \in Int32
<1>0. \A i \in 1 .. Len(b) : b[i] \in Byte
  OBVIOUS
<1>1. CASE Len(b) = 1
  <2>1. top(b[1]) \in -128 .. 127 /\ signed(b) = top(b[1])
    BY <1>0, <1>1, TopRange DEF signed
  <2>2. signed(b) \in Int8
    BY <2>1 DEF Int8, INT8_MAX
  <2>3. signed(b) \in Int32
    BY <2>2, IntRanges
  <2> QED
    BY <1>1, <2>2, <2>3
<1>2. CASE Len(b) = 2
  <2>1. PICK x \in -128 .. 127, y \in Byte : top(b[1]) = x /\ b[2] = y
    BY <1>0, <1>2, TopRange
  <2>2. y \in 0 .. 255
    BY ByteIs
  <2>3. PICK v \in Int : v = x * 256 + y
    BY <2>2
  <2>6. signed(b) = v
    BY <1>2, <2>1, <2>3 DEF signed
  <2>7. -32767 - 1 <= v /\ v <= 32767
    BY <2>2, <2>3
  <2>9. INT16_MAX \in Int /\ INT16_MAX = 32767
    BY SMT DEF INT16_MAX
  <2>8. v \in Int16
    BY <2>7, <2>9, Int16Is
  <2>4. signed(b) \in Int16
    BY <2>6, <2>8
  <2>5. signed(b) \in Int32
    BY <2>4, IntRanges
  <2> QED
    BY <1>2, <2>4, <2>5
<1>3. CASE Len(b) = 4
  <2>1. PICK x \in -128 .. 127, y \in Byte, z \in Byte, u \in Byte :
          top(b[1]) = x /\ b[2] = y /\ b[3] = z /\ b[4] = u
    BY <1>0, <1>3, TopRange
  <2>2. signed(b) = word(b)
    BY <1>3 DEF signed
  <2>3. word(b) \in Int32
    BY <2>1, WordRange
  <2> QED
    BY <1>3, <2>2, <2>3
<1>4. CASE Len(b) = 8
  <2> DEFINE c == SubSeq(b, 5, 8)
  <2>1. c[1] = b[5] /\ c[2] = b[6] /\ c[3] = b[7] /\ c[4] = b[8]
    BY <1>4
  <2> HIDE DEF c
  <2>2. PICK x \in -128 .. 127, y \in Byte, z \in Byte, u \in Byte :
          top(c[1]) = x /\ c[2] = y /\ c[3] = z /\ c[4] = u
    BY <1>0, <1>4, <2>1, TopRange
  <2>3. word(c) \in Int32
    BY <2>2, WordRange
  <2>4. Wide \in Int32
    BY IntRanges DEF Wide, INT32_MAX
  <2>5. signed(b) \in {word(c), Wide}
    BY <1>4 DEF signed, c
  <2> QED
    BY <1>4, <2>3, <2>4, <2>5
<1> QED
  BY <1>1, <1>2, <1>3, <1>4

\* Each digit of a VarInt took a byte.
LEMMA UvarintTakes ==
  ASSUME NEW in \in Seq(Byte), NEW p \in Offsets(in), NEW most \in {5, 10},
         read_uvarint(in, p, most).ok
  PROVE  LET r == read_uvarint(in, p, most) IN
         r.pos = p + Len(r.v) /\ Len(r.v) \in 1 .. most
<1> DEFINE left == Len(in) - p
           last == {i \in 1 .. most : i <= left /\ in[p + i] < 128}
<1>1. left \in Nat /\ p \in Nat
  BY DEF Offsets
<1>2. CASE last # {}
  <2> DEFINE n == CHOOSE i \in last : \A j \in last : i <= j
  <2>1. \E i \in last : \A j \in last : i <= j
    <3>1. last \subseteq Nat
      OBVIOUS
    <3> HIDE DEF last
    <3> QED
      BY <3>1, <1>2, Least
  <2>2. n \in last
    <3> HIDE DEF last
    <3> QED
      BY <2>1
  <2>3. read_uvarint(in, p, most) = Ok([i \in 1 .. n |-> in[p + i] % 128], p + n)
    BY <1>2 DEF read_uvarint
  <2>4. n \in 1 .. most
    BY <2>2
  <2> HIDE DEF n
  <2>5. Len([i \in 1 .. n |-> in[p + i] % 128]) = n
    BY <2>4
  <2> QED
    BY <2>3, <2>4, <2>5 DEF Ok
<1>3. CASE last = {}
  <2>1. ~ read_uvarint(in, p, most).ok
    BY <1>3 DEF read_uvarint, Err
  <2> QED
    BY <2>1
<1> QED
  BY <1>2, <1>3

\* How large a number a few digits stand for.
LEMMA HalfBound ==
  ASSUME NEW ds \in Seq(Digit), NEW n \in Nat, n = Len(ds), n >= 1
  PROVE  /\ half(ds) \in Nat /\ half(ds) <= 2147483647
         /\ n = 1 => half(ds) <= 63
         /\ n = 2 => half(ds) <= 8191
         /\ n = 3 => half(ds) <= 1048575
         /\ n = 4 => half(ds) <= 134217727
<1>0. \A i \in 1 .. n : ds[i] \in Digit
  OBVIOUS
<1>1. ASSUME NEW i \in 1 .. 5
      PROVE  digit(ds, i) \in 0 .. 127 /\ (i > n => digit(ds, i) = 0)
  <2>1. CASE i <= n
    <3>1. ds[i] \in 0 .. 127
      BY <1>0, <2>1, ByteIs
    <3> QED
      BY <2>1, <3>1 DEF digit
  <2>2. CASE ~ (i <= n)
    BY <2>2 DEF digit
  <2> QED
    BY <2>1, <2>2
<1> DEFINE G(i) == digit(ds, i)
<1> HIDE DEF G
<1>11. /\ G(1) \in 0 .. 127 /\ G(2) \in 0 .. 127 /\ G(3) \in 0 .. 127
       /\ G(4) \in 0 .. 127 /\ G(5) \in 0 .. 127
       /\ (2 > n => G(2) = 0) /\ (3 > n => G(3) = 0)
       /\ (4 > n => G(4) = 0) /\ (5 > n => G(5) = 0)
  <2>1. 1 \in 1 .. 5 /\ 2 \in 1 .. 5 /\ 3 \in 1 .. 5 /\ 4 \in 1 .. 5 /\ 5 \in 1 .. 5
    OBVIOUS
  <2>2. \A i \in 1 .. 5 : G(i) \in 0 .. 127 /\ (i > n => G(i) = 0)
    BY <1>1 DEF G
  <2> QED
    BY <2>1, <2>2
<1>2. PICK a \in 0 .. 127 : a = G(1)
  BY <1>11
<1>12. PICK b \in 0 .. 127 : b = G(2)
  BY <1>11
<1>13. PICK c \in 0 .. 127 : c = G(3)
  BY <1>11
<1>14. PICK d \in 0 .. 127 : d = G(4)
  BY <1>11
<1>15. PICK e \in 0 .. 127 : e = G(5)
  BY <1>11
<1>3. /\ 2 > n => b = 0
      /\ 3 > n => c = 0
      /\ 4 > n => d = 0
      /\ 5 > n => e = 0
  BY <1>11, <1>12, <1>13, <1>14, <1>15
<1>4. half(ds) = (a \div 2) + 64 * b + 8192 * c + 1048576 * d + 134217728 * (e % 16)
  BY <1>2, <1>12, <1>13, <1>14, <1>15 DEF half, G
<1>5. PICK g \in 0 .. 63 : g = a \div 2
  OBVIOUS
<1>6. PICK h \in 0 .. 15 : h = e % 16 /\ (e = 0 => h = 0)
  OBVIOUS
<1>7. PICK s \in Nat : s = g + 64 * b + 8192 * c + 1048576 * d + 134217728 * h
  OBVIOUS
<1>8. half(ds) = s
  BY <1>4, <1>5, <1>6, <1>7
<1>9. s <= 2147483647
  BY <1>5, <1>6, <1>7
<1>10. /\ n = 1 => s <= 63
       /\ n = 2 => s <= 8191
       /\ n = 3 => s <= 1048575
       /\ n = 4 => s <= 134217727
  BY <1>3, <1>5, <1>6, <1>7
<1> QED
  BY <1>8, <1>9, <1>10

\* A number below a weight has no more digits.
LEMMA SizeBelow ==
  ASSUME NEW u \in Nat, NEW k \in 1 .. 4, u < Weights[k + 1]
  PROVE  uvarint_size(u) <= k
<1>1. PICK n \in 1 .. 5 : n = uvarint_size(u) /\ (n = 1 \/ u >= Weights[n])
  BY UvarintSize
<1>2. Weights = <<1, 128, 16384, 2097152, 268435456>>
  BY DEF Weights
<1> QED
  BY <1>1, <1>2

LEMMA UvarintLen ==
  ASSUME NEW u \in Nat
  PROVE  Len(write_uvarint(u)) = uvarint_size(u) /\ uvarint_size(u) \in 1 .. 5
<1>1. uvarint_size(u) \in 1 .. 5
  BY UvarintSize
<1> QED
  BY <1>1 DEF write_uvarint

\* A number written again takes no more digits than it was read from.
LEMMA ZigzagReencodes ==
  ASSUME NEW ds \in Seq(Digit), NEW n \in Nat, n = Len(ds), n >= 1
  PROVE  zigzag(ds) \in Int32 /\ Len(write_zigzag(zigzag(ds))) <= n
<1>1. PICK h \in Nat : h = half(ds)
  BY HalfBound
<1>2. /\ h <= 2147483647
      /\ n = 1 => h <= 63
      /\ n = 2 => h <= 8191
      /\ n = 3 => h <= 1048575
      /\ n = 4 => h <= 134217727
  BY <1>1, HalfBound
<1>3. PICK v \in Int : v = zigzag(ds) /\ (v = h \/ v = - h - 1)
  BY <1>1 DEF zigzag
<1>4. v \in Int32
  <2>1. PICK m \in Int : m = INT32_MAX /\ m = 2147483647
    BY DEF INT32_MAX
  <2>2. -m - 1 <= v /\ v <= m
    BY <1>2, <1>3, <2>1
  <2> QED
    BY <2>1, <2>2, IntRanges
<1>5. h = IF v < 0 THEN - (v + 1) ELSE v
  BY <1>3
<1>6. PICK low : write_zigzag(v) = IF h < 64 THEN <<low>>
                                   ELSE <<128 + low>> \o write_uvarint(h \div 64)
  BY <1>5 DEF write_zigzag
<1>7. CASE h < 64
  <2>1. Len(write_zigzag(v)) = 1
    BY <1>6, <1>7
  <2> QED
    BY <1>3, <1>4, <2>1
<1>8. CASE ~ (h < 64)
  <2>1. PICK u \in Nat : u = h \div 64
    OBVIOUS
  <2>2. /\ u <= 33554431
        /\ n = 2 => u <= 127
        /\ n = 3 => u <= 16383
        /\ n = 4 => u <= 2097151
    BY <1>2, <2>1
  <2>3. Weights[2] = 128 /\ Weights[3] = 16384 /\ Weights[4] = 2097152 /\ Weights[5] = 268435456
    BY DEF Weights
  <2>4. PICK z \in Nat : z = uvarint_size(u)
    BY UvarintSize
  <2>5. /\ z <= 4
        /\ n = 2 => z <= 1
        /\ n = 3 => z <= 2
        /\ n = 4 => z <= 3
    <3>1. u < Weights[4 + 1] /\ (n = 2 => u < Weights[1 + 1])
          /\ (n = 3 => u < Weights[2 + 1]) /\ (n = 4 => u < Weights[3 + 1])
      BY <2>2, <2>3
    <3> QED
      BY <2>4, <3>1, SizeBelow
  <2>6. Len(write_zigzag(v)) = 1 + z
    <3>1. PICK o \in Seq(Byte) : o = write_uvarint(u)
      BY UvarintBytes
    <3>2. Len(o) = z
      BY <2>4, <3>1, UvarintLen
    <3>3. write_zigzag(v) = <<128 + low>> \o o
      BY <1>6, <1>8, <2>1, <3>1
    <3> QED
      BY <3>2, <3>3
  <2>7. n # 1
    BY <1>2, <1>8
  <2> QED
    BY <1>3, <1>4, <2>5, <2>6, <2>7
<1> QED
  BY <1>7, <1>8

\* A length written again.
LEMMA LengthReencodes ==
  ASSUME NEW ds \in Seq(Digit), NEW n \in Nat, n = Len(ds), n >= 1
  PROVE  as_length(ds) \in 0 .. INT32_MAX /\ Len(write_uvarint(as_length(ds))) <= n
<1>1. PICK h \in Nat : h = half(ds)
  BY HalfBound
<1>2. /\ n = 1 => h <= 63
      /\ n = 2 => h <= 8191
      /\ n = 3 => h <= 1048575
      /\ n = 4 => h <= 134217727
  BY <1>1, HalfBound
<1>3. PICK b \in 0 .. 1 : b = ds[1] % 2
  <2>1. ds[1] \in Digit
    OBVIOUS
  <2> QED
    BY <2>1, ByteIs
<1>4. PICK u \in Nat : u = as_length(ds)
  BY DigitsNat
<1>5. u = IF h >= 1073741824 THEN 2147483647 ELSE 2 * h + b
  BY <1>1, <1>3, <1>4 DEF as_length
<1>6. u <= INT32_MAX
  BY <1>5 DEF INT32_MAX
<1>7. Weights[2] = 128 /\ Weights[3] = 16384 /\ Weights[4] = 2097152 /\ Weights[5] = 268435456
  BY DEF Weights
<1>8. /\ n = 1 => u < Weights[1 + 1]
      /\ n = 2 => u < Weights[2 + 1]
      /\ n = 3 => u < Weights[3 + 1]
      /\ n = 4 => u < Weights[4 + 1]
  <2>1. h < 1073741824 => u = 2 * h + b /\ u <= 2 * h + 1
    BY <1>5
  <2>2. n = 1 => u < Weights[1 + 1]
    BY <1>2, <1>7, <2>1
  <2>3. n = 2 => u < Weights[2 + 1]
    BY <1>2, <1>7, <2>1
  <2>4. n = 3 => u < Weights[3 + 1]
    BY <1>2, <1>7, <2>1
  <2>5. n = 4 => u < Weights[4 + 1]
    BY <1>2, <1>7, <2>1
  <2> QED
    BY <2>2, <2>3, <2>4, <2>5
<1>9. PICK z \in 1 .. 5 : z = uvarint_size(u) /\ Len(write_uvarint(u)) = z
  BY UvarintLen
<1>10. n \in 1 .. 4 => z <= n
  <2>1. n = 1 \/ n = 2 \/ n = 3 \/ n = 4 \/ n \notin 1 .. 4
    OBVIOUS
  <2> QED
    BY <1>8, <1>9, <2>1, SizeBelow
<1>11. z <= n
  BY <1>10
<1>12. INT32_MAX \in Nat
  BY DEF INT32_MAX
<1> QED
  BY <1>4, <1>6, <1>9, <1>11, <1>12

\* A number fits its kind, and is written in no more bytes than it was read from.
LEMMA FixedReencodes ==
  ASSUME NEW f, NEW in \in Seq(Byte), NEW p \in Offsets(in), NEW kind \in DOMAIN Size,
         ~ IsVarInt(f, kind), NEW r, r = read_number(f, in, p, kind), r.ok
  PROVE  InRange(r.v, kind) /\ Short(Wrote(write_number(f, r.v, kind)), r.pos - p)
<1>1. PICK n \in {1, 2, 4, 8} : n = Size[kind]
  BY SizesAre DEF Size
<1>2. PICK b, q : /\ take(in, p, n, 1).ok
                  /\ b = take(in, p, n, 1).v /\ q = take(in, p, n, 1).pos
                  /\ r = Ok(signed(big_endian(f, b)), q)
  <2>1. r = read_int(f, in, p, n)
    BY <1>1 DEF read_number
  <2>2. r = IF take(in, p, n, 1).ok
            THEN Ok(signed(big_endian(f, take(in, p, n, 1).v)), take(in, p, n, 1).pos)
            ELSE take(in, p, n, 1)
    BY <2>1 DEF read_int, Then
  <2> QED
    BY <2>2
<1>3. b \in Seq(Byte) /\ Len(b) = n /\ q = p + n
  <2>1. n \in Nat
    OBVIOUS
  <2> QED
    BY <1>2, <2>1, TakeBytes
<1>4. PICK c \in Seq(Byte) : c = big_endian(f, b) /\ Len(c) = n
  BY <1>3, ReverseBytes
<1>5. PICK x \in Int32 : x = signed(c) /\ (n = 1 => x \in Int8) /\ (n = 2 => x \in Int16)
  <2>1. Len(c) \in {1, 2, 4, 8}
    BY <1>4
  <2> QED
    BY <1>4, <2>1, SignedRange
<1>6. r.v = x /\ r.pos = p + n
  BY <1>2, <1>3, <1>4, <1>5, OkIs
<1>7. InRange(x, kind)
  <2>1. (kind = "Byte" => n = 1) /\ (kind = "Short" => n = 2)
    BY <1>1, SizesAre DEF Size
  <2> QED
    BY <1>5, <2>1 DEF InRange
<1>8. PICK o \in Seq(Byte) : o = write_number(f, x, kind) /\ Len(o) = n
  <2>1. x \in Int
    BY IntRanges
  <2>5. Len(big_endian_bytes(x, n)) = n
    <3>1. n \in Nat
      OBVIOUS
    <3> QED
      BY <3>1 DEF big_endian_bytes
  <2>2. big_endian_bytes(x, n) \in Seq(Byte) /\ Len(big_endian_bytes(x, n)) = n
    BY <2>1, <2>5, BigEndianBytes
  <2>3. /\ big_endian(f, big_endian_bytes(x, n)) \in Seq(Byte)
        /\ Len(big_endian(f, big_endian_bytes(x, n))) = n
    BY <2>2, ReverseBytes
  <2>4. write_number(f, x, kind) = big_endian(f, big_endian_bytes(x, n))
    BY <1>1 DEF write_number
  <2> QED
    BY <2>3, <2>4
<1>9. Short(Wrote(o), n)
  <2>1. n \in Nat /\ Len(o) <= n
    BY <1>8
  <2> QED
    BY <2>1, ShortWrote
<1>10. (p + n) - p = n
  BY DEF Offsets
<1> QED
  BY <1>6, <1>7, <1>8, <1>9, <1>10

LEMMA VarReencodes ==
  ASSUME NEW f, NEW in \in Seq(Byte), NEW p \in Offsets(in), NEW kind \in DOMAIN Size,
         IsVarInt(f, kind), NEW r, r = read_number(f, in, p, kind), r.ok
  PROVE  InRange(r.v, kind) /\ Short(Wrote(write_number(f, r.v, kind)), r.pos - p)
<1>1. PICK most \in {5, 10} : most = IF kind = "Int" THEN 5 ELSE 10
  OBVIOUS
<1>2. PICK ds, q, x :
        /\ read_uvarint(in, p, most).ok
        /\ ds = read_uvarint(in, p, most).v /\ q = read_uvarint(in, p, most).pos
        /\ x = IF kind = "Long" /\ ~ fits32(ds) THEN Wide ELSE zigzag(ds)
        /\ r = Ok(x, q)
  <2>1. r = IF read_uvarint(in, p, most).ok
            THEN Ok(IF kind = "Long" /\ ~ fits32(read_uvarint(in, p, most).v) THEN Wide
                    ELSE zigzag(read_uvarint(in, p, most).v), read_uvarint(in, p, most).pos)
            ELSE read_uvarint(in, p, most)
    BY <1>1 DEF read_number, Then
  <2> QED
    BY <2>1
<1>3. PICK n \in Nat : n = Len(ds) /\ q = p + n /\ ds \in Seq(Digit) /\ n >= 1
  BY <1>2, UvarintTakes, UvarintYields
<1>4. zigzag(ds) \in Int32 /\ Len(write_zigzag(zigzag(ds))) <= n
  BY <1>3, ZigzagReencodes
<1>5. x \in Int32 /\ Len(write_zigzag(x)) <= n
  <2>1. CASE x = zigzag(ds)
    BY <1>4, <2>1
  <2>2. CASE kind = "Long" /\ ~ fits32(ds) /\ x = Wide
    <3>1. n > 4
      <4> SUFFICES ASSUME n <= 4
                   PROVE  fits32(ds)
        BY <1>3, <2>2
      <4>1. \A i \in 5 .. 10 : digit(ds, i) = 0
        BY <1>3 DEF digit
      <4> QED
        BY <4>1 DEF fits32
    <3>2. Wide = INT32_MAX /\ Wide \in Int32 /\ InInt32(Wide)
      <4>1. Wide = INT32_MAX /\ INT32_MAX \in Nat
        BY DEF Wide, INT32_MAX
      <4> QED
        BY <4>1, IntRanges DEF InInt32
    <3>3. Len(write_zigzag(Wide)) <= 5
      BY <3>2, ZigzagBack DEF Spells
    <3>4. write_zigzag(Wide) \in Seq(Byte)
      BY <3>2, IntRanges, ZigzagBytes
    <3> QED
      BY <2>2, <3>1, <3>2, <3>3, <3>4, <1>3
  <2> QED
    BY <1>2, <2>1, <2>2
<1>6. InRange(x, kind)
  BY <1>5 DEF InRange, IsVarInt
<1>7. Short(Wrote(write_zigzag(x)), n)
  <2>1. write_zigzag(x) \in Seq(Byte)
    BY <1>5, IntRanges, ZigzagBytes
  <2> QED
    BY <1>5, <2>1, ShortWrote
<1>8. write_number(f, x, kind) = write_zigzag(x)
  BY DEF write_number
<1>9. r.v = x /\ r.pos = p + n /\ (p + n) - p = n
  BY <1>2, <1>3, OkIs DEF Offsets
<1> QED
  BY <1>6, <1>7, <1>8, <1>9

LEMMA NumberReencodes ==
  ASSUME NEW f, NEW in \in Seq(Byte), NEW p \in Offsets(in), NEW kind \in DOMAIN Size,
         NEW r, r = read_number(f, in, p, kind), r.ok
  PROVE  InRange(r.v, kind) /\ Short(Wrote(write_number(f, r.v, kind)), r.pos - p)
BY FixedReencodes, VarReencodes

\* So is an array's length, and in its place the length of an empty one.
LEMMA ArrayLengthReencodes ==
  ASSUME NEW f, NEW in \in Seq(Byte), NEW p \in Offsets(in),
         NEW r, r = read_array_length(f, in, p), r.ok
  PROVE  /\ r.v \in Nat /\ r.v <= INT32_MAX
         /\ Short(write_array_length(f, r.v), r.pos - p)
         /\ Short(write_array_length(f, 0), r.pos - p)
<1> DEFINE d == read_number(f, in, p, "Int")
<1>0. "Int" \in DOMAIN Size
  BY SizesAre
<1>1. d.ok /\ r.v = d.v /\ r.pos = d.pos /\ ~ (d.v < 0)
  <2>1. r = IF d.ok THEN IF d.v < 0 THEN Err("NegativeLength", d.pos) ELSE Ok(d.v, d.pos)
            ELSE d
    BY DEF read_array_length, Then
  <2>2. CASE d.ok
    BY <2>1, <2>2 DEF Ok, Err
  <2>3. CASE ~ d.ok
    BY <2>1, <2>3
  <2> QED
    BY <2>2, <2>3
<1>2. InRange(d.v, "Int") /\ Short(Wrote(write_number(f, d.v, "Int")), d.pos - p)
  BY <1>0, <1>1, NumberReencodes
<1> HIDE DEF d
<1>3. PICK x \in Int : x = d.v /\ x <= INT32_MAX
  BY <1>2, IntRanges DEF InRange
<1>4. x \in Nat
  BY <1>1, <1>3
<1>5. INT32_MAX \in Nat
  BY DEF INT32_MAX
<1>6. write_array_length(f, x) = Wrote(write_number(f, x, "Int"))
  BY <1>3, <1>5 DEF write_array_length
<1>7. write_array_length(f, 0) = Wrote(write_number(f, 0, "Int"))
  BY <1>5 DEF write_array_length
<1>8. Short(Wrote(write_number(f, 0, "Int")), d.pos - p)
  <2>1. PICK o \in Seq(Byte) : o = write_number(f, x, "Int") /\ Len(o) <= d.pos - p
    <3>1. write_number(f, x, "Int") \in Seq(Byte)
      BY <1>0, NumberBytes
    <3> QED
      BY <1>2, <1>3, <3>1, WroteIs DEF Short
  <2>2. PICK z \in Seq(Byte) : z = write_number(f, 0, "Int")
    <3>1. 0 \in Int
      OBVIOUS
    <3> QED
      BY <1>0, <3>1, NumberBytes
  <2>3. Len(z) <= Len(o)
    <3>1. CASE IsVarInt(f, "Int")
      <4>1. z = <<0>>
        <5>1. write_zigzag(0) = <<2 * (0 % 64) + 0>>
          BY DEF write_zigzag
        <5>2. 2 * (0 % 64) + 0 = 0
          OBVIOUS
        <5> QED
          BY <2>2, <3>1, <5>1, <5>2 DEF write_number
      <4>2. Len(o) >= 1
        <5>1. x <= INT32_MAX /\ -INT32_MAX - 1 <= x
          BY <1>3, <1>4, <1>5
        <5>2. InInt32(x)
          BY <5>1 DEF InInt32
        <5>3. o = write_zigzag(x)
          BY <2>1, <3>1 DEF write_number
        <5> QED
          BY <5>2, <5>3, ZigzagBack DEF Spells, IsVar
      <4>3. Len(z) = 1
        BY <4>1
      <4> QED
        BY <4>2, <4>3
    <3>2. CASE ~ IsVarInt(f, "Int")
      <4>1. ASSUME NEW y \in Int
            PROVE  Len(write_number(f, y, "Int")) = 4
        <5>1. big_endian_bytes(y, 4) \in Seq(Byte) /\ Len(big_endian_bytes(y, 4)) = 4
          BY BytesOf
        <5>2. Len(big_endian(f, big_endian_bytes(y, 4))) = 4
          BY <5>1, ReverseBytes
        <5> QED
          BY <3>2, <5>2 DEF write_number, Size
      <4>2. Len(z) = 4 /\ Len(o) = 4
        BY <2>1, <2>2, <4>1
      <4> QED
        BY <4>2
    <3> QED
      BY <3>1, <3>2
  <2>4. d.pos \in Int
    <3>1. Yields(d, p, Len(in))
      BY <1>0, NumberYields DEF d
    <3> QED
      BY <3>1 DEF Yields
  <2>5. PICK m \in Int : m = d.pos - p
    BY <2>4 DEF Offsets
  <2>6. Len(z) \in Nat /\ Len(o) \in Nat
    OBVIOUS
  <2>7. m \in Nat /\ Len(z) <= m
    BY <2>1, <2>3, <2>5, <2>6
  <2> QED
    BY <2>2, <2>5, <2>7, ShortWrote
<1> QED
  BY <1>1, <1>2, <1>3, <1>4, <1>6, <1>7, <1>8

\* A character takes no more bytes in UTF-8 than in MUTF-8.
LEMMA SpeltShorter ==
  ASSUME NEW u, NEW m, Spelt(u, m)
  PROVE  u \in Seq(Byte) /\ Len(u) \in Nat /\ Len(m) \in Nat /\ Len(u) <= Len(m)
<1>1. u \in Seq(Byte) /\ m \in Seq(NonZero)
  BY SpeltType
<1>2. Len(u) \in Nat /\ Len(m) \in Nat
  BY <1>1
<1>3. CASE u = m
  BY <1>1, <1>2, <1>3
<1>4. CASE NulAs(u, m)
  BY <1>1, <1>2, <1>4 DEF NulAs
<1>5. CASE FourAs(u, m)
  <2>1. PICK n, h, l, a, x, y, z :
          /\ IsPair(n, h, l)
          /\ u = <<240 + a, 128 + x, 128 + y, 128 + z>>
          /\ m = encode_utf8(h) \o encode_utf8(l)
    BY <1>5 DEF FourAs
  <2>2. PICK c \in Seq(NonZero), d \in Seq(NonZero) :
          c = encode_utf8(h) /\ d = encode_utf8(l) /\ Len(c) = 3 /\ Len(d) = 3
    BY <2>1, SurrogateType DEF IsPair
  <2>3. Len(c \o d) = 6
    <3>1. Len(c \o d) = Len(c) + Len(d)
      BY Joined
    <3> QED
      BY <2>2, <3>1
  <2>4. Len(u) = 4
    BY <2>1
  <2> QED
    BY <1>1, <1>2, <2>1, <2>2, <2>3, <2>4
<1> QED
  BY <1>3, <1>4, <1>5 DEF Spelt, AsciiAs, TwoAs, ThreeAs

\* So does a string.
LEMMA TextShorter ==
  ASSUME NEW s \in Seq(Byte), mutf8_to_utf8(s).ok
  PROVE  mutf8_to_utf8(s).v \in Seq(Byte) /\ Len(mutf8_to_utf8(s).v) <= Len(s)
<1>1. PICK N \in Nat : N = Len(s)
  OBVIOUS
<1> DEFINE step == decoding[s]
<1>2. /\ Taking(step, N) /\ step[N] = Ok(<<>>, N)
      /\ \A p \in 0 .. N - 1 : step[p] = mutf8_char(s, p)
      /\ mutf8_to_utf8(s) = Rounds(step, N + 1, 0)
  BY <1>1, CharAt, CharsTaking, DecodingChars
<1> HIDE DEF step
<1>3. PICK g : \A p \in 0 .. N :
                 g[p] = from(step, g, p) /\ Rounds(step, N + 1, p) = g[p]
  BY <1>2, WholeLoop
<1> DEFINE Fine(p) == g[p].ok => g[p].v \in Seq(Byte) /\ Len(g[p].v) <= N - p
           S == {p \in 0 .. N : Fine(p)}
<1>4. ASSUME NEW p \in 0 .. N, \A q \in p + 1 .. N : Fine(q), g[p].ok
      PROVE  g[p].v \in Seq(Byte) /\ Len(g[p].v) <= N - p
  <2>1. Goes(g[p], step[p], g)
    BY <1>3, FromGoes
  <2>2. CASE p = N
    <3>1. g[p] = Ok(<<>>, N)
      BY <1>2, <2>1, <2>2, OkIs DEF Goes
    <3>2. g[p].v = <<>> /\ <<>> \in Seq(Byte) /\ Len(<<>>) = 0
      BY <3>1, OkIs
    <3> QED
      BY <2>2, <3>2
  <2>3. CASE p # N
    <3>1. p \in 0 .. N - 1 /\ step[p] = mutf8_char(s, p)
      BY <1>2, <2>3
    <3>2. step[p].ok
      BY <1>4, <2>1 DEF Goes
    <3>3. PICK m : /\ At(s, p, m) /\ Spelt(step[p].v, m)
                   /\ step[p].pos = p + Len(m)
      BY <1>1, <3>1, <3>2, Mutf8Reads
    <3>4. PICK u \in Seq(Byte) : u = step[p].v /\ Len(u) <= Len(m) /\ Len(m) \in Nat
      BY <3>3, SpeltShorter
    <3>5. u # <<>>
      BY <3>3, <3>4, SpeltType
    <3>6. PICK q \in p + 1 .. N : q = step[p].pos
      <4>1. step[p].v # <<>> => step[p].pos \in p .. N /\ step[p].pos # p
        BY <1>2, <3>2 DEF Taking
      <4>2. step[p].pos \in p + 1 .. N
        BY <3>4, <3>5, <4>1
      <4> QED
        BY <4>2
    <3>7. g[q].ok /\ g[p].v = u \o g[q].v
      <4>1. CASE g[q].ok
        <5>1. g[p] = Ok(u \o g[q].v, g[q].pos)
          BY <2>1, <3>2, <3>4, <3>5, <3>6, <4>1 DEF Goes
        <5> QED
          BY <4>1, <5>1, OkIs
      <4>2. CASE ~ g[q].ok
        <5>1. g[p] = g[q]
          BY <2>1, <3>2, <3>4, <3>5, <3>6, <4>2 DEF Goes
        <5> QED
          BY <1>4, <4>2, <5>1
      <4> QED
        BY <4>1, <4>2
    <3>8. PICK t \in Seq(Byte) : t = g[q].v /\ Len(t) <= N - q
      BY <1>4, <3>7
    <3>9. u \o t \in Seq(Byte) /\ Len(u \o t) = Len(u) + Len(t)
          /\ Len(u) \in Nat /\ Len(t) \in Nat
      BY Joined
    <3>10. q = p + Len(m)
      BY <3>3, <3>6
    <3>12. PICK x \in Nat, y \in Nat, z \in Nat : x = Len(u) /\ y = Len(t) /\ z = Len(m)
      BY <3>4, <3>9
    <3>11. Len(u \o t) <= N - p
      <4>1. x <= z /\ y <= N - (p + z)
        BY <3>4, <3>8, <3>10, <3>12
      <4>2. x + y <= N - p
        BY <4>1
      <4> QED
        BY <3>9, <3>12, <4>2
    <3> QED
      BY <3>7, <3>8, <3>9, <3>11
  <2> QED
    BY <2>2, <2>3
<1>5. \A p \in 0 .. N : (\A q \in p + 1 .. N : q \in S) => p \in S
  <2> SUFFICES ASSUME NEW p \in 0 .. N, \A q \in p + 1 .. N : q \in S
               PROVE  Fine(p)
    OBVIOUS
  <2>1. \A q \in p + 1 .. N : Fine(q)
    OBVIOUS
  <2> QED
    BY <1>4, <2>1
<1>6. \A p \in 0 .. N : p \in S
  <2> HIDE DEF S
  <2> QED
    BY <1>5, FromLater
<1>7. Fine(0)
  BY <1>6
<1> QED
  BY <1>1, <1>2, <1>3, <1>7

LEMMA MaxStringNat == kMaxString \in Nat
BY SMT DEF kMaxString

LEMMA MaxStringFits == kMaxString \in Nat /\ INT32_MAX \in Nat /\ kMaxString <= INT32_MAX
BY SMT DEF kMaxString, INT32_MAX

LEMMA MaxStringIs ==
  /\ kMaxString \in Nat /\ kMaxString <= INT32_MAX /\ INT32_MAX \in Nat
  /\ \A x, y \in 0 .. 255 : x * 256 + y <= kMaxString
<1>1. kMaxString \in Nat
  BY SMT DEF kMaxString
<1>2. kMaxString <= INT32_MAX /\ INT32_MAX \in Nat
  BY MaxStringFits
<1>3. \A x, y \in 0 .. 255 : x * 256 + y <= kMaxString
  BY SMT DEF kMaxString
<1> QED
  BY <1>1, <1>2, <1>3

\* The bytes of a string, and what may be written in their place.
LEMMA SpanReencodes ==
  ASSUME NEW f, NEW in \in Seq(Byte), NEW p \in Offsets(in),
         NEW r, r = skip_string(f, in, p), r.ok
  PROVE  /\ r.v \in ByteStrings /\ r.pos - p \in Nat
         /\ f # "BedrockVarInt" => Len(r.v) <= kMaxString /\ r.pos - p = 2 + Len(r.v)
         /\ f = "BedrockVarInt" =>
              Len(write_uvarint(Len(r.v))) + Len(r.v) <= r.pos - p
<1> DEFINE h == read_string_length(f, in, p)
           t == take(in, h.pos, h.v, 1)
<1>1. h.ok /\ r = t
  <2>1. r = IF h.ok THEN t ELSE h
    BY DEF skip_string, Then
  <2> HIDE DEF t, h
  <2> QED
    BY <2>1
<1> HIDE DEF t, h
<1>2. PICK n \in Nat, q \in Offsets(in) : n = h.v /\ q = h.pos
  <2>1. Yields(h, p, Len(in)) /\ h.v \in Nat
    BY <1>1, StringLengthYields DEF h
  <2>2. h.pos \in Offsets(in)
    BY <2>1 DEF Yields, Offsets
  <2> QED
    BY <2>1, <2>2
<1>3. PICK b \in Seq(Byte) : r.v = b /\ Len(b) = n /\ r.pos = q + n
  BY <1>1, <1>2, TakeBytes DEF t
<1>4. CASE f # "BedrockVarInt"
  <2> DEFINE w == take(in, p, 2, 1)
  <2>1. h = IF w.ok THEN Ok(unsigned(big_endian(f, w.v)), w.pos) ELSE w
    BY <1>4 DEF h, read_string_length, Then
  <2> HIDE DEF w
  <2>2. w.ok /\ h = Ok(unsigned(big_endian(f, w.v)), w.pos)
    BY <1>1, <2>1
  <2>3. PICK c \in Seq(Byte) : c = w.v /\ Len(c) = 2 /\ w.pos = p + 2
    <3>1. 2 \in Nat
      OBVIOUS
    <3>2. w.v \in Seq(Byte) /\ Len(w.v) = 2 /\ w.pos = p + 2
      BY <2>2, <3>1, TakeBytes DEF w
    <3> QED
      BY <3>2
  <2>4. PICK d \in Seq(Byte) : d = big_endian(f, c) /\ Len(d) = 2
    BY <2>3, ReverseBytes
  <2>5. PICK x \in 0 .. 255, y \in 0 .. 255 : x = d[1] /\ y = d[2]
    <3>1. d[1] \in Byte /\ d[2] \in Byte
      <4>1. \A i \in 1 .. Len(d) : d[i] \in Byte
        OBVIOUS
      <4> QED
        BY <2>4, <4>1
    <3>2. d[1] \in 0 .. 255 /\ d[2] \in 0 .. 255
      BY <3>1 DEF Byte
    <3> QED
      BY <3>2
  <2>6. n = x * 256 + y /\ q = p + 2
    BY <1>2, <2>2, <2>3, <2>4, <2>5, OkIs DEF unsigned
  <2>7. n <= kMaxString
    BY <2>5, <2>6, MaxStringIs
  <2>8. n <= INT32_MAX
    BY <2>7, MaxStringFits
  <2>9. r.pos - p = 2 + n
    BY <1>3, <2>6 DEF Offsets
  <2> QED
    BY <1>3, <1>4, <2>7, <2>8, <2>9 DEF ByteStrings
<1>5. CASE f = "BedrockVarInt"
  <2> DEFINE w == read_uvarint(in, p, 5)
  <2>1. h = IF w.ok THEN Ok(as_length(w.v), w.pos) ELSE w
    BY <1>5 DEF h, read_string_length, Then
  <2> HIDE DEF w
  <2>2. w.ok /\ h = Ok(as_length(w.v), w.pos)
    BY <1>1, <2>1
  <2>3. PICK ds \in Seq(Digit), k \in Nat : ds = w.v /\ k = Len(ds) /\ k >= 1 /\ w.pos = p + k
    BY <2>2, UvarintTakes, UvarintYields DEF w
  <2>4. n = as_length(ds) /\ q = p + k
    BY <1>2, <2>2, <2>3, OkIs
  <2>5. n <= INT32_MAX /\ Len(write_uvarint(n)) <= k
    <3>1. as_length(ds) \in 0 .. INT32_MAX /\ Len(write_uvarint(as_length(ds))) <= k
      BY <2>3, LengthReencodes
    <3> QED
      BY <2>4, <3>1
  <2>6. PICK z \in Nat : z = Len(write_uvarint(n))
    BY UvarintLen
  <2>7. r.pos - p = k + n
    BY <1>3, <2>4 DEF Offsets
  <2> QED
    BY <1>3, <1>5, <2>5, <2>6, <2>7 DEF ByteStrings
<1> QED
  BY <1>4, <1>5

\* Text as the dialect spells it, behind its length.
LEMMA SpelledShort ==
  ASSUME NEW f, f # "BedrockVarInt", NEW t \in Seq(Byte), NEW m \in Nat,
         Len(t) <= kMaxString, 2 + Len(t) <= m
  PROVE  Short(Wrote(big_endian(f, big_endian_bytes(Len(t), 2)) \o t), m)
<1>1. Len(t) \in Int /\ Len(t) \in Nat
  OBVIOUS
<1>2. /\ big_endian_bytes(Len(t), 2) \in Seq(Byte)
      /\ Len(big_endian_bytes(Len(t), 2)) = 2
  BY <1>1, BytesOf
<1>3. PICK h \in Seq(Byte) : h = big_endian(f, big_endian_bytes(Len(t), 2)) /\ Len(h) = 2
  BY <1>2, ReverseBytes
<1>4. PICK o \in Seq(Byte) : o = h \o t /\ Len(o) = 2 + Len(t)
  <2>1. h \o t \in Seq(Byte) /\ Len(h \o t) = Len(h) + Len(t)
    BY Joined
  <2> QED
    BY <1>3, <2>1
<1>5. Short(Wrote(o), m)
  BY <1>4, ShortWrote
<1> QED
  BY <1>3, <1>4, <1>5

LEMMA BedrockOrJava ==
  ASSUME NEW f \in Formats
  PROVE  f \in Bedrock <=> f \notin Java
BY DEF Formats, Bedrock, Java

LEMMA StringReencodes ==
  ASSUME NEW f \in Formats, NEW in \in Seq(Byte), NEW p \in Offsets(in),
         NEW r, r = read_string(f, in, p), r.ok
  PROVE  r.v \in ByteStrings /\ Short(write_string(f, r.v), r.pos - p)
<1> DEFINE k == skip_string(f, in, p)
<1>1. k.ok /\ r = IF f \in Bedrock \/ is_pure_ascii(k.v) THEN Ok(k.v, k.pos)
                  ELSE Placed(mutf8_to_utf8(k.v), k.pos)
  <2>1. r = IF k.ok THEN IF f \in Bedrock \/ is_pure_ascii(k.v) THEN Ok(k.v, k.pos)
                         ELSE [mutf8_to_utf8(k.v) EXCEPT !.pos = k.pos]
            ELSE k
    BY DEF read_string, Then
  <2> HIDE DEF k
  <2> QED
    BY <2>1 DEF Placed
<1>2. /\ k.v \in ByteStrings /\ k.pos - p \in Nat
      /\ f # "BedrockVarInt" => Len(k.v) <= kMaxString /\ k.pos - p = 2 + Len(k.v)
      /\ f = "BedrockVarInt" => Len(write_uvarint(Len(k.v))) + Len(k.v) <= k.pos - p
  BY <1>1, SpanReencodes
<1> HIDE DEF k
<1>3. PICK b \in ByteStrings, m \in Nat : b = k.v /\ m = k.pos - p
  BY <1>2
<1>4. b \in Seq(Byte) /\ Len(b) \in Nat /\ Len(b) <= INT32_MAX
  BY DEF ByteStrings
<1>5. CASE f = "BedrockVarInt"
  <2>1. f \in Bedrock
    BY <1>5 DEF Bedrock
  <2>2. r.v = b /\ r.pos - p = m
    BY <1>1, <1>3, <2>1, OkIs
  <2>3. PICK h \in Seq(Byte) : h = write_uvarint(Len(b))
    BY <1>4, UvarintBytes
  <2>4. h \o b \in Seq(Byte) /\ Len(h \o b) = Len(h) + Len(b)
    BY <1>4, Joined
  <2>5. Len(h) + Len(b) <= m
    BY <1>2, <1>3, <1>5, <2>3
  <2>6. Short(Wrote(h \o b), m)
    BY <2>4, <2>5, ShortWrote
  <2>7. write_string(f, b) = Wrote(h \o b)
    BY <1>5, <2>3 DEF write_string
  <2> QED
    BY <2>2, <2>6, <2>7
<1>6. ASSUME f # "BedrockVarInt"
      PROVE  Len(b) <= kMaxString /\ m = 2 + Len(b)
  BY <1>2, <1>3, <1>6
<1>7. CASE f # "BedrockVarInt" /\ (f \in Bedrock \/ is_pure_ascii(b))
  <2>1. r.v = b /\ r.pos - p = m
    BY <1>1, <1>3, <1>7, OkIs
  <2>2. write_string(f, b) = Wrote(big_endian(f, big_endian_bytes(Len(b), 2)) \o b)
    <3>1. write_string(f, b) =
            IF ~ Ok(b, Len(b)).ok \/ Len(Ok(b, Len(b)).v) > kMaxString THEN Failed(<<>>)
            ELSE Wrote(big_endian(f, big_endian_bytes(Len(Ok(b, Len(b)).v), 2))
                         \o Ok(b, Len(b)).v)
      BY <1>7 DEF write_string
    <3>2. ~ (Len(b) > kMaxString)
      <4>1. Len(b) \in Nat /\ Len(b) <= kMaxString
        BY <1>4, <1>6, <1>7
      <4> QED
        BY <4>1, MaxStringNat
    <3> QED
      BY <3>1, <3>2, OkIs
  <2>3. Short(write_string(f, b), m)
    BY <1>4, <1>6, <1>7, <2>2, SpelledShort
  <2> QED
    BY <2>1, <2>3
<1>8. CASE f # "BedrockVarInt" /\ ~ (f \in Bedrock \/ is_pure_ascii(b))
  <2>1. r = Placed(mutf8_to_utf8(b), k.pos)
    BY <1>1, <1>3, <1>8
  <2>2. PICK s, e : mutf8_to_utf8(b) = Ok(s, e)
    <3>1. IsResult(mutf8_to_utf8(b), Bad)
      BY <1>4, TextResult
    <3>2. mutf8_to_utf8(b) # Err(mutf8_to_utf8(b).v, mutf8_to_utf8(b).pos)
      <4> SUFFICES ASSUME mutf8_to_utf8(b) = Err(mutf8_to_utf8(b).v, mutf8_to_utf8(b).pos)
                   PROVE  FALSE
        OBVIOUS
      <4>1. PICK x, y : mutf8_to_utf8(b) = Err(x, y)
        OBVIOUS
      <4>2. r.ok = FALSE
        <5>1. r = Placed(Err(x, y), k.pos)
          BY <2>1, <4>1
        <5>2. ErrAt(Placed(Err(x, y), k.pos), x, k.pos)
          BY PlacedErr
        <5> QED
          BY <5>1, <5>2 DEF ErrAt
      <4> QED
        BY <4>2
    <3> QED
      BY <3>1, <3>2 DEF IsResult
  <2>3. r.v = s /\ r.pos - p = m
    BY <1>3, <2>1, <2>2, PlacedAs, OkIs
  <2>4. mutf8_to_utf8(b).ok /\ mutf8_to_utf8(b).v = s
    BY <2>2, OkIs
  <2>5. s \in Seq(Byte) /\ Len(s) <= Len(b) /\ Len(s) \in Nat
    <3>1. s \in Seq(Byte) /\ Len(s) <= Len(b)
      BY <1>4, <2>4, TextShorter
    <3> QED
      BY <3>1
  <2>6. INT32_MAX \in Nat
    BY DEF INT32_MAX
  <2>7. s \in ByteStrings
    BY <1>4, <2>5, <2>6 DEF ByteStrings
  <2>8. utf8_to_mutf8(s) = Ok(b, Len(s))
    BY <1>4, <2>4, DecoderInverted
  <2>9. PICK t \in Seq(Byte) :
          /\ Len(t) <= Len(b)
          /\ \E e2 : (IF f \in Bedrock \/ is_pure_ascii(s) THEN Ok(s, Len(s))
                      ELSE utf8_to_mutf8(s)) = Ok(t, e2)
    <3>1. CASE is_pure_ascii(s)
      BY <2>5, <3>1
    <3>2. CASE ~ is_pure_ascii(s)
      BY <1>4, <1>8, <2>8, <3>2
    <3> QED
      BY <3>1, <3>2
  <2>10. PICK e2 : (IF f \in Bedrock \/ is_pure_ascii(s) THEN Ok(s, Len(s))
                    ELSE utf8_to_mutf8(s)) = Ok(t, e2)
    BY <2>9
  <2>11. Len(t) \in Nat /\ Len(t) <= kMaxString /\ 2 + Len(t) <= m
    <3>1. PICK x \in Nat, y \in Nat : x = Len(t) /\ y = Len(b)
      BY <1>4
    <3>2. x <= y /\ y <= kMaxString /\ m = 2 + y
      BY <1>6, <1>8, <2>9, <3>1
    <3>3. x <= kMaxString /\ 2 + x <= m
      BY <3>2, MaxStringNat
    <3> QED
      BY <3>1, <3>3
  <2>12. write_string(f, s) = Wrote(big_endian(f, big_endian_bytes(Len(t), 2)) \o t)
    <3>1. write_string(f, s) =
            IF ~ Ok(t, e2).ok \/ Len(Ok(t, e2).v) > kMaxString THEN Failed(<<>>)
            ELSE Wrote(big_endian(f, big_endian_bytes(Len(Ok(t, e2).v), 2))
                         \o Ok(t, e2).v)
      BY <1>8, <2>10 DEF write_string
    <3>2. ~ (Len(t) > kMaxString)
      BY <2>11, MaxStringNat
    <3> QED
      BY <3>1, <3>2, OkIs
  <2>13. Short(write_string(f, s), m)
    BY <1>8, <2>11, <2>12, SpelledShort
  <2> QED
    BY <2>3, <2>7, <2>13
<1> QED
  BY <1>5, <1>7, <1>8

\* The first of some writes, and the others.
Others(W, T) ==
  /\ T \in Seq(Writes) /\ Len(W) = Len(T) + 1
  /\ \A i \in 1 .. Len(T) : T[i] = W[i + 1]

LEMMA InOrderFirst ==
  ASSUME NEW W \in Seq(Writes), NEW T, Others(W, T)
  PROVE  InOrder(W) = AndThen(W[1], InOrder(T))
<1>1. PICK m \in Nat : m = Len(T) /\ Len(W) = m + 1
  BY DEF Others
<1>2. PICK g : /\ \A i \in 1 .. (m + 1) + 1 : g[i] = WriteRound(W, m + 1, g, i)
               /\ InOrder(W) = g[1]
  BY <1>1, WriteLoopIs
<1>3. PICK h : /\ \A i \in 1 .. m + 1 : h[i] = WriteRound(T, m, h, i)
               /\ InOrder(T) = h[1]
  <2>1. Len(T) \in Nat
    BY <1>1
  <2> QED
    BY <1>1, <2>1, WriteLoopIs
<1> DEFINE S == {k \in 0 .. m : g[(k + 1) + 1] = h[k + 1]}
<1>4. m \in S
  <2>1. (m + 1) + 1 > m + 1 /\ m + 1 > m /\ (m + 1) + 1 \in 1 .. (m + 1) + 1 /\ m + 1 \in 1 .. m + 1
    OBVIOUS
  <2>2. g[(m + 1) + 1] = Wrote(<<>>) /\ h[m + 1] = Wrote(<<>>)
    BY <1>2, <1>3, <2>1 DEF WriteRound
  <2> QED
    BY <2>2
<1>5. ASSUME NEW k \in 0 .. m, k # m, k + 1 \in S
      PROVE  k \in S
  <2>1. PICK i \in 1 .. m : i = k + 1
    BY <1>5
  <2>2. i + 1 \in 1 .. (m + 1) + 1 /\ ~ (i + 1 > m + 1) /\ i \in 1 .. m + 1 /\ ~ (i > m)
    OBVIOUS
  <2>3. g[(i + 1) + 1] = h[i + 1]
    BY <1>5, <2>1
  <2>4. T[i] = W[i + 1]
    BY <1>1 DEF Others
  <2>5. g[i + 1] = AndThen(W[i + 1], g[(i + 1) + 1])
    BY <1>2, <2>2 DEF WriteRound
  <2>6. h[i] = AndThen(T[i], h[i + 1])
    BY <1>3, <2>2 DEF WriteRound
  <2> QED
    BY <2>1, <2>3, <2>4, <2>5, <2>6
<1>6. \A k \in 0 .. m : k \in S
  <2> HIDE DEF S
  <2> QED
    BY <1>4, <1>5, Downward
<1>7. g[2] = h[1]
  <2>1. 0 \in 0 .. m /\ (0 + 1) + 1 = 2 /\ 0 + 1 = 1
    OBVIOUS
  <2> QED
    BY <1>6, <2>1
<1>8. g[1] = AndThen(W[1], g[2])
  <2>1. 1 \in 1 .. (m + 1) + 1 /\ ~ (1 > m + 1) /\ 1 + 1 = 2
    OBVIOUS
  <2> QED
    BY <1>2, <2>1 DEF WriteRound
<1> QED
  BY <1>2, <1>3, <1>7, <1>8

\* A loop whose rounds yield one element each, of Z, or end it with t bytes.
Singles(in, step, t, Z) ==
  \A q \in Offsets(in) : step[q].ok =>
    /\ step[q].pos \in q .. Len(in)
    /\ \/ step[q].v = <<>> /\ q + t <= step[q].pos
       \/ \E z \in Z : step[q].v = <<z>>

\* A round that yields x.
Source(in, step, x) == \E u \in Offsets(in) : step[u].ok /\ step[u].v = <<x>>

\* In w, x takes no more bytes than the rounds that yield it.
ShortOf(in, step, x, w) ==
  \A u \in Offsets(in) : step[u].ok /\ step[u].v = <<x>> => Short(w, step[u].pos - u)

AllFit(in, step, xs, W) ==
  Len(W) = Len(xs) /\ \A i \in 1 .. Len(xs) : ShortOf(in, step, xs[i], W[i])

\* A sequence given by its items.
LEMMA EachIn ==
  ASSUME NEW S, NEW n \in Nat, NEW T, T = [i \in 1 .. n |-> T[i]],
         \A i \in 1 .. n : T[i] \in S
  PROVE  T \in Seq(S) /\ Len(T) = n
OBVIOUS

\* What such a loop returns, and how it may be written.
Ran(in, step, t, Z, r, q) ==
  r.ok =>
    /\ r.pos \in q + t .. Len(in) /\ r.v \in Seq(Z)
    /\ \A i \in 1 .. Len(r.v) : Source(in, step, r.v[i])
    /\ \A W \in Seq(Writes) : AllFit(in, step, r.v, W) => Short(InOrder(W), r.pos - (q + t))

LEMMA RanNothing ==
  ASSUME NEW in \in Seq(Byte), NEW q \in Offsets(in), NEW t \in Nat, NEW step, NEW Z,
         NEW e \in Offsets(in), q + t <= e
  PROVE  Ran(in, step, t, Z, Ok(<<>>, e), q)
<1>1. e \in q + t .. Len(in) /\ <<>> \in Seq(Z) /\ Len(<<>>) = 0
  BY DEF Offsets
<1>2. ASSUME NEW W \in Seq(Writes), AllFit(in, step, <<>>, W)
      PROVE  Short(InOrder(W), e - (q + t))
  <2>1. InOrder(W) = Wrote(<<>>)
    BY <1>1, <1>2, InOrderNothing DEF AllFit
  <2>2. PICK m \in Nat : m = e - (q + t)
    BY DEF Offsets
  <2>3. Short(Wrote(<<>>), m)
    <3>1. <<>> \in Seq(Byte) /\ Len(<<>>) <= m
      BY <1>1, NoBytes
    <3> QED
      BY <3>1, ShortWrote
  <2> QED
    BY <2>1, <2>2, <2>3
<1>3. PICK r : r = Ok(<<>>, e) /\ r.v = <<>> /\ r.pos = e
  BY OkIs
<1>4. \A i \in 1 .. Len(r.v) : Source(in, step, r.v[i])
  BY <1>1, <1>3
<1> QED
  BY <1>1, <1>2, <1>3, <1>4 DEF Ran

\* One round, and what the loop returns from there on.
LEMMA RanMore ==
  ASSUME NEW in \in Seq(Byte), NEW q \in Offsets(in), NEW t \in Nat, NEW step, NEW Z,
         step[q].ok, NEW e \in q .. Len(in), step[q].pos = e,
         NEW z \in Z, step[q].v = <<z>>,
         NEW l, l.ok, Ran(in, step, t, Z, l, e)
  PROVE  Ran(in, step, t, Z, Ok(<<z>> \o l.v, l.pos), q)
<1>0. PICK ys \in Seq(Z), b \in Int : ys = l.v /\ b = l.pos /\ b \in e + t .. Len(in)
  <2>1. l.v \in Seq(Z) /\ l.pos \in e + t .. Len(in)
    BY DEF Ran
  <2>2. l.pos \in Int
    BY <2>1 DEF Offsets
  <2> QED
    BY <2>1, <2>2
<1>1. q \in Nat /\ e \in Nat /\ Len(in) \in Nat /\ q <= e
  BY DEF Offsets
<1>2. PICK m \in Nat : m = Len(ys)
  OBVIOUS
<1>3. PICK xs \in Seq(Z) : xs = <<z>> \o ys
  <2>1. <<z>> \in Seq(Z)
    OBVIOUS
  <2>2. <<z>> \o ys \in Seq(Z)
    BY <2>1, Joined
  <2> QED
    BY <2>2
<1>4. Len(xs) = m + 1 /\ xs[1] = z /\ \A i \in 1 .. m : xs[i + 1] = ys[i]
  BY <1>2, <1>3
<1>5. b \in q + t .. Len(in)
  BY <1>0, <1>1
<1>6. ASSUME NEW i \in 1 .. m + 1
      PROVE  Source(in, step, xs[i])
  <2>1. CASE i = 1
    BY <1>4, <2>1 DEF Source
  <2>2. CASE i # 1
    <3>1. PICK k \in 1 .. m : i = k + 1
      <4>1. i - 1 \in 1 .. m /\ i = (i - 1) + 1
        BY <2>2
      <4> QED
        BY <4>1
    <3>2. Source(in, step, ys[k])
      BY <1>0, <1>2 DEF Ran
    <3> QED
      BY <1>4, <3>1, <3>2
  <2> QED
    BY <2>1, <2>2
<1>7. ASSUME NEW W \in Seq(Writes), AllFit(in, step, xs, W)
      PROVE  Short(InOrder(W), b - (q + t))
  <2>1. Len(W) = m + 1 /\ \A i \in 1 .. m + 1 : ShortOf(in, step, xs[i], W[i])
    BY <1>4, <1>7 DEF AllFit
  <2>2. PICK T : T = [i \in 1 .. m |-> W[i + 1]]
    OBVIOUS
  <2>3. Others(W, T)
    <3>1. \A i \in 1 .. m : W[i + 1] \in Writes
      BY <2>1
    <3>2. T = [i \in 1 .. m |-> T[i]] /\ \A i \in 1 .. m : T[i] \in Writes
      BY <2>2, <3>1
    <3>3. T \in Seq(Writes) /\ Len(T) = m
      BY <3>2, EachIn
    <3> QED
      BY <2>1, <2>2, <3>3 DEF Others
  <2>4. T \in Seq(Writes) /\ Len(T) = m /\ \A i \in 1 .. m : T[i] = W[i + 1]
    BY <2>1, <2>2, <2>3 DEF Others
  <2>5. AllFit(in, step, ys, T)
    <3> SUFFICES ASSUME NEW i \in 1 .. m
                 PROVE  ShortOf(in, step, ys[i], T[i])
      BY <1>2, <2>4 DEF AllFit
    <3>1. i + 1 \in 1 .. m + 1
      OBVIOUS
    <3>2. ShortOf(in, step, xs[i + 1], W[i + 1])
      BY <2>1, <3>1
    <3> QED
      BY <1>4, <2>4, <3>2
  <2>6. Short(InOrder(T), b - (e + t))
    BY <1>0, <2>4, <2>5 DEF Ran
  <2>7. Short(W[1], e - q)
    <3>1. ShortOf(in, step, z, W[1])
      <4>1. 1 \in 1 .. m + 1
        OBVIOUS
      <4> QED
        BY <1>4, <2>1, <4>1
    <3> QED
      BY <3>1 DEF ShortOf
  <2>8. PICK c \in Nat, d \in Nat : c = e - q /\ d = b - (e + t)
    <3>1. e - q \in Nat
      BY <1>1
    <3>2. b - (e + t) \in Nat
      <4>1. e + t <= b /\ e + t \in Nat
        BY <1>0, <1>1
      <4> QED
        BY <4>1
    <3> QED
      BY <3>1, <3>2
  <2>9. Short(AndThen(W[1], InOrder(T)), c + d)
    BY <2>6, <2>7, <2>8, ShortBoth
  <2>10. InOrder(W) = AndThen(W[1], InOrder(T))
    BY <2>3, InOrderFirst
  <2>11. c + d = b - (q + t)
    BY <1>1, <2>8
  <2> QED
    BY <2>9, <2>10, <2>11
<1>8. PICK r : r = Ok(<<z>> \o l.v, l.pos) /\ r.v = xs /\ r.pos = b
  <2>1. Ok(<<z>> \o l.v, l.pos).v = <<z>> \o l.v /\ Ok(<<z>> \o l.v, l.pos).pos = l.pos
    BY OkIs
  <2>2. <<z>> \o l.v = xs
    BY <1>0, <1>3
  <2> QED
    BY <1>0, <2>1, <2>2
<1>9. Ran(in, step, t, Z, r, q)
  BY <1>4, <1>5, <1>6, <1>7, <1>8 DEF Ran
<1> QED
  BY <1>8, <1>9

LEMMA RanStep ==
  ASSUME NEW in \in Seq(Byte), NEW q \in Offsets(in), NEW t \in Nat, NEW step, NEW Z,
         Singles(in, step, t, Z), NEW r, NEW later, Goes(r, step[q], later),
         step[q].ok => Ran(in, step, t, Z, later[step[q].pos], step[q].pos)
  PROVE  Ran(in, step, t, Z, r, q)
<1>1. CASE ~ step[q].ok
  BY <1>1 DEF Goes, Ran
<1>2. CASE step[q].ok
  <2>1. PICK e \in q .. Len(in) : e = step[q].pos
    BY <1>2 DEF Singles
  <2>2. e \in Offsets(in)
    BY DEF Offsets
  <2>3. CASE step[q].v = <<>> /\ q + t <= e
    <3>1. r = Ok(<<>>, e)
      BY <1>2, <2>1, <2>3 DEF Goes
    <3> QED
      BY <2>2, <2>3, <3>1, RanNothing
  <2>4. CASE \E z \in Z : step[q].v = <<z>>
    <3>1. PICK z \in Z : step[q].v = <<z>>
      BY <2>4
    <3>2. PICK l : l = later[e]
      OBVIOUS
    <3>3. <<z>> # <<>>
      OBVIOUS
    <3>4. CASE l.ok
      <4>1. r = Ok(<<z>> \o l.v, l.pos)
        BY <1>2, <2>1, <3>1, <3>2, <3>3, <3>4 DEF Goes
      <4>2. Ran(in, step, t, Z, l, e)
        BY <1>2, <2>1, <3>2
      <4> QED
        BY <1>2, <2>1, <3>1, <3>4, <4>1, <4>2, RanMore
    <3>5. CASE ~ l.ok
      <4>1. r = l
        BY <1>2, <2>1, <3>1, <3>2, <3>3, <3>5 DEF Goes
      <4> QED
        BY <3>5, <4>1 DEF Ran
    <3> QED
      BY <3>4, <3>5
  <2> QED
    BY <1>2, <2>1, <2>3, <2>4 DEF Singles
<1> QED
  BY <1>1, <1>2

\* A loop that a count bounds: it yields that many elements.
LEMMA CountedRan ==
  ASSUME NEW in \in Seq(Byte), NEW p \in Offsets(in), NEW n \in Nat, NEW step, NEW Z,
         DOMAIN step = Offsets(in), Singles(in, step, 0, Z),
         \A q \in Offsets(in) : step[q].ok => step[q].v # <<>>,
         NEW r, r = Rounds(step, n, p)
  PROVE  Ran(in, step, 0, Z, r, p) /\ (r.ok => Len(r.v) = n)
<1>1. Closed(step)
  BY DEF Closed, Singles, Offsets
<1>2. PICK R : /\ \A k \in 0 .. n : \A q \in DOMAIN step :
                    R[k][q] = round(step, n, R, k, q)
               /\ \A q : Rounds(step, n, q) = R[0][q]
  BY <1>1, RoundsAre
<1> DEFINE Good(k) == \A q \in Offsets(in) :
             Ran(in, step, 0, Z, R[k][q], q) /\ (R[k][q].ok => Len(R[k][q].v) = n - k)
           S == {k \in 0 .. n : Good(k)}
<1>3. Good(n)
  <2> SUFFICES ASSUME NEW q \in Offsets(in)
               PROVE  /\ Ran(in, step, 0, Z, R[n][q], q)
                      /\ R[n][q].ok => Len(R[n][q].v) = n - n
    OBVIOUS
  <2>1. R[n][q] = Ok(<<>>, q)
    <3>1. n \in 0 .. n
      OBVIOUS
    <3> QED
      BY <1>2, <3>1 DEF round
  <2>2. Ran(in, step, 0, Z, Ok(<<>>, q), q)
    <3>1. q + 0 <= q /\ 0 \in Nat
      BY DEF Offsets
    <3> QED
      BY <3>1, RanNothing
  <2>3. Ok(<<>>, q).v = <<>> /\ Len(<<>>) = 0 /\ n - n = 0
    BY OkIs
  <2> QED
    BY <2>1, <2>2, <2>3
<1>4. ASSUME NEW k \in 0 .. n, k # n, Good(k + 1)
      PROVE  Good(k)
  <2> SUFFICES ASSUME NEW q \in Offsets(in)
               PROVE  /\ Ran(in, step, 0, Z, R[k][q], q)
                      /\ R[k][q].ok => Len(R[k][q].v) = n - k
    OBVIOUS
  <2>1. Goes(R[k][q], step[q], R[k + 1])
    <3>1. R[k][q] = round(step, n, R, k, q)
      BY <1>2
    <3> QED
      BY <1>4, <3>1, RoundGoes
  <2>2. step[q].ok => step[q].pos \in Offsets(in)
    BY <1>1 DEF Closed
  <2>3. Ran(in, step, 0, Z, R[k][q], q)
    <3>1. 0 \in Nat
      OBVIOUS
    <3>2. step[q].ok => Ran(in, step, 0, Z, R[k + 1][step[q].pos], step[q].pos)
      BY <1>4, <2>2
    <3> HIDE DEF Good
    <3> QED
      BY <2>1, <3>1, <3>2, RanStep
  <2>4. ASSUME R[k][q].ok
        PROVE  Len(R[k][q].v) = n - k
    <3>1. step[q].ok /\ step[q].v # <<>>
      BY <2>1, <2>4 DEF Goes
    <3>2. PICK z \in Z : step[q].v = <<z>>
      BY <3>1 DEF Singles
    <3>3. PICK e \in Offsets(in) : e = step[q].pos
      BY <2>2, <3>1
    <3>4. R[k + 1][e].ok /\ R[k][q].v = <<z>> \o R[k + 1][e].v
      <4>1. CASE R[k + 1][e].ok
        <5>1. R[k][q] = Ok(<<z>> \o R[k + 1][e].v, R[k + 1][e].pos)
          BY <2>1, <3>1, <3>2, <3>3, <4>1 DEF Goes
        <5> QED
          BY <4>1, <5>1, OkIs
      <4>2. CASE ~ R[k + 1][e].ok
        <5>1. R[k][q] = R[k + 1][e]
          BY <2>1, <3>1, <3>2, <3>3, <4>2 DEF Goes
        <5> QED
          BY <2>4, <4>2, <5>1
      <4> QED
        BY <4>1, <4>2
    <3>5. PICK ys \in Seq(Z) : ys = R[k + 1][e].v /\ Len(ys) = n - (k + 1)
      <4>1. R[k + 1][e].v \in Seq(Z) /\ Len(R[k + 1][e].v) = n - (k + 1)
        BY <1>4, <3>4 DEF Ran
      <4> QED
        BY <4>1
    <3>6. Len(<<z>> \o ys) = 1 + Len(ys)
      OBVIOUS
    <3>7. n - k = 1 + (n - (k + 1))
      OBVIOUS
    <3> QED
      BY <3>4, <3>5, <3>6, <3>7
  <2> QED
    BY <2>3, <2>4
<1>5. \A k \in 0 .. n : k \in S
  <2>1. n \in S
    BY <1>3
  <2>2. \A k \in 0 .. n : k # n /\ k + 1 \in S => k \in S
    BY <1>4
  <2> HIDE DEF S
  <2> QED
    BY <2>1, <2>2, Downward
<1>6. Good(0)
  BY <1>5
<1>7. n - 0 = n
  OBVIOUS
<1> QED
  BY <1>2, <1>6, <1>7

\* A loop that a round ends.
LEMMA WholeRan ==
  ASSUME NEW in \in Seq(Byte), NEW p \in Offsets(in), NEW t \in Nat, NEW step, NEW Z,
         Taking(step, Len(in)), Singles(in, step, t, Z),
         NEW r, r = Rounds(step, Len(in) + 1, p)
  PROVE  Ran(in, step, t, Z, r, p)
<1>1. PICK N \in Nat : N = Len(in) /\ Offsets(in) = 0 .. N
  BY DEF Offsets
<1>2. PICK g : \A q \in 0 .. N :
                 g[q] = from(step, g, q) /\ Rounds(step, N + 1, q) = g[q]
  BY <1>1, WholeLoop
<1> DEFINE S == {q \in 0 .. N : Ran(in, step, t, Z, g[q], q)}
<1>3. ASSUME NEW q \in 0 .. N, \A e \in q + 1 .. N : e \in S
      PROVE  q \in S
  <2>1. q \in Offsets(in)
    BY <1>1
  <2>2. Goes(g[q], step[q], g)
    BY <1>2, FromGoes
  <2>3. CASE step[q].ok /\ step[q].v = <<>>
    <3>1. g[q] = Ok(<<>>, step[q].pos)
      BY <2>2, <2>3 DEF Goes
    <3>2. q + t <= step[q].pos /\ step[q].pos \in Offsets(in)
      <4>1. ~ \E z \in Z : step[q].v = <<z>>
        BY <2>3
      <4>2. /\ step[q].pos \in q .. Len(in)
            /\ q + t <= step[q].pos \/ \E z \in Z : step[q].v = <<z>>
        BY <2>1, <2>3 DEF Singles
      <4> QED
        BY <1>1, <4>1, <4>2
    <3>3. Ran(in, step, t, Z, g[q], q)
      BY <2>1, <3>1, <3>2, RanNothing
    <3> QED
      BY <3>3
  <2>4. CASE ~ (step[q].ok /\ step[q].v = <<>>)
    <3>1. step[q].ok => step[q].pos \in q + 1 .. N
      BY <1>1, <2>4 DEF Taking
    <3>2. step[q].ok => Ran(in, step, t, Z, g[step[q].pos], step[q].pos)
      BY <1>3, <3>1
    <3>3. Ran(in, step, t, Z, g[q], q)
      <4> HIDE DEF S
      <4> QED
        BY <2>1, <2>2, <3>2, RanStep
    <3> QED
      BY <3>3
  <2> QED
    BY <2>3, <2>4
<1>4. \A q \in 0 .. N : q \in S
  <2> HIDE DEF S
  <2> QED
    BY <1>3, FromLater
<1> QED
  BY <1>1, <1>2, <1>4

\* What the decoded parts of a Value are: one level down, I has them.
Typed(in, I, B) ==
  \A kind \in Kinds : \A q \in Offsets(in) :
    I[kind][q].ok => /\ I[kind][q].v \in B /\ I[kind][q].v[1] = kind
                     /\ I[kind][q].pos \in q .. Len(in)

Decoded(in, I, y) ==
  \E kind \in Kinds : \E q \in Offsets(in) : I[kind][q].ok /\ I[kind][q].v = y

\* The write w of y takes no more bytes than y was read from.
Kept(in, I, y, w) ==
  \A kind \in Kinds : \A q \in Offsets(in) :
    I[kind][q].ok /\ I[kind][q].v = y => Short(w, I[kind][q].pos - q)

Smaller(in, I, x, inner) == \A y \in Below(x) : Kept(in, I, y, inner[y])

\* The Value r.v read from p on can be written in the bytes it took.
Reencoded(f, in, I, d, B, r, p) ==
  /\ r.v \in ValueLevel(d, B)
  /\ \A y \in Below(r.v) : Decoded(in, I, y)
  /\ \A inner : Smaller(in, I, r.v, inner) => Short(write_payload(f, r.v, inner), r.pos - p)

LEMMA LeafNumber ==
  ASSUME NEW kind \in DOMAIN Size, NEW x, InRange(x, kind)
  PROVE  <<kind, x>> \in Leaves
<1>1. kind \in {"Byte", "Short", "Int", "Long", "Float", "Double"}
  BY SizesAre
<1>2. CASE kind = "Byte"
  BY <1>2 DEF InRange, Leaves
<1>3. CASE kind = "Short"
  BY <1>3 DEF InRange, Leaves
<1>4. CASE kind \in {"Int", "Long", "Float", "Double"}
  BY <1>4 DEF InRange, Leaves
<1> QED
  BY <1>1, <1>2, <1>3, <1>4

\* The numbers of a kind.
OfKind(kind) == {x \in Int32 : InRange(x, kind)}

LEMMA OfKindIs ==
  ASSUME NEW kind, NEW xs \in Seq(OfKind(kind))
  PROVE  /\ xs \in Seq(Int32) /\ xs \in Seq(Int) /\ Numbers(xs, kind)
         /\ kind = "Byte" => xs \in Seq(Int8)
<1>1. \A i \in 1 .. Len(xs) : xs[i] \in OfKind(kind)
  OBVIOUS
<1>2. \A i \in 1 .. Len(xs) : xs[i] \in Int32 /\ InRange(xs[i], kind)
  BY <1>1 DEF OfKind
<1>3. \A i \in 1 .. Len(xs) : xs[i] \in Int /\ (kind = "Byte" => xs[i] \in Int8)
  BY <1>2, IntRanges DEF InRange
<1>4. xs = [i \in 1 .. Len(xs) |-> xs[i]] /\ DOMAIN xs = 1 .. Len(xs)
  OBVIOUS
<1>5. xs \in Seq(Int32) /\ xs \in Seq(Int) /\ (kind = "Byte" => xs \in Seq(Int8))
  BY <1>2, <1>3, <1>4
<1> QED
  BY <1>2, <1>4, <1>5 DEF Numbers

LEMMA LeafArray ==
  ASSUME NEW kind \in DOMAIN Elem, NEW xs \in Seq(OfKind(Elem[kind]))
  PROVE  <<kind, xs>> \in Leaves
<1>1. kind \in {"ByteArray", "IntArray", "LongArray"} /\ (kind = "ByteArray" => Elem[kind] = "Byte")
  BY ElemSize
<1>2. xs \in Seq(Int32) /\ (kind = "ByteArray" => xs \in Seq(Int8))
  BY <1>1, OfKindIs
<1>3. CASE kind = "ByteArray"
  BY <1>2, <1>3 DEF Leaves
<1>4. CASE kind \in {"IntArray", "LongArray"}
  BY <1>2, <1>4 DEF Leaves
<1> QED
  BY <1>1, <1>3, <1>4

LEMMA NoneBelow ==
  ASSUME NEW x, x[1] # "List", x[1] # "Compound"
  PROVE  Below(x) = {}
<1>1. Children(x) = <<>>
  BY DEF Children
<1> QED
  BY <1>1 DEF Below

\* A Value with no parts.
LEMMA LeafReencoded ==
  ASSUME NEW f, NEW in, NEW I, NEW d, NEW B, NEW r, NEW p, r.v \in Leaves,
         r.v[1] # "List", r.v[1] # "Compound",
         \A inner : Short(write_payload(f, r.v, inner), r.pos - p)
  PROVE  Reencoded(f, in, I, d, B, r, p)
<1>1. Below(r.v) = {}
  BY NoneBelow
<1>2. r.v \in ValueLevel(d, B)
  BY DEF ValueLevel
<1> QED
  BY <1>1, <1>2 DEF Reencoded

LEMMA NumberPayloadBack ==
  ASSUME NEW f, NEW in \in Seq(Byte), NEW p \in Offsets(in), NEW kind \in DOMAIN Size,
         NEW I, NEW d, NEW B,
         NEW n, n = read_number(f, in, p, kind), n.ok, NEW r, r = Ok(<<kind, n.v>>, n.pos)
  PROVE  Reencoded(f, in, I, d, B, r, p)
<1>1. InRange(n.v, kind) /\ Short(Wrote(write_number(f, n.v, kind)), n.pos - p)
  BY NumberReencodes
<1>2. r.v = <<kind, n.v>> /\ r.pos = n.pos
  BY OkIs
<1>3. r.v \in Leaves
  BY <1>1, <1>2, LeafNumber
<1>4. kind # "End" /\ kind # "List" /\ kind # "Compound"
  BY SizesAre
<1>5. r.v[1] = kind /\ r.v[2] = n.v
  BY <1>2
<1>6. \A inner : write_payload(f, r.v, inner) = Wrote(write_number(f, n.v, kind))
  BY <1>4, <1>5 DEF write_payload
<1>7. \A inner : Short(write_payload(f, r.v, inner), r.pos - p)
  BY <1>1, <1>2, <1>6
<1> QED
  BY <1>3, <1>4, <1>5, <1>7, LeafReencoded

LEMMA StringPayloadBack ==
  ASSUME NEW f \in Formats, NEW in \in Seq(Byte), NEW p \in Offsets(in),
         NEW I, NEW d, NEW B,
         NEW s, s = read_string(f, in, p), s.ok, NEW r, r = Ok(<<"String", s.v>>, s.pos)
  PROVE  Reencoded(f, in, I, d, B, r, p)
<1>1. s.v \in ByteStrings /\ Short(write_string(f, s.v), s.pos - p)
  BY StringReencodes
<1>2. r.v = <<"String", s.v>> /\ r.pos = s.pos
  BY OkIs
<1>3. r.v \in Leaves
  <2>1. <<"String", s.v>> \in {"String"} \X ByteStrings
    BY <1>1
  <2> QED
    BY <1>2, <2>1 DEF Leaves
<1>4. "String" \notin DOMAIN Size /\ "String" \notin DOMAIN Elem
  BY SizesAre
<1>5. r.v[1] = "String" /\ r.v[2] = s.v
  BY <1>2
<1>6. \A inner : write_payload(f, r.v, inner) = write_string(f, s.v)
  BY <1>4, <1>5 DEF write_payload
<1>7. \A inner : Short(write_payload(f, r.v, inner), r.pos - p)
  BY <1>1, <1>2, <1>6
<1> QED
  BY <1>3, <1>5, <1>7, LeafReencoded

\* The two parts of a write, where what was read has a place between.
LEMMA ShortSpans ==
  ASSUME NEW a \in Int, NEW b \in Int, NEW c \in Int, NEW w, NEW rest,
         a <= b, b <= c, Short(w, b - a), Short(rest, c - b)
  PROVE  Short(AndThen(w, rest), c - a)
<1>1. PICK m \in Nat, k \in Nat : m = b - a /\ k = c - b
  <2>1. b - a \in Nat /\ c - b \in Nat
    OBVIOUS
  <2> QED
    BY <2>1
<1>2. Short(AndThen(w, rest), m + k)
  BY <1>1, ShortBoth
<1>3. m + k = c - a
  BY <1>1
<1> QED
  BY <1>2, <1>3

LEMMA NumbersBack ==
  ASSUME NEW f, NEW in \in Seq(Byte), NEW p \in Offsets(in), NEW kind \in DOMAIN Size,
         NEW n \in Nat, NEW r, r = decode_array(f, in, p, kind, n), r.ok
  PROVE  /\ r.pos \in p .. Len(in) /\ r.v \in Seq(OfKind(kind)) /\ Len(r.v) = n
         /\ Short(InOrder(NumberWrites(f, r.v, kind)), r.pos - p)
<1> DEFINE num(q) == read_number(f, in, q, kind)
           step == [q \in Offsets(in) |-> Then(num(q), LAMBDA x, e : Ok(<<x>>, e))]
<1>1. r = Rounds(step, n, p)
  BY DEF decode_array
<1>2. DOMAIN step = Offsets(in)
  OBVIOUS
<1>3. ASSUME NEW q \in Offsets(in), step[q].ok
      PROVE  num(q).ok /\ step[q].v = <<num(q).v>> /\ step[q].pos = num(q).pos
  <2>1. step[q] = IF num(q).ok THEN Ok(<<num(q).v>>, num(q).pos) ELSE num(q)
    BY DEF Then
  <2> HIDE DEF step, num
  <2> QED
    BY <1>3, <2>1, OkIs
<1> HIDE DEF step
<1>4. Singles(in, step, 0, OfKind(kind))
  <2> SUFFICES ASSUME NEW q \in Offsets(in), step[q].ok
               PROVE  /\ step[q].pos \in q .. Len(in)
                      /\ \E z \in OfKind(kind) : step[q].v = <<z>>
    BY DEF Singles
  <2>1. num(q).ok /\ step[q].v = <<num(q).v>> /\ step[q].pos = num(q).pos
    BY <1>3
  <2>2. num(q).pos \in q .. Len(in)
    BY <2>1, NumberYields DEF Yields
  <2>3. InRange(num(q).v, kind)
    BY <2>1, NumberReencodes
  <2>4. num(q).v \in OfKind(kind)
    BY <2>3 DEF OfKind, InRange
  <2> QED
    BY <2>1, <2>2, <2>4
<1>5. \A q \in Offsets(in) : step[q].ok => step[q].v # <<>>
  <2>1. \A z : <<z>> # <<>>
    OBVIOUS
  <2> HIDE DEF num
  <2> QED
    BY <1>3, <2>1
<1>6. Ran(in, step, 0, OfKind(kind), r, p) /\ Len(r.v) = n
  <2> HIDE DEF num
  <2> QED
    BY <1>1, <1>2, <1>4, <1>5, CountedRan
<1>7. PICK xs \in Seq(OfKind(kind)) : xs = r.v /\ Len(xs) = n
  BY <1>6 DEF Ran
<1>8. PICK W \in Seq(Writes) :
        /\ W = NumberWrites(f, xs, kind) /\ Len(W) = n
        /\ \A i \in 1 .. n : W[i] = Wrote(write_number(f, xs[i], kind))
  <2>1. Numbers(xs, kind)
    BY OfKindIs
  <2>2. DOMAIN xs = 1 .. n
    BY <1>7
  <2> QED
    BY <1>7, <2>1, <2>2, NumberWritesAre
<1>9. AllFit(in, step, xs, W)
  <2> SUFFICES ASSUME NEW i \in 1 .. n, NEW u \in Offsets(in),
                      step[u].ok, step[u].v = <<xs[i]>>
               PROVE  Short(W[i], step[u].pos - u)
    BY <1>7, <1>8 DEF AllFit, ShortOf
  <2>1. num(u).ok /\ <<num(u).v>> = <<xs[i]>> /\ step[u].pos = num(u).pos
    BY <1>3
  <2>2. num(u).v = xs[i]
    BY <2>1
  <2>3. Short(Wrote(write_number(f, num(u).v, kind)), num(u).pos - u)
    BY <2>1, NumberReencodes
  <2> QED
    BY <1>8, <2>1, <2>2, <2>3
<1> HIDE DEF num
<1>10. p + 0 = p
  BY DEF Offsets
<1>11. r.pos \in p .. Len(in) /\ Short(InOrder(W), r.pos - p)
  BY <1>6, <1>7, <1>9, <1>10 DEF Ran
<1> QED
  BY <1>7, <1>8, <1>11

LEMMA ArrayPayloadBack ==
  ASSUME NEW f, NEW in \in Seq(Byte), NEW p \in Offsets(in), NEW kind \in DOMAIN Elem,
         NEW I, NEW d, NEW B, NEW r, r = decode_array_payload(f, in, p, kind), r.ok
  PROVE  Reencoded(f, in, I, d, B, r, p)
<1> DEFINE l == read_array_length(f, in, p)
           t == IF kind = "ByteArray" THEN take(in, l.pos, l.v, 1) ELSE Ok(<<>>, l.pos)
           a == decode_array(f, in, l.pos, Elem[kind], l.v)
<1>1. r = IF ~ l.ok THEN l ELSE IF ~ t.ok THEN t
          ELSE IF a.ok THEN Ok(<<kind, a.v>>, a.pos) ELSE a
  BY DEF decode_array_payload, Then
<1> HIDE DEF l, t, a
<1>2. l.ok /\ a.ok /\ r = Ok(<<kind, a.v>>, a.pos)
  BY <1>1
<1>3. PICK n \in Nat, q \in Offsets(in) :
        n = l.v /\ q = l.pos /\ p <= q /\ Short(write_array_length(f, n), q - p)
  <2>1. l.v \in Nat /\ Short(write_array_length(f, l.v), l.pos - p)
    BY <1>2, ArrayLengthReencodes DEF l
  <2>2. l.pos \in p .. Len(in)
    BY ArrayLengthYields DEF l, Yields
  <2>3. l.pos \in Offsets(in) /\ p <= l.pos
    BY <2>2 DEF Offsets
  <2> QED
    BY <2>1, <2>3
<1>4. Elem[kind] \in DOMAIN Size
  BY ElemSize
<1>5. /\ a.pos \in q .. Len(in) /\ a.v \in Seq(OfKind(Elem[kind])) /\ Len(a.v) = n
      /\ Short(InOrder(NumberWrites(f, a.v, Elem[kind])), a.pos - q)
  BY <1>2, <1>3, <1>4, NumbersBack DEF a
<1>6. PICK xs \in Seq(OfKind(Elem[kind])), e \in q .. Len(in) : xs = a.v /\ e = a.pos
  BY <1>5
<1>7. Short(write_array(f, xs, Elem[kind]), e - p)
  <2>1. write_array(f, xs, Elem[kind]) =
          AndThen(write_array_length(f, n), InOrder(NumberWrites(f, xs, Elem[kind])))
    BY <1>5, <1>6 DEF write_array, NumberWrites
  <2>2. p \in Int /\ q \in Int /\ e \in Int /\ q <= e
    BY DEF Offsets
  <2> QED
    BY <1>3, <1>5, <1>6, <2>1, <2>2, ShortSpans
<1>8. r.v = <<kind, xs>> /\ r.pos = e
  BY <1>2, <1>6, OkIs
<1>9. r.v \in Leaves
  BY <1>8, LeafArray
<1>10. kind \notin DOMAIN Size /\ kind # "End" /\ kind # "List" /\ kind # "Compound"
  BY SizesAre
<1>11. r.v[1] = kind /\ r.v[2] = xs
  BY <1>8
<1>12. \A inner : write_payload(f, r.v, inner) = write_array(f, xs, Elem[kind])
  BY <1>10, <1>11 DEF write_payload
<1>13. \A inner : Short(write_payload(f, r.v, inner), r.pos - p)
  BY <1>7, <1>8, <1>12
<1> QED
  BY <1>9, <1>10, <1>11, <1>13, LeafReencoded

LEMMA KeptWrites ==
  ASSUME NEW in, NEW I, NEW y, NEW w, Decoded(in, I, y), Kept(in, I, y, w)
  PROVE  w \in Writes
BY DEF Decoded, Kept, Short

\* n elements of a kind, all parts of I's level, and how they may be written.
ElementsOf(in, I, B, kind, n, r, p) ==
  /\ r.pos \in p .. Len(in) /\ r.v \in Seq(B) /\ Len(r.v) = n
  /\ \A i \in 1 .. n : r.v[i][1] = kind /\ Decoded(in, I, r.v[i])
  /\ \A inner : (\A i \in 1 .. n : Kept(in, I, r.v[i], inner[r.v[i]])) =>
       Short(InOrder(ElementWrites(r.v, kind, inner)), r.pos - p)

\* The elements of a list, read with their tag.
LEMMA ElementsBack ==
  ASSUME NEW in \in Seq(Byte), NEW p \in Offsets(in), NEW I, NEW B, Typed(in, I, B),
         NEW kind \in Kinds, NEW n \in Nat,
         NEW r, r = decode_list(in, p, n, I[kind]), r.ok
  PROVE  ElementsOf(in, I, B, kind, n, r, p)
<1> DEFINE one(q) == I[kind][q]
           step == [q \in Offsets(in) |-> Then(one(q), LAMBDA x, e : Ok(<<x>>, e))]
           Z == {y \in B : y[1] = kind}
<1>1. r = Rounds(step, n, p)
  BY DEF decode_list
<1>2. DOMAIN step = Offsets(in)
  OBVIOUS
<1>3. ASSUME NEW q \in Offsets(in), step[q].ok
      PROVE  one(q).ok /\ step[q].v = <<one(q).v>> /\ step[q].pos = one(q).pos
  <2>1. step[q] = IF one(q).ok THEN Ok(<<one(q).v>>, one(q).pos) ELSE one(q)
    BY DEF Then
  <2> HIDE DEF step, one
  <2> QED
    BY <1>3, <2>1, OkIs
<1> HIDE DEF step
<1>4. ASSUME NEW q \in Offsets(in), one(q).ok
      PROVE  one(q).v \in Z /\ one(q).pos \in q .. Len(in)
  BY <1>4 DEF Typed
<1>5. Singles(in, step, 0, Z)
  <2> HIDE DEF one, Z
  <2> SUFFICES ASSUME NEW q \in Offsets(in), step[q].ok
               PROVE  /\ step[q].pos \in q .. Len(in)
                      /\ \E z \in Z : step[q].v = <<z>>
    BY DEF Singles
  <2>1. one(q).ok /\ step[q].v = <<one(q).v>> /\ step[q].pos = one(q).pos
    BY <1>3
  <2>2. one(q).v \in Z /\ one(q).pos \in q .. Len(in)
    BY <1>4, <2>1
  <2> QED
    BY <2>1, <2>2
<1>6. \A q \in Offsets(in) : step[q].ok => step[q].v # <<>>
  <2>1. \A z : <<z>> # <<>>
    OBVIOUS
  <2> HIDE DEF one
  <2> QED
    BY <1>3, <2>1
<1>7. Ran(in, step, 0, Z, r, p) /\ Len(r.v) = n
  <2> HIDE DEF one, Z
  <2> QED
    BY <1>1, <1>2, <1>5, <1>6, CountedRan
<1>8. PICK xs \in Seq(Z) : xs = r.v /\ Len(xs) = n /\ DOMAIN xs = 1 .. n
  <2> HIDE DEF Z
  <2>1. r.v \in Seq(Z)
    BY <1>7 DEF Ran
  <2> QED
    BY <1>7, <2>1
<1>9. \A i \in 1 .. n : xs[i] \in B /\ xs[i][1] = kind
  <2>1. \A i \in 1 .. n : xs[i] \in Z
    <3> HIDE DEF Z
    <3> QED
      BY <1>8
  <2> QED
    BY <2>1
<1>10. xs \in Seq(B)
  <2>1. xs = [i \in 1 .. n |-> xs[i]]
    <3> HIDE DEF Z
    <3> QED
      BY <1>8
  <2> QED
    BY <1>9, <2>1
<1> HIDE DEF Z
<1>11. ASSUME NEW i \in 1 .. n
       PROVE  Decoded(in, I, xs[i])
  <2>1. PICK u \in Offsets(in) : step[u].ok /\ step[u].v = <<xs[i]>>
    BY <1>7, <1>8 DEF Ran, Source
  <2>2. one(u).ok /\ <<one(u).v>> = <<xs[i]>>
    BY <1>3, <2>1
  <2>3. one(u).v = xs[i]
    BY <2>2
  <2> QED
    BY <2>2, <2>3 DEF Decoded
<1>12. ASSUME NEW inner, \A i \in 1 .. n : Kept(in, I, xs[i], inner[xs[i]])
       PROVE  Short(InOrder(ElementWrites(xs, kind, inner)), r.pos - p)
  <2>1. PICK W : W = ElementWrites(xs, kind, inner)
    OBVIOUS
  <2>2. DOMAIN W = 1 .. n /\ \A i \in 1 .. n : W[i] = inner[xs[i]]
    BY <1>8, <1>9, <2>1 DEF ElementWrites, write_element
  <2>3. \A i \in 1 .. n : W[i] \in Writes
    BY <1>11, <1>12, <2>2, KeptWrites
  <2>4. W \in Seq(Writes) /\ Len(W) = n
    <3>1. W = [i \in 1 .. n |-> W[i]]
      BY <1>8, <2>1, <2>2 DEF ElementWrites
    <3> QED
      BY <2>3, <3>1
  <2>5. AllFit(in, step, xs, W)
    <3> SUFFICES ASSUME NEW i \in 1 .. n, NEW u \in Offsets(in),
                        step[u].ok, step[u].v = <<xs[i]>>
                 PROVE  Short(W[i], step[u].pos - u)
      BY <1>8, <2>4 DEF AllFit, ShortOf
    <3>1. one(u).ok /\ <<one(u).v>> = <<xs[i]>> /\ step[u].pos = one(u).pos
      BY <1>3
    <3>2. one(u).v = xs[i]
      BY <3>1
    <3>3. Short(inner[xs[i]], one(u).pos - u)
      BY <1>12, <3>1, <3>2 DEF Kept
    <3> QED
      BY <2>2, <3>1, <3>3
  <2>6. p + 0 = p
    BY DEF Offsets
  <2> HIDE DEF one
  <2> QED
    BY <1>7, <1>8, <2>1, <2>4, <2>5, <2>6 DEF Ran
<1>13. r.pos \in p .. Len(in)
  <2>1. p + 0 = p
    BY DEF Offsets
  <2> HIDE DEF one
  <2> QED
    BY <1>7, <2>1 DEF Ran
<1> HIDE DEF one
<1> QED
  BY <1>8, <1>9, <1>10, <1>11, <1>12, <1>13 DEF ElementsOf

LEMMA ListBelow ==
  ASSUME NEW xs
  PROVE  Below(<<"List", xs>>) = {xs[i] : i \in DOMAIN xs}
<1>1. Children(<<"List", xs>>) = xs
  BY DEF Children
<1> QED
  BY <1>1 DEF Below

LEMMA TagShort ==
  ASSUME NEW kind \in Kinds \cup {"End"}
  PROVE  Short(Wrote(<<tag_byte(kind)>>), 1)
<1>1. <<tag_byte(kind)>> \in Seq(Byte)
  BY TagBytes
<1>2. Len(<<tag_byte(kind)>>) <= 1 /\ 1 \in Nat
  OBVIOUS
<1> QED
  BY <1>1, <1>2, ShortWrote

LEMMA ListPayloadBack ==
  ASSUME NEW f, NEW in \in Seq(Byte), NEW p \in Offsets(in),
         NEW I, NEW d, d # 0, NEW B, Typed(in, I, B),
         NEW r, r = decode_list_payload(f, in, p, I), r.ok
  PROVE  Reencoded(f, in, I, d, B, r, p)
<1> DEFINE t == read_tag_byte(in, p)
           l == read_array_length(f, in, t.pos)
           e == IF t.v = "End" THEN Ok(<<>>, l.pos) ELSE decode_list(in, l.pos, l.v, I[t.v])
<1>1. r = IF ~ t.ok THEN t ELSE IF ~ l.ok THEN l
          ELSE IF e.ok THEN Ok(<<"List", e.v>>, e.pos) ELSE e
  BY DEF decode_list_payload, Then
<1> HIDE DEF t, l, e
<1>2. t.ok /\ l.ok /\ e.ok /\ r = Ok(<<"List", e.v>>, e.pos)
  BY <1>1
<1>3. PICK N \in Nat : N = Len(in) /\ Offsets(in) = 0 .. N
  BY DEF Offsets
<1>4. PICK a \in Offsets(in), kind \in Kinds \cup {"End"} :
        a = t.pos /\ a = p + 1 /\ kind = t.v
  <2>1. t.pos \in p .. Len(in) /\ t.pos = p + 1 /\ (t.v = "End" \/ t.v \in Kinds)
    BY <1>2, TagByteYields DEF t, Yields
  <2>2. t.pos \in Offsets(in)
    BY <1>3, <2>1
  <2> QED
    BY <2>1, <2>2
<1>5. PICK n \in Nat, q \in Offsets(in) :
        /\ n = l.v /\ q = l.pos /\ a <= q
        /\ Short(write_array_length(f, n), q - a) /\ Short(write_array_length(f, 0), q - a)
  <2>1. l = read_array_length(f, in, a)
    BY <1>4 DEF l
  <2>2. /\ l.v \in Nat /\ Short(write_array_length(f, l.v), l.pos - a)
        /\ Short(write_array_length(f, 0), l.pos - a)
    BY <1>2, <2>1, ArrayLengthReencodes
  <2>3. l.pos \in a .. Len(in)
    BY <2>1, ArrayLengthYields DEF Yields
  <2>4. l.pos \in Offsets(in) /\ a <= l.pos
    BY <1>3, <2>3
  <2> QED
    BY <2>2, <2>4
<1>6. e = IF kind = "End" THEN Ok(<<>>, q) ELSE decode_list(in, q, n, I[kind])
  BY <1>4, <1>5 DEF e
<1>7. PICK xs \in Seq(B), m \in q .. N :
        /\ e.v = xs /\ e.pos = m
        /\ \A i \in DOMAIN xs : xs[i][1] = kind /\ Decoded(in, I, xs[i])
        /\ xs # <<>> => kind \in Kinds /\ Len(xs) = n
        /\ \A inner : Smaller(in, I, <<"List", xs>>, inner) /\ xs # <<>> =>
             Short(InOrder(ElementWrites(xs, kind, inner)), m - q)
  <2>1. CASE kind = "End"
    <3>1. e.v = <<>> /\ e.pos = q
      BY <1>6, <2>1, OkIs
    <3>2. q \in q .. N /\ <<>> \in Seq(B) /\ DOMAIN <<>> = {}
      BY <1>3
    <3> QED
      BY <3>1, <3>2
  <2>2. CASE kind # "End"
    <3>1. kind \in Kinds /\ e = decode_list(in, q, n, I[kind])
      BY <1>6, <2>2
    <3>0. PICK z : z = e /\ z.ok /\ z = decode_list(in, q, n, I[kind])
      BY <1>2, <3>1
    <3>2. ElementsOf(in, I, B, kind, n, z, q)
      BY <3>0, <3>1, ElementsBack
    <3>3. PICK xs \in Seq(B), m \in q .. N :
            xs = z.v /\ m = z.pos /\ xs = e.v /\ m = e.pos /\ DOMAIN xs = 1 .. n
      BY <1>3, <3>0, <3>2 DEF ElementsOf
    <3>4. \A inner : Smaller(in, I, <<"List", xs>>, inner) =>
            Short(InOrder(ElementWrites(xs, kind, inner)), m - q)
      <4> SUFFICES ASSUME NEW inner, Smaller(in, I, <<"List", xs>>, inner)
                   PROVE  Short(InOrder(ElementWrites(xs, kind, inner)), m - q)
        OBVIOUS
      <4>1. \A i \in 1 .. n : Kept(in, I, xs[i], inner[xs[i]])
        BY <3>3, ListBelow DEF Smaller
      <4> QED
        BY <3>2, <3>3, <4>1 DEF ElementsOf
    <3> QED
      BY <3>1, <3>2, <3>3, <3>4 DEF ElementsOf
  <2> QED
    BY <2>1, <2>2
<1>8. r.v = <<"List", xs>> /\ r.pos = m
  BY <1>2, <1>7, OkIs
<1>9. <<"List", xs>> \in ValueLevel(d, B)
  BY DEF ValueLevel
<1>10. \A y \in Below(<<"List", xs>>) : Decoded(in, I, y)
  BY <1>7, ListBelow
<1>11. ASSUME NEW inner, Smaller(in, I, <<"List", xs>>, inner)
       PROVE  Short(write_payload(f, <<"List", xs>>, inner), m - p)
  <2>1. PICK arm : arm = IF xs = <<>> THEN "End" ELSE xs[1][1]
    OBVIOUS
  <2>2. PICK h, g, b :
          /\ h = Wrote(<<tag_byte(arm)>>) /\ g = write_array_length(f, Len(xs))
          /\ b = InOrder(ElementWrites(xs, arm, inner))
    OBVIOUS
  <2>3. write_payload(f, <<"List", xs>>, inner) = AndThen(h, AndThen(g, b))
    <3>1. "List" \notin DOMAIN Size /\ "List" \notin DOMAIN Elem
      BY SizesAre
    <3>2. PICK x : x = <<"List", xs>> /\ x[1] = "List" /\ x[2] = xs
      <4>1. <<"List", xs>>[1] = "List" /\ <<"List", xs>>[2] = xs
        OBVIOUS
      <4> QED
        BY <4>1
    <3>3. write_payload(f, x, inner) = write_list(f, xs, inner)
      BY <3>1, <3>2 DEF write_payload
    <3>4. write_list(f, xs, inner) = AndThen(h, AndThen(g, b))
      BY <2>1, <2>2, Zenon DEF write_list, ElementWrites
    <3> QED
      BY <3>2, <3>3, <3>4
  <2>4. /\ p \in Int /\ a \in Int /\ q \in Int /\ m \in Int
        /\ p <= a /\ a <= q /\ q <= m /\ a - p = 1
    BY <1>3, <1>4, <1>5
  <2>5. Short(h, a - p) /\ Short(g, q - a) /\ Short(b, m - q)
    <3>1. CASE xs = <<>>
      <4>1. arm = "End" /\ Len(xs) = 0
        BY <2>1, <3>1
      <4>2. PICK W : W = ElementWrites(xs, arm, inner) /\ W = <<>>
        BY <3>1 DEF ElementWrites
      <4>3. b = Wrote(<<>>)
        <5>1. W \in Seq(Writes) /\ Len(W) = 0
          BY <4>2
        <5> QED
          BY <2>2, <4>2, <5>1, InOrderNothing
      <4>4. Short(b, m - q)
        <5>1. PICK k \in Nat : k = m - q
          BY <2>4
        <5>2. <<>> \in Seq(Byte) /\ Len(<<>>) <= k
          BY NoBytes
        <5> QED
          BY <4>3, <5>1, <5>2, ShortWrote
      <4> QED
        BY <1>5, <2>2, <2>4, <4>1, <4>4, TagShort
    <3>2. CASE xs # <<>>
      <4>1. 1 \in DOMAIN xs
        BY <3>2
      <4>2. arm = kind /\ kind \in Kinds /\ Len(xs) = n
        BY <1>7, <2>1, <3>2, <4>1
      <4> QED
        BY <1>5, <1>7, <1>11, <2>2, <2>4, <3>2, <4>2, TagShort
    <3> QED
      BY <3>1, <3>2
  <2>6. Short(AndThen(g, b), m - a)
    BY <2>4, <2>5, ShortSpans
  <2>7. a <= m
    BY <2>4
  <2> QED
    BY <2>3, <2>4, <2>5, <2>6, <2>7, ShortSpans
<1> QED
  BY <1>8, <1>9, <1>10, <1>11 DEF Reencoded

\* One entry of a compound, and how it may be written; or the compound's end.
EntryOf(f, in, I, B, name, y, r, p) ==
  /\ name \in ByteStrings /\ y \in B /\ r.v = << <<name, y>> >> /\ Decoded(in, I, y)
  /\ \A inner : Kept(in, I, y, inner[y]) => Short(write_child(f, name, y, inner), r.pos - p)

LEMMA EntryBack ==
  ASSUME NEW f \in Formats, NEW in \in Seq(Byte), NEW p \in Offsets(in),
         NEW I, NEW B, Typed(in, I, B),
         NEW r, r = decode_entry(f, in, p, I), r.ok
  PROVE  /\ r.pos \in p .. Len(in)
         /\ \/ r.v = <<>> /\ p + 1 <= r.pos
            \/ \E name, y : EntryOf(f, in, I, B, name, y, r, p)
<1> DEFINE t == read_tag_byte(in, p)
           nm == read_string(f, in, t.pos)
           x == I[t.v][nm.pos]
<1>1. r = IF ~ t.ok THEN t ELSE IF t.v = "End" THEN Ok(<<>>, t.pos)
          ELSE IF ~ nm.ok THEN nm
          ELSE IF x.ok THEN Ok(<< <<nm.v, x.v>> >>, x.pos) ELSE x
  BY DEF decode_entry, Then
<1> HIDE DEF t, nm, x
<1>2. t.ok
  BY <1>1
<1>3. PICK N \in Nat : N = Len(in) /\ Offsets(in) = 0 .. N
  BY DEF Offsets
<1>4. PICK a \in Offsets(in) : a = t.pos /\ a = p + 1 /\ (t.v = "End" \/ t.v \in Kinds)
  <2>1. t.pos \in p .. Len(in) /\ t.pos = p + 1 /\ (t.v = "End" \/ t.v \in Kinds)
    BY <1>2, TagByteYields DEF t, Yields
  <2>2. t.pos \in Offsets(in)
    BY <1>3, <2>1
  <2> QED
    BY <2>1, <2>2
<1>5. CASE t.v = "End"
  <2>1. r.v = <<>> /\ r.pos = a
    BY <1>1, <1>2, <1>4, <1>5, OkIs
  <2>2. a \in p .. Len(in) /\ p + 1 <= a
    BY <1>3, <1>4
  <2> QED
    BY <2>1, <2>2
<1>6. CASE t.v # "End"
  <2>1. nm.ok /\ x.ok /\ r = Ok(<< <<nm.v, x.v>> >>, x.pos)
    BY <1>1, <1>2, <1>6
  <2>2. PICK kind \in Kinds : kind = t.v
    BY <1>4, <1>6
  <2>3. PICK name \in ByteStrings, q \in Offsets(in) :
          name = nm.v /\ q = nm.pos /\ a <= q /\ Short(write_string(f, name), q - a)
    <3>1. nm = read_string(f, in, a)
      BY <1>4 DEF nm
    <3>2. nm.v \in ByteStrings /\ Short(write_string(f, nm.v), nm.pos - a)
      BY <2>1, <3>1, StringReencodes
    <3>3. nm.pos \in a .. Len(in)
      BY <3>1, StringSkipped DEF Same, Yields
    <3>4. nm.pos \in Offsets(in) /\ a <= nm.pos
      BY <1>3, <3>3
    <3> QED
      BY <3>2, <3>4
  <2>4. x = I[kind][q]
    BY <2>2, <2>3 DEF x
  <2>5. x.v \in B /\ x.v[1] = kind /\ x.pos \in q .. Len(in)
    BY <2>1, <2>4 DEF Typed
  <2>6. PICK y \in B, m \in q .. N : y = x.v /\ y[1] = kind /\ m = x.pos
    BY <1>3, <2>5
  <2>7. r.v = << <<name, y>> >> /\ r.pos = m
    BY <2>1, <2>3, <2>6, OkIs
  <2>8. Decoded(in, I, y)
    BY <2>1, <2>4, <2>6 DEF Decoded
  <2>9. /\ p \in Int /\ a \in Int /\ q \in Int /\ m \in Int
        /\ p <= a /\ a <= q /\ q <= m /\ a <= m /\ a - p = 1
    BY <1>3, <1>4, <2>3, <2>6
  <2>10. ASSUME NEW inner, Kept(in, I, y, inner[y])
         PROVE  Short(write_child(f, name, y, inner), m - p)
    <3>1. PICK h, g, b : /\ h = Wrote(<<tag_byte(kind)>>) /\ g = write_string(f, name)
                         /\ b = inner[y]
      OBVIOUS
    <3>2. write_child(f, name, y, inner) = AndThen(h, AndThen(g, b))
      BY <2>6, <3>1 DEF write_child
    <3>3. Short(b, m - q)
      BY <2>1, <2>4, <2>6, <2>10, <3>1 DEF Kept
    <3>4. Short(g, q - a)
      BY <2>3, <3>1
    <3>5. Short(h, a - p)
      BY <2>9, <3>1, TagShort
    <3>6. Short(AndThen(g, b), m - a)
      BY <2>9, <3>3, <3>4, ShortSpans
    <3>7. Short(AndThen(h, AndThen(g, b)), m - p)
      BY <2>9, <3>5, <3>6, ShortSpans
    <3> QED
      BY <3>2, <3>7
  <2>11. EntryOf(f, in, I, B, name, y, r, p)
    BY <2>7, <2>8, <2>10 DEF EntryOf
  <2>12. m \in p .. Len(in)
    BY <1>3, <2>9
  <2> QED
    BY <2>7, <2>11, <2>12
<1> QED
  BY <1>5, <1>6

LEMMA CompoundBelow ==
  ASSUME NEW cs
  PROVE  Below(<<"Compound", cs>>) = {cs[i][2] : i \in DOMAIN cs}
<1>1. Children(<<"Compound", cs>>) = [i \in DOMAIN cs |-> cs[i][2]]
  BY DEF Children
<1> QED
  BY <1>1 DEF Below

LEMMA CompoundPayloadBack ==
  ASSUME NEW f \in Formats, NEW in \in Seq(Byte), NEW p \in Offsets(in),
         NEW I, NEW J, Agree(f, in, I, J),
         NEW d, d # 0, NEW B, Typed(in, I, B),
         NEW c, c = decode_compound(f, in, p, I), c.ok,
         NEW r, r = Ok(<<"Compound", c.v>>, c.pos)
  PROVE  Reencoded(f, in, I, d, B, r, p)
<1>1. PICK step : step = [q \in Offsets(in) |-> decode_entry(f, in, q, I)]
  OBVIOUS
<1>2. c = Rounds(step, Len(in) + 1, p)
  BY <1>1, Zenon DEF decode_compound
<1>3. Taking(step, Len(in))
  BY <1>1, CompoundTaking
<1>4. PICK Z : Z = ByteStrings \X B
  OBVIOUS
<1>5. ASSUME NEW q \in Offsets(in), step[q].ok
      PROVE  /\ step[q].pos \in q .. Len(in)
             /\ \/ step[q].v = <<>> /\ q + 1 <= step[q].pos
                \/ \E name, y : EntryOf(f, in, I, B, name, y, step[q], q)
  <2>1. step[q] = decode_entry(f, in, q, I)
    BY <1>1
  <2> QED
    BY <1>5, <2>1, EntryBack
<1>6. Singles(in, step, 1, Z)
  <2> SUFFICES ASSUME NEW q \in Offsets(in), step[q].ok
               PROVE  /\ step[q].pos \in q .. Len(in)
                      /\ \/ step[q].v = <<>> /\ q + 1 <= step[q].pos
                         \/ \E z \in Z : step[q].v = <<z>>
    BY DEF Singles
  <2>1. CASE \E name, y : EntryOf(f, in, I, B, name, y, step[q], q)
    <3>1. PICK name, y : EntryOf(f, in, I, B, name, y, step[q], q)
      BY <2>1
    <3>2. <<name, y>> \in Z /\ step[q].v = << <<name, y>> >>
      BY <1>4, <3>1 DEF EntryOf
    <3> QED
      BY <1>5, <3>2
  <2> QED
    BY <1>5, <2>1
<1>7. Ran(in, step, 1, Z, c, p)
  BY <1>2, <1>3, <1>6, WholeRan
<1>8. PICK N \in Nat : N = Len(in) /\ p \in 0 .. N
  BY DEF Offsets
<1>9. PICK cs \in Seq(Z), m \in p + 1 .. N, n \in Nat :
        cs = c.v /\ m = c.pos /\ n = Len(cs) /\ DOMAIN cs = 1 .. n
  <2>1. c.v \in Seq(Z) /\ c.pos \in p + 1 .. Len(in)
    BY <1>7 DEF Ran
  <2> QED
    BY <1>8, <2>1
<1>10. ASSUME NEW i \in 1 .. n
       PROVE  /\ cs[i] = <<cs[i][1], cs[i][2]>> /\ cs[i][1] \in ByteStrings
              /\ Decoded(in, I, cs[i][2])
  <2>1. cs[i] \in ByteStrings \X B
    BY <1>4, <1>9
  <2>2. PICK u \in Offsets(in) : step[u].ok /\ step[u].v = <<cs[i]>>
    BY <1>7, <1>9 DEF Ran, Source
  <2>3. PICK name, y : EntryOf(f, in, I, B, name, y, step[u], u)
    <3>1. <<cs[i]>> # <<>>
      OBVIOUS
    <3> QED
      BY <1>5, <2>2, <3>1
  <2>4. cs[i] = <<name, y>> /\ Decoded(in, I, y)
    <3>1. << <<name, y>> >> = <<cs[i]>>
      BY <2>2, <2>3 DEF EntryOf
    <3> QED
      BY <2>3, <3>1 DEF EntryOf
  <2> QED
    BY <2>1, <2>4
<1>11. ASSUME NEW inner, NEW i \in 1 .. n, Kept(in, I, cs[i][2], inner[cs[i][2]]),
              NEW u \in Offsets(in), step[u].ok, step[u].v = <<cs[i]>>
       PROVE  Short(write_child(f, cs[i][1], cs[i][2], inner), step[u].pos - u)
  <2>1. PICK name, y : EntryOf(f, in, I, B, name, y, step[u], u)
    <3>1. <<cs[i]>> # <<>>
      OBVIOUS
    <3> QED
      BY <1>5, <1>11, <3>1
  <2>2. cs[i] = <<name, y>>
    <3>1. << <<name, y>> >> = <<cs[i]>>
      BY <1>11, <2>1 DEF EntryOf
    <3> QED
      BY <3>1
  <2>3. cs[i][1] = name /\ cs[i][2] = y
    BY <2>2
  <2> QED
    BY <1>11, <2>1, <2>3 DEF EntryOf
<1>12. r.v = <<"Compound", cs>> /\ r.pos = m
  BY <1>9, OkIs
<1>13. <<"Compound", cs>> \in ValueLevel(d, B)
  BY <1>4, <1>9 DEF ValueLevel
<1>14. \A y \in Below(<<"Compound", cs>>) : Decoded(in, I, y)
  BY <1>9, <1>10, CompoundBelow
<1>15. ASSUME NEW inner, Smaller(in, I, <<"Compound", cs>>, inner)
       PROVE  Short(write_payload(f, <<"Compound", cs>>, inner), m - p)
  <2>1. \A i \in 1 .. n : Kept(in, I, cs[i][2], inner[cs[i][2]])
    BY <1>9, <1>15, CompoundBelow DEF Smaller
  <2>2. PICK W : W = EntryWrites(f, cs, inner)
    OBVIOUS
  <2>3. W = [i \in 1 .. n |-> W[i]] /\ \A i \in 1 .. n : W[i] = write_child(f, cs[i][1], cs[i][2], inner)
    BY <1>9, <2>2 DEF EntryWrites
  <2>4. \A i \in 1 .. n : W[i] \in Writes
    <3> SUFFICES ASSUME NEW i \in 1 .. n PROVE W[i] \in Writes
      OBVIOUS
    <3>1. PICK u \in Offsets(in) : step[u].ok /\ step[u].v = <<cs[i]>>
      BY <1>7, <1>9 DEF Ran, Source
    <3>2. Short(W[i], step[u].pos - u)
      BY <1>11, <2>1, <2>3, <3>1
    <3> QED
      BY <3>2 DEF Short
  <2>5. W \in Seq(Writes) /\ Len(W) = n
    BY <2>3, <2>4, EachIn
  <2>6. AllFit(in, step, cs, W)
    <3> SUFFICES ASSUME NEW i \in 1 .. n, NEW u \in Offsets(in),
                        step[u].ok, step[u].v = <<cs[i]>>
                 PROVE  Short(W[i], step[u].pos - u)
      BY <1>9, <2>5 DEF AllFit, ShortOf
    <3> QED
      BY <1>11, <2>1, <2>3
  <2>7. Short(InOrder(W), m - (p + 1))
    BY <1>7, <1>9, <2>5, <2>6 DEF Ran
  <2>8. PICK b, e : b = InOrder(W) /\ e = Wrote(<< 0 >>)
    OBVIOUS
  <2>9. write_payload(f, <<"Compound", cs>>, inner) = AndThen(b, e)
    <3>1. "Compound" \notin DOMAIN Size /\ "Compound" \notin DOMAIN Elem
      BY SizesAre
    <3>2. PICK x : x = <<"Compound", cs>> /\ x[1] = "Compound" /\ x[2] = cs
      <4>1. <<"Compound", cs>>[1] = "Compound" /\ <<"Compound", cs>>[2] = cs
        OBVIOUS
      <4> QED
        BY <4>1
    <3>3. write_payload(f, x, inner) = write_compound(f, cs, inner)
      BY <3>1, <3>2 DEF write_payload
    <3>4. write_compound(f, cs, inner) = AndThen(b, e)
      BY <2>2, <2>8, Zenon DEF write_compound, EntryWrites
    <3> QED
      BY <3>2, <3>3, <3>4
  <2>10. Short(e, 1)
    <3>1. 0 \in Byte
      BY DEF Byte
    <3>2. << 0 >> \in Seq(Byte) /\ Len(<< 0 >>) <= 1 /\ 1 \in Nat
      BY <3>1, OneByte
    <3> QED
      BY <2>8, <3>2, ShortWrote
  <2>11. PICK k \in Nat : k = m - (p + 1) /\ k + 1 = m - p
    BY <1>8, <1>9
  <2>12. Short(AndThen(b, e), k + 1)
    <3>1. Short(b, k) /\ 1 \in Nat
      BY <2>7, <2>8, <2>11
    <3> QED
      BY <2>10, <3>1, ShortBoth
  <2> QED
    BY <2>9, <2>11, <2>12
<1> QED
  BY <1>12, <1>13, <1>14, <1>15 DEF Reencoded

\* A payload of any tag.
LEMMA PayloadBack ==
  ASSUME NEW f \in Formats, NEW in \in Seq(Byte), NEW p \in Offsets(in), NEW kind \in Kinds,
         NEW left, NEW I, NEW J, left # 0 => Agree(f, in, I, J),
         NEW d, d # 0, NEW B, left # 0 => Typed(in, I, B),
         NEW r, r = decode_payload(f, in, p, kind, left, I), r.ok
  PROVE  left # 0 /\ Reencoded(f, in, I, d, B, r, p)
<1>1. left # 0
  <2>1. CASE left = 0
    <3>1. r = Err("LimitExceeded", p)
      BY <2>1 DEF decode_payload
    <3>2. r.ok = FALSE
      BY <3>1 DEF Err
    <3> QED
      BY <3>2
  <2> QED
    BY <2>1
<1>2. CASE kind \in DOMAIN Size
  <2>1. PICK n : n = read_number(f, in, p, kind)
    OBVIOUS
  <2>2. r = IF n.ok THEN Ok(<<kind, n.v>>, n.pos) ELSE n
    BY <1>1, <1>2, <2>1 DEF decode_payload, Then
  <2>3. n.ok /\ r = Ok(<<kind, n.v>>, n.pos)
    BY <2>2
  <2> QED
    BY <1>1, <1>2, <2>1, <2>3, NumberPayloadBack
<1>3. CASE kind \notin DOMAIN Size /\ kind \in DOMAIN Elem
  <2>1. r = decode_array_payload(f, in, p, kind)
    BY <1>1, <1>3 DEF decode_payload
  <2> QED
    BY <1>1, <1>3, <2>1, ArrayPayloadBack
<1>4. CASE kind \notin DOMAIN Size /\ kind \notin DOMAIN Elem /\ kind = "String"
  <2>1. PICK s : s = read_string(f, in, p)
    OBVIOUS
  <2>2. r = IF s.ok THEN Ok(<<"String", s.v>>, s.pos) ELSE s
    BY <1>1, <1>4, <2>1 DEF decode_payload, Then
  <2>3. s.ok /\ r = Ok(<<"String", s.v>>, s.pos)
    BY <2>2
  <2> QED
    BY <1>1, <2>1, <2>3, StringPayloadBack
<1>5. CASE /\ kind \notin DOMAIN Size /\ kind \notin DOMAIN Elem /\ kind # "String"
           /\ kind = "List"
  <2>1. r = decode_list_payload(f, in, p, I)
    BY <1>1, <1>5 DEF decode_payload
  <2> QED
    BY <1>1, <2>1, ListPayloadBack
<1>6. CASE /\ kind \notin DOMAIN Size /\ kind \notin DOMAIN Elem /\ kind # "String"
           /\ kind # "List" /\ kind = "Compound"
  <2>1. PICK c : c = decode_compound(f, in, p, I)
    OBVIOUS
  <2>2. r = IF c.ok THEN Ok(<<"Compound", c.v>>, c.pos) ELSE c
    BY <1>1, <1>6, <2>1 DEF decode_payload, Then
  <2>3. c.ok /\ r = Ok(<<"Compound", c.v>>, c.pos)
    BY <2>2
  <2> QED
    BY <1>1, <2>1, <2>3, CompoundPayloadBack
<1> QED
  BY <1>2, <1>3, <1>4, <1>5, <1>6, KindCases

\* What the levels D yield: the values of B, which can be written again.
DecodedIn(f, in, n, D, B) ==
  \A left \in 0 .. n : \A kind \in Kinds : \A p \in Offsets(in) :
    D[left][kind][p].ok =>
      /\ left # 0
      /\ D[left][kind][p].v \in B[left] /\ D[left][kind][p].v[1] = kind
      /\ D[left][kind][p].pos \in p .. Len(in)
      /\ Reencoded(f, in, D[left - 1], left, B[left - 1], D[left][kind][p], p)

LEMMA LevelsBack ==
  ASSUME NEW f \in Formats, NEW in \in Seq(Byte)
  PROVE  \E D, B : /\ DecodedIn(f, in, kMaxDecodeDepth, D, B)
                   /\ decode_payloads(f, in) = D[kMaxDecodeDepth]
                   /\ Values(kMaxDecodeDepth) = B[kMaxDecodeDepth]
<1>1. PICK K \in Nat : K = kMaxDecodeDepth
  BY DepthAssumption
<1>2. PICK D, S : /\ \A k \in 0 .. K : Leveled(f, in, D, S, k)
                  /\ decode_payloads(f, in) = D[K]
  BY <1>1, LevelsAgree
<1>3. PICK B : /\ \A d \in 0 .. K : B[d] = ValueLevel(d, B[d - 1])
               /\ Values(K) = B[K]
  BY <1>1, ValuesAre
<1>4. ASSUME NEW left \in 0 .. K, left # 0 => Typed(in, D[left - 1], B[left - 1]),
             NEW kind \in Kinds, NEW p \in Offsets(in), D[left][kind][p].ok
      PROVE  /\ left # 0
             /\ D[left][kind][p].v \in B[left] /\ D[left][kind][p].v[1] = kind
             /\ D[left][kind][p].pos \in p .. Len(in)
             /\ Reencoded(f, in, D[left - 1], left, B[left - 1], D[left][kind][p], p)
  <2>1. PICK r, I, J, C : /\ r = D[left][kind][p] /\ I = D[left - 1] /\ J = S[left - 1]
                          /\ C = B[left - 1]
    OBVIOUS
  <2>2. r = decode_payload(f, in, p, kind, left, I) /\ r.ok
    BY <1>2, <1>4, <2>1 DEF Leveled
  <2>3. left # 0 => Agree(f, in, I, J)
    <3>1. left # 0 => left - 1 \in 0 .. K
      OBVIOUS
    <3> QED
      BY <1>2, <2>1, <3>1 DEF Leveled
  <2>4. left # 0 => Typed(in, I, C)
    BY <1>4, <2>1
  <2>5. \A d : d # 0 => left # 0 /\ Reencoded(f, in, I, d, C, r, p)
    BY <2>2, <2>3, <2>4, PayloadBack
  <2>6. left # 0
    <3>1. 1 # 0
      OBVIOUS
    <3> QED
      BY <2>5, <3>1
  <2>7. Reencoded(f, in, I, left, C, r, p)
    BY <2>5, <2>6
  <2>8. r.v \in B[left]
    BY <1>3, <2>1, <2>7 DEF Reencoded
  <2>9. r.v[1] = kind /\ r.pos \in p .. Len(in)
    BY <1>2, <1>4, <2>1 DEF Leveled, Agree, Same, Yields
  <2> QED
    BY <2>1, <2>6, <2>7, <2>8, <2>9
<1>5. ASSUME NEW left \in 0 .. K, left # 0 => Typed(in, D[left - 1], B[left - 1])
      PROVE  Typed(in, D[left], B[left])
  BY <1>4, <1>5 DEF Typed
<1> DEFINE T == {k \in 0 .. K : Typed(in, D[K - k], B[K - k])}
<1>6. \A k \in 0 .. K : k \in T
  <2>1. K \in T
    <3>1. 0 \in 0 .. K /\ K - K = 0 /\ K \in 0 .. K
      OBVIOUS
    <3>2. Typed(in, D[0], B[0])
      BY <1>5, <3>1
    <3> QED
      BY <3>1, <3>2
  <2>2. ASSUME NEW k \in 0 .. K, k # K, k + 1 \in T
        PROVE  k \in T
    <3>1. PICK left \in 0 .. K : left = K - k /\ left - 1 = K - (k + 1)
      OBVIOUS
    <3>2. Typed(in, D[left - 1], B[left - 1])
      BY <2>2, <3>1
    <3>3. Typed(in, D[left], B[left])
      BY <1>5, <3>2
    <3> QED
      BY <3>1, <3>3
  <2> HIDE DEF T
  <2> QED
    BY <2>1, <2>2, Downward
<1>7. ASSUME NEW left \in 0 .. K, left # 0
      PROVE  Typed(in, D[left - 1], B[left - 1])
  <2>1. PICK k \in 0 .. K : K - k = left - 1
    <3>1. K - (left - 1) \in 0 .. K /\ K - (K - (left - 1)) = left - 1
      BY <1>7
    <3> QED
      BY <3>1
  <2>2. k \in T
    BY <1>6
  <2> QED
    BY <2>1, <2>2
<1> HIDE DEF T
<1>8. DecodedIn(f, in, K, D, B)
  BY <1>4, <1>7 DEF DecodedIn
<1> QED
  BY <1>1, <1>2, <1>3, <1>8

\* The parts of a decoded Value are decoded, each on its level.
LEMMA PartsDecoded ==
  ASSUME NEW f, NEW in \in Seq(Byte), NEW n \in Nat, NEW D, NEW B, DecodedIn(f, in, n, D, B),
         NEW v, Decoded(in, D[n], v)
  PROVE  \A d \in 0 .. n : \A y \in Nested(v)[d] : Decoded(in, D[n - d], y)
<1> DEFINE Part1(d) == \A y \in Nested(v)[d] : Decoded(in, D[n - d], y)
           T == {k \in 0 .. n : Part1(n - k)}
<1>1. n \in T
  <2>1. n - n = 0 /\ n - 0 = n /\ n \in 0 .. n
    OBVIOUS
  <2>2. \A y \in Nested(v)[0] : y = v
    BY NestedAre
  <2>3. Part1(0)
    BY <2>1, <2>2
  <2> HIDE DEF Part1
  <2> QED
    BY <2>1, <2>3
<1>2. ASSUME NEW k \in 0 .. n, k # n, k + 1 \in T
      PROVE  k \in T
  <2>1. PICK d \in 0 .. n, left \in 0 .. n :
          /\ d = n - (k + 1) /\ d + 1 = n - k /\ left = n - d /\ left - 1 = n - (d + 1)
    <3>1. n - (k + 1) \in 0 .. n /\ k + 1 \in 0 .. n
      BY <1>2
    <3> QED
      BY <3>1
  <2>2. Part1(d)
    BY <1>2, <2>1
  <2>3. ASSUME NEW y \in Nested(v)[d + 1]
        PROVE  Decoded(in, D[left - 1], y)
    <3>1. PICK x \in Nested(v)[d] : y \in Below(x)
      <4>1. d \in Nat
        OBVIOUS
      <4>2. Nested(v)[d + 1] = UNION {Below(x) : x \in Nested(v)[d]}
        BY <4>1, NestedAre
      <4> QED
        BY <2>3, <4>2
    <3>2. Decoded(in, D[left], x)
      BY <2>1, <2>2
    <3>3. PICK kind \in Kinds, q \in Offsets(in) : D[left][kind][q].ok /\ D[left][kind][q].v = x
      BY <3>2 DEF Decoded
    <3>4. Reencoded(f, in, D[left - 1], left, B[left - 1], D[left][kind][q], q)
      BY <3>3 DEF DecodedIn
    <3> QED
      BY <3>1, <3>3, <3>4 DEF Reencoded
  <2>4. Part1(d + 1)
    BY <2>1, <2>3
  <2> HIDE DEF Part1
  <2> QED
    BY <2>1, <2>4
<1>3. \A k \in 0 .. n : k \in T
  <2> HIDE DEF T
  <2> QED
    BY <1>1, <1>2, Downward
<1>4. ASSUME NEW d \in 0 .. n
      PROVE  Part1(d)
  <2>1. n - d \in 0 .. n /\ n - (n - d) = d
    OBVIOUS
  <2>2. n - d \in T
    BY <1>3, <2>1
  <2> HIDE DEF Part1
  <2> QED
    BY <2>1, <2>2
<1> QED
  BY <1>4

\* A decoded Value, and how it may be written.
ValueOf(f, in, kind, r, p) ==
  /\ r.v \in Values(kMaxDecodeDepth) /\ r.v[1] = kind /\ r.pos \in p .. Len(in)
  /\ Proper(r.v) /\ Nested(r.v)[kMaxDecodeDepth] = {}
  /\ Short(write_value(f, r.v), r.pos - p)

LEMMA ValueBack ==
  ASSUME NEW f \in Formats, NEW in \in Seq(Byte), NEW p \in Offsets(in), NEW kind \in Kinds,
         NEW r, r = decode_payloads(f, in)[kind][p], r.ok
  PROVE  ValueOf(f, in, kind, r, p)
<1>1. PICK K \in Nat : K = kMaxDecodeDepth
  BY DepthAssumption
<1>2. PICK D, B : /\ DecodedIn(f, in, K, D, B)
                  /\ decode_payloads(f, in) = D[K] /\ Values(K) = B[K]
  BY <1>1, LevelsBack
<1>3. PICK v : v = r.v
  OBVIOUS
<1>4. K # 0 /\ v \in Values(K) /\ v[1] = kind /\ r.pos \in p .. Len(in)
  <2>1. K \in 0 .. K
    OBVIOUS
  <2> QED
    BY <1>2, <1>3, <2>1 DEF DecodedIn
<1>5. Decoded(in, D[K], v)
  BY <1>2, <1>3 DEF Decoded
<1>6. \A d \in 0 .. K : \A y \in Nested(v)[d] : Decoded(in, D[K - d], y)
  BY <1>2, <1>5, PartsDecoded
<1>7. Nested(v)[K] = {}
  <2> SUFFICES ASSUME NEW y \in Nested(v)[K] PROVE FALSE
    OBVIOUS
  <2>1. K \in 0 .. K /\ K - K = 0 /\ 0 \in 0 .. K
    OBVIOUS
  <2>2. Decoded(in, D[0], y)
    BY <1>6, <2>1
  <2> QED
    BY <1>2, <2>1, <2>2 DEF Decoded, DecodedIn
<1>8. PICK n \in Nat : K = n + 1
  <2>1. K - 1 \in Nat /\ K = (K - 1) + 1
    BY <1>4
  <2> QED
    BY <2>1
<1>9. Proper(v)
  <2> SUFFICES ASSUME NEW d \in Nat, EndTag \in Nested(v)[d] PROVE FALSE
    BY DEF Proper
  <2>1. CASE d \in 0 .. K
    <3>1. Decoded(in, D[K - d], EndTag) /\ K - d \in 0 .. K
      BY <1>6, <2>1
    <3>2. PICK k \in Kinds, q \in Offsets(in) :
            D[K - d][k][q].ok /\ D[K - d][k][q].v = EndTag
      BY <3>1 DEF Decoded
    <3>3. EndTag[1] = k
      BY <1>2, <3>1, <3>2 DEF DecodedIn
    <3>4. EndTag[1] = "End"
      BY DEF EndTag
    <3> QED
      BY <3>3, <3>4, EndIsNone
  <2>2. CASE d \notin 0 .. K
    <3>1. d >= n + 1
      BY <1>8, <2>2
    <3>2. Nested(v)[d] = {}
      BY <1>7, <1>8, <3>1, NestedEnds
    <3> QED
      BY <3>2
  <2> QED
    BY <2>1, <2>2
<1>10. PICK w : WrittenAs(f, v, w) /\ write_value(f, v) = w[0][v]
  BY <1>7, <1>8, WrittenIs
<1> DEFINE Good(d) == \A x \in Nested(v)[d] : Kept(in, D[K - d], x, w[d][x])
           T == {d \in 0 .. K : Good(d)}
<1>11. K \in T
  BY <1>7
<1>12. ASSUME NEW d \in 0 .. K, d # K, d + 1 \in T
       PROVE  d \in T
  <2> SUFFICES ASSUME NEW x \in Nested(v)[d]
               PROVE  Kept(in, D[K - d], x, w[d][x])
    OBVIOUS
  <2>1. PICK left \in 0 .. K : left = K - d /\ left - 1 = K - (d + 1)
    OBVIOUS
  <2>2. Smaller(in, D[left - 1], x, w[d + 1])
    <3> SUFFICES ASSUME NEW y \in Below(x)
                 PROVE  Kept(in, D[left - 1], y, w[d + 1][y])
      BY DEF Smaller
    <3>1. y \in Nested(v)[d + 1]
      <4>1. d \in Nat
        OBVIOUS
      <4>2. Nested(v)[d + 1] = UNION {Below(z) : z \in Nested(v)[d]}
        BY <4>1, NestedAre
      <4> QED
        BY <4>2
    <3>2. Good(d + 1)
      BY <1>12
    <3> QED
      BY <2>1, <3>1, <3>2
  <2>3. w[d][x] = write_payload(f, x, w[d + 1])
    <3>1. d \in Nat
      OBVIOUS
    <3> QED
      BY <1>10, <3>1 DEF WrittenAs
  <2> HIDE DEF Good, T
  <2>4. ASSUME NEW k \in Kinds, NEW q \in Offsets(in), D[left][k][q].ok, D[left][k][q].v = x
        PROVE  Short(w[d][x], D[left][k][q].pos - q)
    <3>1. Reencoded(f, in, D[left - 1], left, B[left - 1], D[left][k][q], q)
      BY <1>2, <2>4 DEF DecodedIn
    <3> QED
      BY <2>2, <2>3, <2>4, <3>1 DEF Reencoded
  <2> QED
    BY <2>1, <2>4 DEF Kept
<1>13. 0 \in T
  <2>1. \A d \in 0 .. K : d \in T
    <3> HIDE DEF T
    <3> QED
      BY <1>11, <1>12, Downward
  <2>2. 0 \in 0 .. K
    OBVIOUS
  <2> QED
    BY <2>1, <2>2
<1>14. Short(write_value(f, v), r.pos - p)
  <2>1. v \in Nested(v)[0] /\ K - 0 = K
    BY NestedAre
  <2>2. Kept(in, D[K], v, w[0][v])
    BY <1>13, <2>1
  <2> QED
    BY <1>2, <1>3, <1>10, <2>2 DEF Kept
<1> HIDE DEF T
<1> QED
  BY <1>1, <1>3, <1>4, <1>7, <1>9, <1>14 DEF ValueOf

\* A decoded root, which encode writes in the bytes it was read from.
RootOf(f, p, d) ==
  /\ d = Ok(d.v, d.pos) /\ StoredAs(f, d.v) = d.v
  /\ Short(encode(f, d.v), d.pos - p)
  /\ \/ d.v = NoRoot
     \/ \E name \in ByteStrings : \E v \in Values(kMaxDecodeDepth) :
          d.v = <<name, v>> /\ Proper(v) /\ Nested(v)[kMaxDecodeDepth] = {}

LEMMA NoRootBack ==
  ASSUME NEW f \in Formats, NEW p \in Nat, NEW d, d = Ok(NoRoot, p + 1)
  PROVE  RootOf(f, p, d)
<1>1. d.v = NoRoot /\ d.pos = p + 1
  BY OkIs
<1>2. d = Ok(d.v, d.pos)
  BY <1>1
<1>3. NoRoot[2] = EndTag
  BY DEF NoRoot
<1>4. StoredAs(f, NoRoot) = NoRoot
  BY <1>3 DEF StoredAs
<1>5. encode(f, NoRoot) = Wrote(<< 0 >>)
  BY <1>3 DEF encode, encode_java_anonymous, encode_named,
              encode_java_named, encode_bedrock_le, encode_bedrock_varint
<1>6. Short(Wrote(<< 0 >>), 1)
  <2>1. 0 \in Byte
    BY DEF Byte
  <2>2. << 0 >> \in Seq(Byte) /\ Len(<< 0 >>) <= 1 /\ 1 \in Nat
    BY <2>1, OneByte
  <2> QED
    BY <2>2, ShortWrote
<1>7. (p + 1) - p = 1
  OBVIOUS
<1> QED
  BY <1>1, <1>2, <1>4, <1>5, <1>6, <1>7 DEF RootOf

LEMMA NotEnd ==
  ASSUME NEW v, v[1] \in Kinds
  PROVE  v # EndTag
<1>1. EndTag[1] = "End"
  BY DEF EndTag
<1> QED
  BY <1>1, EndIsNone

LEMMA NamedBack ==
  ASSUME NEW f \in Formats, f # "JavaAnonymousRoot", NEW in \in Seq(Byte), NEW p \in Offsets(in),
         NEW d, d = decode_named(f, in, p), d.ok
  PROVE  RootOf(f, p, d)
<1> DEFINE t == read_tag_byte(in, p)
           nm == read_string(f, in, t.pos)
           x == decode_payloads(f, in)[t.v][nm.pos]
<1>1. d = IF ~ t.ok THEN t ELSE IF t.v = "End" THEN Ok(NoRoot, t.pos)
          ELSE IF ~ nm.ok THEN nm
          ELSE IF x.ok THEN Ok(<<nm.v, x.v>>, x.pos) ELSE x
  BY DEF decode_named, Then
<1> HIDE DEF t, nm, x
<1>2. t.ok
  BY <1>1
<1>3. PICK N \in Nat : N = Len(in) /\ Offsets(in) = 0 .. N
  BY DEF Offsets
<1>4. PICK a \in Offsets(in) : a = t.pos /\ a = p + 1 /\ (t.v = "End" \/ t.v \in Kinds)
  <2>1. t.pos \in p .. Len(in) /\ t.pos = p + 1 /\ (t.v = "End" \/ t.v \in Kinds)
    BY <1>2, TagByteYields DEF t, Yields
  <2>2. t.pos \in Offsets(in)
    BY <1>3, <2>1
  <2> QED
    BY <2>1, <2>2
<1>5. CASE t.v = "End"
  <2>1. d = Ok(NoRoot, p + 1) /\ p \in Nat
    BY <1>1, <1>2, <1>3, <1>4, <1>5
  <2> QED
    BY <2>1, NoRootBack
<1>6. CASE t.v # "End"
  <2>1. nm.ok /\ x.ok /\ d = Ok(<<nm.v, x.v>>, x.pos)
    BY <1>1, <1>2, <1>6
  <2>2. PICK kind \in Kinds : kind = t.v
    BY <1>4, <1>6
  <2>3. PICK name \in ByteStrings, q \in Offsets(in) :
          name = nm.v /\ q = nm.pos /\ a <= q /\ Short(write_string(f, name), q - a)
    <3>1. nm = read_string(f, in, a)
      BY <1>4 DEF nm
    <3>2. nm.v \in ByteStrings /\ Short(write_string(f, nm.v), nm.pos - a)
      BY <2>1, <3>1, StringReencodes
    <3>3. nm.pos \in a .. Len(in)
      BY <3>1, StringSkipped DEF Same, Yields
    <3>4. nm.pos \in Offsets(in) /\ a <= nm.pos
      BY <1>3, <3>3
    <3> QED
      BY <3>2, <3>4
  <2>4. PICK y : y = decode_payloads(f, in)[kind][q] /\ y = x /\ y.ok
    BY <2>1, <2>2, <2>3 DEF x
  <2>5. /\ x.v \in Values(kMaxDecodeDepth) /\ x.v[1] = kind /\ x.pos \in q .. Len(in)
        /\ Proper(x.v) /\ Nested(x.v)[kMaxDecodeDepth] = {}
        /\ Short(write_value(f, x.v), x.pos - q)
    <3>1. ValueOf(f, in, kind, y, q)
      BY <2>4, ValueBack
    <3> QED
      BY <2>4, <3>1 DEF ValueOf
  <2>6. PICK v \in Values(kMaxDecodeDepth), m \in q .. N : v = x.v /\ m = x.pos
    BY <1>3, <2>5
  <2>7. d.v = <<name, v>> /\ d.pos = m
    BY <2>1, <2>3, <2>6, OkIs
  <2>8. v # EndTag
    BY <2>5, <2>6, NotEnd
  <2>9. PICK nv : nv = <<name, v>> /\ nv[1] = name /\ nv[2] = v
    <3>1. <<name, v>>[1] = name /\ <<name, v>>[2] = v
      OBVIOUS
    <3> QED
      BY <3>1
  <2>10. StoredAs(f, nv) = nv
    BY <2>8, <2>9 DEF StoredAs
  <2>11. PICK h, g, b : /\ h = Wrote(<<tag_byte(kind)>>) /\ g = write_string(f, name)
                        /\ b = write_value(f, v)
    OBVIOUS
  <2>12. encode(f, nv) = AndThen(h, AndThen(g, b))
    <3>1. encode(f, nv) = encode_named(f, nv)
      BY DEF encode, Formats, Java, Bedrock,
             encode_java_named, encode_bedrock_le, encode_bedrock_varint
    <3>2. v[1] = kind
      BY <2>5, <2>6
    <3> QED
      BY <2>8, <2>9, <2>11, <3>1, <3>2 DEF encode_named
  <2>13. /\ p \in Int /\ a \in Int /\ q \in Int /\ m \in Int
         /\ p <= a /\ a <= q /\ q <= m /\ a <= m /\ a - p = 1
    BY <1>3, <1>4, <2>3, <2>6
  <2>14. Short(h, a - p) /\ Short(g, q - a) /\ Short(b, m - q)
    BY <2>3, <2>5, <2>6, <2>11, <2>13, TagShort
  <2>15. Short(AndThen(g, b), m - a)
    BY <2>13, <2>14, ShortSpans
  <2>16. Short(AndThen(h, AndThen(g, b)), m - p)
    BY <2>13, <2>14, <2>15, ShortSpans
  <2>17. d = Ok(d.v, d.pos)
    BY <2>1, OkIs
  <2>18. d.v = nv
    BY <2>7, <2>9
  <2>19. Proper(v) /\ Nested(v)[kMaxDecodeDepth] = {}
    BY <2>5, <2>6
  <2> QED
    BY <2>6, <2>7, <2>9, <2>10, <2>12, <2>16, <2>17, <2>18, <2>19 DEF RootOf
<1> QED
  BY <1>5, <1>6

LEMMA AnonymousBack ==
  ASSUME NEW in \in Seq(Byte), NEW p \in Offsets(in),
         NEW d, d = decode_java_anonymous(in, p), d.ok
  PROVE  RootOf("JavaAnonymousRoot", p, d)
<1>0. PICK f \in Formats : f = "JavaAnonymousRoot"
  BY DEF Formats, Java
<1> DEFINE t == read_tag_byte(in, p)
           x == decode_payloads(f, in)[t.v][t.pos]
<1>1. d = IF ~ t.ok THEN t ELSE IF t.v = "End" THEN Ok(NoRoot, t.pos)
          ELSE IF x.ok THEN Ok(<< <<>>, x.v>>, x.pos) ELSE x
  BY <1>0 DEF decode_java_anonymous, Then
<1> HIDE DEF t, x
<1>2. t.ok
  BY <1>1
<1>3. PICK N \in Nat : N = Len(in) /\ Offsets(in) = 0 .. N
  BY DEF Offsets
<1>4. PICK a \in Offsets(in) : a = t.pos /\ a = p + 1 /\ (t.v = "End" \/ t.v \in Kinds)
  <2>1. t.pos \in p .. Len(in) /\ t.pos = p + 1 /\ (t.v = "End" \/ t.v \in Kinds)
    BY <1>2, TagByteYields DEF t, Yields
  <2>2. t.pos \in Offsets(in)
    BY <1>3, <2>1
  <2> QED
    BY <2>1, <2>2
<1>5. CASE t.v = "End"
  <2>1. d = Ok(NoRoot, p + 1) /\ p \in Nat
    BY <1>1, <1>2, <1>3, <1>4, <1>5
  <2> QED
    BY <1>0, <2>1, NoRootBack
<1>6. CASE t.v # "End"
  <2>1. x.ok /\ d = Ok(<< <<>>, x.v>>, x.pos)
    BY <1>1, <1>2, <1>6
  <2>2. PICK kind \in Kinds : kind = t.v
    BY <1>4, <1>6
  <2>3. x = decode_payloads(f, in)[kind][a]
    BY <1>4, <2>2 DEF x
  <2>4. /\ x.v \in Values(kMaxDecodeDepth) /\ x.v[1] = kind /\ x.pos \in a .. Len(in)
        /\ Proper(x.v) /\ Nested(x.v)[kMaxDecodeDepth] = {}
        /\ Short(write_value(f, x.v), x.pos - a)
    <3>1. ValueOf(f, in, kind, x, a)
      BY <2>1, <2>3, ValueBack
    <3> QED
      BY <3>1 DEF ValueOf
  <2>5. PICK v \in Values(kMaxDecodeDepth), m \in a .. N : v = x.v /\ m = x.pos
    BY <1>3, <2>4
  <2>6. <<>> \in ByteStrings
    <3>1. Len(<<>>) = 0 /\ 0 <= INT32_MAX
      BY DEF INT32_MAX
    <3> QED
      BY <3>1, NoBytes DEF ByteStrings
  <2>7. PICK nv : nv = << <<>>, v>> /\ nv[1] = <<>> /\ nv[2] = v
    <3>1. << <<>>, v>>[1] = <<>> /\ << <<>>, v>>[2] = v
      OBVIOUS
    <3> QED
      BY <3>1
  <2>8. d.v = nv /\ d.pos = m
    BY <2>1, <2>5, <2>7, OkIs
  <2>9. v # EndTag /\ v[1] = kind
    BY <2>4, <2>5, NotEnd
  <2>10. StoredAs(f, nv) = nv
    BY <1>0, <2>7, <2>9 DEF StoredAs
  <2>11. PICK h, b : h = Wrote(<<tag_byte(kind)>>) /\ b = write_value(f, v)
    OBVIOUS
  <2>12. encode(f, nv) = AndThen(h, b)
    <3>1. encode(f, nv) = encode_java_anonymous(v)
      BY <1>0, <2>7 DEF encode
    <3> QED
      BY <1>0, <2>9, <2>11, <3>1 DEF encode_java_anonymous
  <2>13. /\ p \in Int /\ a \in Int /\ m \in Int /\ p <= a /\ a <= m /\ a - p = 1
    BY <1>3, <1>4, <2>5
  <2>14. Short(h, a - p) /\ Short(b, m - a)
    BY <2>4, <2>5, <2>11, <2>13, TagShort
  <2>15. Short(AndThen(h, b), m - p)
    BY <2>13, <2>14, ShortSpans
  <2>16. d = Ok(d.v, d.pos)
    BY <2>1, OkIs
  <2>17. Proper(v) /\ Nested(v)[kMaxDecodeDepth] = {}
    BY <2>4, <2>5
  <2>18. RootOf(f, p, d)
    BY <2>5, <2>6, <2>7, <2>8, <2>10, <2>12, <2>15, <2>16, <2>17 DEF RootOf
  <2> QED
    BY <1>0, <2>18
<1> QED
  BY <1>5, <1>6

LEMMA RootBack ==
  ASSUME NEW f \in Formats, NEW in \in Seq(Byte), NEW p \in Offsets(in),
         NEW d, d = decode(f, in, p), d.ok
  PROVE  RootOf(f, p, d)
<1>1. CASE f = "JavaAnonymousRoot"
  <2>1. d = decode_java_anonymous(in, p)
    BY <1>1 DEF decode
  <2> QED
    BY <1>1, <2>1, AnonymousBack
<1>2. CASE f # "JavaAnonymousRoot"
  <2>1. d = decode_named(f, in, p)
    BY <1>2 DEF decode, Formats, Java, Bedrock,
                decode_java_named, decode_bedrock_le, decode_bedrock_varint
  <2> QED
    BY <1>2, <2>1, NamedBack
<1> QED
  BY <1>1, <1>2

\* Whatever bytes decode accepts (the files of src/decode), encode (src/encode)
\* writes the root again, in no more bytes, and those decode to the same root.
THEOREM DecodedEncodes ==
  ASSUME NEW f \in Formats, NEW in \in Seq(Byte), NEW p \in Offsets(in),
         NEW d, d = decode(f, in, p), d.ok,
         NEW w, w = encode(f, d.v)
  PROVE  /\ w.ok /\ Len(w.out) <= d.pos - p
         /\ decode(f, w.out, 0) = Ok(d.v, Len(w.out))
<1>1. RootOf(f, p, d)
  BY RootBack
<1>2. w.ok /\ w.out \in Seq(Byte) /\ Len(w.out) <= d.pos - p
  BY <1>1 DEF RootOf, Short, Writes
<1>3. PICK o \in Seq(Byte), m \in Nat : o = w.out /\ m = Len(o)
  BY <1>2
<1>4. PICK e : e = decode(f, o, 0)
  OBVIOUS
<1>5. 0 \in Offsets(o)
  BY <1>3 DEF Offsets
<1>6. Stand(o, 0, o)
  <2>1. \A i \in 1 .. Len(o) : 0 + i = i
    OBVIOUS
  <2> QED
    BY <2>1 DEF Stand
<1>7. Gets(e, d.v, 0, m, m, FALSE)
  <2>1. CASE d.v = NoRoot
    <3>1. NoRoot[2] = EndTag
      BY DEF NoRoot
    <3>2. w = Wrote(<< 0 >>)
      BY <2>1, <3>1 DEF encode, encode_java_anonymous, encode_named,
                  encode_java_named, encode_bedrock_le, encode_bedrock_varint
    <3>3. o = << 0 >>
      BY <1>3, <3>2, WroteIs
    <3>4. m = 1
      BY <1>3, <3>3
    <3>5. Stand(o, 0, << 0 >>)
      BY <1>6, <3>3
    <3>6. Gets(e, NoRoot, 0, 1, Len(o), FALSE)
      BY <1>4, <1>5, <3>5, EmptyGets
    <3> QED
      BY <1>3, <2>1, <3>4, <3>6
  <2>2. CASE d.v # NoRoot
    <3>1. PICK name \in ByteStrings, v \in Values(kMaxDecodeDepth) :
            d.v = <<name, v>> /\ Proper(v) /\ Nested(v)[kMaxDecodeDepth] = {}
      BY <1>1, <2>2 DEF RootOf
    <3>2. w = encode(f, <<name, v>>) /\ StoredAs(f, <<name, v>>) = d.v
      BY <1>1, <3>1 DEF RootOf
    <3>3. kMaxDecodeDepth \in Nat
      BY DepthAssumption
    <3>4. Nested(v)[kMaxDecodeDepth] # {} => FALSE
      BY <3>1
    <3>5. Stand(o, 0, w.out)
      BY <1>3, <1>6
    <3>6. Gets(decode(f, o, 0), StoredAs(f, <<name, v>>), 0, Len(w.out), Len(o), FALSE)
      BY <1>2, <1>5, <3>1, <3>2, <3>3, <3>4, <3>5, RootGets
    <3> QED
      BY <1>3, <1>4, <3>2, <3>6
  <2> QED
    BY <2>1, <2>2
<1>8. e.ok /\ e.v = d.v /\ e.pos = m
  <2>1. ~ (0 + m > m) /\ 0 + m = m
    OBVIOUS
  <2> QED
    BY <1>7, <2>1 DEF Gets
<1>9. e = Ok(e.v, e.pos)
  BY <1>4, <1>5, <1>8, RootBack DEF RootOf
<1> QED
  BY <1>2, <1>3, <1>4, <1>8, <1>9

\* Whatever stands in the sink, torn or damaged: what decode accepts, encode
\* writes again in no more bytes, and they decode to the same root.
THEOREM WhatDecodesReencodes == Spec => []Reencodes
<1>1. StreamInv => Reencodes
  BY DecodedEncodes DEF StreamInv, Reencodes
<1> QED
  BY <1>1, StreamInit, StreamStep, PTL DEF Spec

=============================================================================
