-------------------------- MODULE FrameStreamProofs --------------------------
(***************************************************************************)
(* What the stream's parser guarantees whatever bytes come and in whatever *)
(* pieces: a frame is decoded to what was encoded, no frame is lost among  *)
(* damaged ones and garbage, and the buffer is bounded.                    *)
(***************************************************************************)
EXTENDS FrameStream, SequenceTheorems, WellFoundedInduction, TLAPS

\* A set of numbers with 0 in it, and with each number the next, has all.
LEMMA SetInduction ==
    ASSUME NEW S, 0 \in S, \A n \in Nat : n \in S => n + 1 \in S
    PROVE  \A n \in Nat : n \in S
<1> DEFINE Less == OpToRel(<, Nat)
           T == Nat \ S
<1>1. \A x, y \in Nat : <<x, y>> \in Less <=> x < y
  BY Zenon DEF OpToRel
<1>2. SUFFICES ASSUME T # {} PROVE FALSE
  OBVIOUS
<1>3. T \subseteq Nat
  OBVIOUS
<1>4. PICK x \in T : \A y \in T : ~ (<<y, x>> \in Less)
  <2> HIDE DEF Less, T
  <2> QED BY <1>2, <1>3, NatLessThanWellFounded, WFMin, ZenonT(60) DEF Less
<1> HIDE DEF Less
<1>5. x \in Nat /\ x # 0
  OBVIOUS
<1>6. x - 1 \in Nat /\ x - 1 < x /\ x - 1 + 1 = x
  BY <1>5
<1>7. x - 1 \in S
  BY <1>1, <1>4, <1>5, <1>6
<1> QED BY <1>6, <1>7

-----------------------------------------------------------------------------
\* Sequences are joined one by one: f[i] is what the first i of them make.
Joins(f, s, S) ==
    /\ f \in [0 .. Len(s) -> Seq(S)] /\ f[0] = <<>>
    /\ \A i \in 0 .. Len(s) - 1 : f[i + 1] = f[i] \o s[i + 1]

\* Joining them one by one comes to an end.
LEMMA JoinsExist ==
    ASSUME NEW S, NEW s \in Seq(Seq(S))
    PROVE  \E f : Joins(f, s, S)
<1> DEFINE A == {n \in Nat : \A t \in Seq(Seq(S)) :
                    Len(t) = n => \E f : Joins(f, t, S)}
<1>1. 0 \in A
  <2> SUFFICES ASSUME NEW t \in Seq(Seq(S)), Len(t) = 0
               PROVE  \E f : Joins(f, t, S)
    OBVIOUS
  <2>1. <<>> \in Seq(S)
    BY EmptySeq
  <2>2. Joins([i \in 0 .. 0 |-> <<>>], t, S)
    BY <2>1 DEF Joins
  <2> QED BY <2>2
<1>2. ASSUME NEW n \in Nat, n \in A PROVE n + 1 \in A
  <2> SUFFICES ASSUME NEW t \in Seq(Seq(S)), Len(t) = n + 1
               PROVE  \E f : Joins(f, t, S)
    OBVIOUS
  <2>1. t # <<>>
    BY EmptySeq
  <2>2. PICK r \in Seq(Seq(S)), e \in Seq(S) : t = Append(r, e)
    BY <2>1, SequenceEmptyOrAppend
  <2>3. /\ Len(r) = n /\ t[n + 1] = e
        /\ \A i \in 1 .. n : t[i] = r[i]
    BY <2>2, AppendProperties, LenProperties
  <2>4. PICK f : Joins(f, r, S)
    BY <1>2, <2>3
  <2>5. /\ f \in [0 .. n -> Seq(S)] /\ f[0] = <<>>
        /\ \A i \in 0 .. n - 1 : f[i + 1] = f[i] \o r[i + 1]
    BY <2>3, <2>4 DEF Joins
  <2> DEFINE g == [i \in 0 .. n + 1 |-> IF i <= n THEN f[i] ELSE f[n] \o e]
  <2>6. g \in [0 .. n + 1 -> Seq(S)] /\ g[0] = <<>>
    <3>1. f[n] \o e \in Seq(S)
      BY <2>5, ConcatProperties
    <3> QED BY <2>5, <3>1
  <2>7. ASSUME NEW i \in 0 .. n PROVE g[i + 1] = g[i] \o t[i + 1]
    <3>1. CASE i = n
      <4>1. g[n + 1] = f[n] \o e /\ g[n] = f[n]
        BY SMTT(60)
      <4> QED BY <2>3, <3>1, <4>1
    <3>2. CASE i # n
      <4>1. i \in 0 .. n - 1 /\ i + 1 \in 1 .. n
        BY <3>2
      <4>2. g[i + 1] = f[i + 1] /\ g[i] = f[i]
        BY <4>1
      <4> QED BY <2>3, <2>5, <4>1, <4>2
    <3> QED BY <3>1, <3>2
  <2>8. Joins(g, t, S)
    <3>1. 0 .. Len(t) - 1 = 0 .. n
      OBVIOUS
    <3> HIDE DEF g
    <3> QED BY <2>6, <2>7, <3>1 DEF Joins
  <2> QED BY <2>8
<1>3. \A n \in Nat : n \in A
  <2> HIDE DEF A
  <2> QED BY <1>1, <1>2, SetInduction
<1>4. Len(s) \in Nat
  BY LenProperties
<1> QED BY <1>3, <1>4

\* FlattenSeq joins all of them.
LEMMA Flattened ==
    ASSUME NEW S, NEW s \in Seq(Seq(S)), NEW f, Joins(f, s, S)
    PROVE  FlattenSeq(s) = f[Len(s)]
<1> DEFINE n == Len(s)
           Solves(h) == h = [i \in 1 .. n |-> IF i = 1 THEN s[i]
                                               ELSE h[i - 1] \o s[i]]
           flat == CHOOSE h : Solves(h)
<1>1. n \in Nat /\ \A i \in 1 .. n : s[i] \in Seq(S)
  BY LenProperties, ElementOfSeq
<1>2. FlattenSeq(s) = IF n = 0 THEN s ELSE flat[n]
  BY Zenon DEF FlattenSeq
<1>3. CASE n = 0
  <2>1. s = <<>>
    BY <1>3, EmptySeq
  <2> QED BY <1>2, <1>3, <2>1 DEF Joins
<1>4. CASE n # 0
  <2>1. \E h : Solves(h)
    <3> DEFINE h == [i \in 1 .. n |-> f[i]]
    <3>1. ASSUME NEW i \in 1 .. n
          PROVE  f[i] = IF i = 1 THEN s[i] ELSE h[i - 1] \o s[i]
      <4>1. f[i] = f[i - 1] \o s[i]
        <5>1. i - 1 \in 0 .. n - 1 /\ i - 1 + 1 = i
          BY <1>1
        <5>2. f[i - 1 + 1] = f[i - 1] \o s[i - 1 + 1]
          BY <5>1, Zenon DEF Joins
        <5> QED BY <5>1, <5>2
      <4>2. CASE i = 1
        BY <1>1, <4>1, <4>2, ConcatEmptySeq DEF Joins
      <4>3. CASE i # 1
        <5>1. i - 1 \in 1 .. n
          BY <1>1, <4>3
        <5> QED BY <4>1, <4>3, <5>1, ZenonT(60)
      <4> QED BY <4>2, <4>3
    <3>2. h = [i \in 1 .. n |-> IF i = 1 THEN s[i] ELSE h[i - 1] \o s[i]]
      BY <3>1, Zenon
    <3> QED BY <3>2, Zenon
  <2>2. Solves(flat)
    BY <2>1, Zenon
  <2>a. ASSUME NEW i \in 1 .. n, NEW j \in 1 .. n, j = i + 1
        PROVE  flat[j] = flat[i] \o s[j]
    <3>1. j # 1 /\ j - 1 = i
      BY <1>1, <2>a
    <3>2. flat[j] = IF j = 1 THEN s[j] ELSE flat[j - 1] \o s[j]
      <4> HIDE DEF flat
      <4> QED BY <2>2, Zenon
    <3> QED BY <3>1, <3>2, ZenonT(60)
  <2> HIDE DEF flat
  <2> DEFINE A == {i \in Nat : i + 1 <= n => flat[i + 1] = f[i + 1]}
  <2>3. 0 \in A
    <3> SUFFICES flat[1] = f[1]
      OBVIOUS
    <3>1. 1 \in 1 .. n
      BY <1>1, <1>4
    <3>2. flat[1] = s[1]
      BY <2>2, <3>1
    <3>3. f[1] = <<>> \o s[1]
      <4>1. 0 \in 0 .. n - 1
        BY <3>1
      <4>2. f[0 + 1] = f[0] \o s[0 + 1]
        BY <4>1, Zenon DEF Joins
      <4> QED BY <4>2 DEF Joins
    <3> QED BY <1>1, <3>1, <3>2, <3>3, ConcatEmptySeq
  <2>4. ASSUME NEW i \in Nat, i \in A PROVE i + 1 \in A
    <3> SUFFICES ASSUME i + 1 + 1 <= n
                 PROVE  flat[i + 1 + 1] = f[i + 1 + 1]
      OBVIOUS
    <3>1. /\ i + 1 + 1 \in 1 .. n /\ i + 1 + 1 # 1
          /\ i + 1 + 1 - 1 = i + 1 /\ i + 1 <= n
      BY <1>1
    <3>2. flat[i + 1] = f[i + 1]
      BY <2>4, <3>1
    <3>3. flat[i + 1 + 1] = flat[i + 1] \o s[i + 1 + 1]
      <4>1. i + 1 \in 1 .. n
        BY <1>1, <3>1
      <4> QED BY <2>a, <3>1, <4>1
    <3>4. f[i + 1 + 1] = f[i + 1] \o s[i + 1 + 1]
      <4>1. i + 1 \in 0 .. n - 1
        BY <1>1, <3>1
      <4> QED BY <4>1, Zenon DEF Joins
    <3> QED BY <3>2, <3>3, <3>4
  <2>5. \A i \in Nat : i \in A
    <3> HIDE DEF A
    <3> QED BY <2>3, <2>4, SetInduction
  <2>6. flat[n] = f[n]
    <3>1. n - 1 \in Nat /\ n - 1 + 1 = n
      BY <1>1, <1>4
    <3>2. n - 1 \in A
      BY <2>5, <3>1
    <3> QED BY <3>1, <3>2
  <2> QED BY <1>2, <1>4, <2>6
<1> QED BY <1>3, <1>4

\* One more sequence is joined at the end.
LEMMA FlattenAppend ==
    ASSUME NEW S, NEW s \in Seq(Seq(S)), NEW e \in Seq(S)
    PROVE  /\ FlattenSeq(s) \in Seq(S)
           /\ FlattenSeq(Append(s, e)) = FlattenSeq(s) \o e
<1> DEFINE t == Append(s, e)  n == Len(s)
<1>1. /\ n \in Nat /\ t \in Seq(Seq(S)) /\ Len(t) = n + 1
      /\ t[n + 1] = e /\ \A i \in 1 .. n : t[i] = s[i]
  BY LenProperties, AppendProperties
<1> HIDE DEF t
<1>2. PICK g : Joins(g, t, S)
  BY <1>1, JoinsExist
<1> DEFINE f == [i \in 0 .. n |-> g[i]]
<1>3. /\ g \in [0 .. n + 1 -> Seq(S)] /\ g[0] = <<>>
      /\ \A i \in 0 .. n : g[i + 1] = g[i] \o t[i + 1]
  <2>1. 0 .. Len(t) = 0 .. n + 1 /\ 0 .. Len(t) - 1 = 0 .. n
    BY <1>1
  <2> QED BY <1>2, <2>1, Zenon DEF Joins
<1>4. Joins(f, s, S)
  <2>1. f \in [0 .. n -> Seq(S)] /\ f[0] = <<>>
    BY <1>1, <1>3
  <2>2. ASSUME NEW i \in 0 .. n - 1 PROVE f[i + 1] = f[i] \o s[i + 1]
    <3>1. /\ i \in 0 .. n /\ i + 1 \in 1 .. n
          /\ i + 1 \in 0 .. n
      BY <1>1, SMTT(60)
    <3>2. g[i + 1] = g[i] \o t[i + 1] /\ t[i + 1] = s[i + 1]
      BY <1>1, <1>3, <3>1
    <3> QED BY <3>1, <3>2
  <2> HIDE DEF f
  <2> QED BY <2>1, <2>2 DEF Joins
<1>5. FlattenSeq(s) = f[n] /\ FlattenSeq(t) = g[n + 1]
  <2> HIDE DEF f
  <2> QED BY <1>1, <1>2, <1>4, Flattened
<1>6. f[n] = g[n] /\ f[n] \in Seq(S) /\ g[n + 1] = g[n] \o e
  <2>1. n \in 0 .. n /\ n \in 0 .. n + 1
    BY <1>1
  <2>2. g[n + 1] = g[n] \o t[n + 1] /\ g[n] \in Seq(S)
    BY <1>3, <2>1
  <2> QED BY <1>1, <2>1, <2>2
<1> QED BY <1>5, <1>6 DEF t

\* Nothing is made of no sequences.
LEMMA FlattenEmpty == FlattenSeq(<<>>) = <<>>
BY DEF FlattenSeq

-----------------------------------------------------------------------------
(* Escaping.                                                               *)

Markers == {START_MARKER, END_MARKER, ESCAPE_MARKER}

\* What escaping makes of bytes of V is among these.
Wire(V) == V \cup {44, 45, 46, ESCAPE_MARKER}

\* What becomes of one byte.
EscapeByte(b) ==
    IF b \in DOMAIN EscapedAs THEN <<ESCAPE_MARKER, EscapedAs[b]>> ELSE <<b>>

\* What an escaped byte stands for.
Original(b) == CHOOSE m \in DOMAIN EscapedAs : EscapedAs[m] = b

\* The three markers and what they become are different bytes.
LEMMA EscapedAsValues ==
    /\ DOMAIN EscapedAs = Markers
    /\ EscapedAs[60] = 44 /\ EscapedAs[61] = 45 /\ EscapedAs[62] = 46
BY DEF EscapedAs, Markers, START_MARKER, END_MARKER, ESCAPE_MARKER

\* Escaped bytes have no delimiter among them.
LEMMA EscapedIsMarked ==
    ASSUME NEW b \in Markers
    PROVE  /\ EscapedAs[b] \in {44, 45, 46} /\ EscapedAs[b] \in Range(EscapedAs)
           /\ Original(EscapedAs[b]) = b
<1>1. b \in {60, 61, 62} /\ DOMAIN EscapedAs = {60, 61, 62}
  BY EscapedAsValues DEF Markers, START_MARKER, END_MARKER, ESCAPE_MARKER
<1>2. EscapedAs[b] \in {44, 45, 46}
  BY <1>1, EscapedAsValues
<1>3. EscapedAs[b] \in Range(EscapedAs)
  BY <1>1, Zenon DEF Range
<1>4. \A m \in {60, 61, 62} : EscapedAs[m] = EscapedAs[b] => m = b
  BY <1>1, EscapedAsValues
<1>5. Original(EscapedAs[b]) = b
  BY <1>1, <1>4 DEF Original
<1> QED BY <1>2, <1>3, <1>5

\* Another byte is escaped behind the others.
LEMMA EscapeAppend ==
    ASSUME NEW V, NEW d \in Seq(V), NEW b \in V
    PROVE  /\ Escape(Append(d, b)) = Escape(d) \o EscapeByte(b)
           /\ Escape(d) \in Seq(Wire(V)) /\ EscapeByte(b) \in Seq(Wire(V))
<1> DEFINE W == Seq(Wire(V))  n == Len(d)  a == Append(d, b)
           s == [i \in DOMAIN d |-> EscapeByte(d[i])]
           t == [i \in DOMAIN a |-> EscapeByte(a[i])]
<1>1. ASSUME NEW x \in V PROVE EscapeByte(x) \in W
  <2>1. CASE x \in DOMAIN EscapedAs
    <3>1. ESCAPE_MARKER \in Wire(V) /\ EscapedAs[x] \in Wire(V)
      BY <2>1, EscapedAsValues, EscapedIsMarked DEF Wire
    <3> QED BY <2>1, <3>1 DEF EscapeByte
  <2>2. CASE x \notin DOMAIN EscapedAs
    <3>1. x \in Wire(V)
      BY DEF Wire
    <3> QED BY <2>2, <3>1 DEF EscapeByte
  <2> QED BY <2>1, <2>2
<1>2. /\ n \in Nat /\ DOMAIN d = 1 .. n /\ DOMAIN a = 1 .. n + 1
      /\ a[n + 1] = b /\ \A i \in 1 .. n : a[i] = d[i] /\ d[i] \in V
  BY LenProperties, AppendProperties, ElementOfSeq
<1>3. s \in Seq(W) /\ Len(s) = n /\ \A i \in 1 .. n : s[i] = EscapeByte(d[i])
  BY <1>1, <1>2
<1>4. t = Append(s, EscapeByte(b))
  <2>1. EscapeByte(b) \in W
    BY <1>1
  <2>2. t \in Seq(W) /\ Len(t) = n + 1
        /\ \A i \in 1 .. n + 1 : t[i] = EscapeByte(a[i])
    BY <1>1, <1>2, <2>1
  <2> DEFINE u == Append(s, EscapeByte(b))
  <2>3. /\ u \in Seq(W) /\ Len(u) = n + 1 /\ u[n + 1] = EscapeByte(b)
        /\ \A i \in 1 .. n : u[i] = s[i]
    <3> HIDE DEF s, W
    <3> QED BY <1>3, <2>1, AppendProperties
  <2>4. ASSUME NEW i \in 1 .. n + 1 PROVE t[i] = u[i]
    <3>1. CASE i = n + 1
      <4> HIDE DEF t, u
      <4> QED BY <1>2, <2>2, <2>3, <3>1
    <3>2. CASE i # n + 1
      <4>1. i \in 1 .. n
        BY <1>2, <3>2
      <4> HIDE DEF t, u, s
      <4> QED BY <1>2, <1>3, <2>2, <2>3, <4>1
    <3> QED BY <3>1, <3>2
  <2> HIDE DEF t, u, W
  <2> QED BY <2>2, <2>3, <2>4, SeqEqual
<1>5. Escape(d) = FlattenSeq(s) /\ Escape(a) = FlattenSeq(t)
  BY Zenon DEF Escape, EscapeByte
<1>6. EscapeByte(b) \in W
  BY <1>1
<1> HIDE DEF s, t
<1> QED BY <1>3, <1>4, <1>5, <1>6, FlattenAppend

\* What becomes of a byte, if it comes after an ESCAPE_MARKER or not.
UnescapeByte(b, escaped) ==
    CASE b = ESCAPE_MARKER -> <<>>
      [] escaped -> <<Original(b)>>
      [] OTHER -> <<b>>

EndsInEscape(w) == Len(w) > 0 /\ w[Len(w)] = ESCAPE_MARKER

\* Another byte is taken for itself or for what an ESCAPE_MARKER before it
\* makes of it.
LEMMA UnescapeAppend ==
    ASSUME NEW V, NEW w \in Seq(V), NEW b \in V
    PROVE  /\ Unescape(Append(w, b)) =
                Unescape(w) \o UnescapeByte(b, EndsInEscape(w))
           /\ Unescape(w) \in Seq(V \cup {Original(x) : x \in V})
<1> DEFINE U == V \cup {Original(x) : x \in V}
           W == Seq(U)  n == Len(w)  a == Append(w, b)
           e == UnescapeByte(b, EndsInEscape(w))
           At(v, i) ==
               UnescapeByte(v[i], i > 1 /\ v[i - 1] = ESCAPE_MARKER)
           s == [i \in DOMAIN w |-> At(w, i)]
           t == [i \in DOMAIN a |-> At(a, i)]
<1>1. /\ n \in Nat /\ DOMAIN w = 1 .. n /\ DOMAIN a = 1 .. n + 1
      /\ a[n + 1] = b /\ \A i \in 1 .. n : a[i] = w[i] /\ w[i] \in V
  BY LenProperties, AppendProperties, ElementOfSeq
<1>2. ASSUME NEW v, NEW i, v[i] \in V PROVE At(v, i) \in W
  <2>1. v[i] \in U /\ Original(v[i]) \in U
    BY <1>2
  <2> HIDE DEF U
  <2>2. <<>> \in W /\ <<v[i]>> \in W /\ <<Original(v[i])>> \in W
    BY <2>1
  <2> HIDE DEF W
  <2> QED BY <2>2, Zenon DEF UnescapeByte
<1>3. /\ s \in Seq(W) /\ Len(s) = n
      /\ \A i \in 1 .. n : s[i] = At(w, i)
  <2>1. \A i \in 1 .. n : At(w, i) \in W
    BY <1>1, <1>2
  <2> HIDE DEF At, W
  <2> QED BY <1>1, <2>1
<1>4. /\ t \in Seq(W) /\ Len(t) = n + 1
      /\ \A i \in 1 .. n + 1 : t[i] = At(a, i)
  <2>1. \A i \in 1 .. n + 1 : At(a, i) \in W
    <3>1. \A i \in 1 .. n + 1 : a[i] \in V
      BY <1>1
    <3> HIDE DEF a
    <3> QED BY <3>1, <1>2
  <2> HIDE DEF At, W
  <2> QED BY <1>1, <2>1
<1>5. ASSUME NEW i \in 1 .. n PROVE At(a, i) = At(w, i)
  <2> DEFINE p == i > 1 /\ a[i - 1] = ESCAPE_MARKER
             q == i > 1 /\ w[i - 1] = ESCAPE_MARKER
  <2>1. a[i] = w[i] /\ (i > 1 => a[i - 1] = w[i - 1])
    BY <1>1
  <2>2. p = q
    <3> HIDE DEF a
    <3> QED BY <2>1
  <2>3. At(a, i) = UnescapeByte(a[i], p) /\ At(w, i) = UnescapeByte(w[i], q)
    BY Zenon
  <2>4. UnescapeByte(a[i], p) = UnescapeByte(w[i], q)
    <3> HIDE DEF a, p, q
    <3> QED BY <2>1, <2>2, Zenon
  <2> HIDE DEF At, a, p, q
  <2> QED BY <2>3, <2>4, Zenon
<1>6. At(a, n + 1) = e
  <2> DEFINE j == n + 1
             p == j > 1 /\ a[j - 1] = ESCAPE_MARKER
             q == EndsInEscape(w)
  <2>1. a[j] = b /\ j - 1 = n
    BY <1>1
  <2>2. n > 0 => a[n] = w[n]
    <3> HIDE DEF a
    <3> QED BY <1>1
  <2>3. p = q
    <3> HIDE DEF a
    <3> QED BY <1>1, <2>1, <2>2 DEF EndsInEscape
  <2> HIDE DEF j
  <2>4. At(a, j) = UnescapeByte(a[j], p) /\ e = UnescapeByte(b, q)
    BY Zenon
  <2> HIDE DEF At, a, e, p, q
  <2>5. At(a, j) = e
    BY <2>1, <2>3, <2>4, Zenon
  <2> QED BY <2>5 DEF j
<1>7. t = Append(s, e)
  <2> DEFINE u == Append(s, e)
  <2>1. e \in W
    BY <1>1, <1>2, <1>6, Zenon
  <2>2. /\ u \in Seq(W) /\ Len(u) = n + 1 /\ u[n + 1] = e
        /\ \A i \in 1 .. n : u[i] = s[i]
    <3> HIDE DEF s, e, W
    <3> QED BY <1>3, <2>1, AppendProperties
  <2>3. ASSUME NEW i \in 1 .. n + 1 PROVE t[i] = u[i]
    <3> HIDE DEF t, u, s, e, At
    <3>1. CASE i = n + 1
      BY <1>4, <1>6, <2>2, <3>1 DEF e
    <3>2. CASE i # n + 1
      <4>1. i \in 1 .. n
        BY <1>1, <3>2
      <4> QED BY <1>3, <1>4, <1>5, <2>2, <4>1
    <3> QED BY <3>1, <3>2
  <2> HIDE DEF t, u, W
  <2> QED BY <1>4, <2>2, <2>3, SeqEqual, ZenonT(60) DEF u
<1>8. Unescape(w) = FlattenSeq(s) /\ Unescape(a) = FlattenSeq(t)
  BY Zenon DEF Unescape, Original, UnescapeByte
<1>9. e \in W
  BY <1>1, <1>2, <1>6, Zenon
<1> HIDE DEF s, t, U, e
<1> QED BY <1>3, <1>7, <1>8, <1>9, FlattenAppend DEF U, e

-----------------------------------------------------------------------------
\* What unescape() needs, and the parser: w is d escaped.
EscapesTo(d, w) ==
    /\ Unescape(w) = d /\ IsEscaped(w) /\ ~EndsInEscape(w)
    /\ \A i \in DOMAIN w : w[i] \notin {START_MARKER, END_MARKER}
    /\ Len(w) >= Len(d)

\* Two parts of a sequence of two bytes more.
LEMMA PairAppended ==
    ASSUME NEW V, NEW w \in Seq(V), NEW a \in V, NEW b \in V
    PROVE  w \o <<a, b>> = Append(Append(w, a), b)
BY AppendProperties, ConcatProperties, SeqEqual

\* If unescape() gives back some bytes, it does so with one more.
LEMMA EscapeStep ==
    ASSUME NEW V, NEW d \in Seq(V), NEW b \in V, EscapesTo(d, Escape(d))
    PROVE  EscapesTo(Append(d, b), Escape(Append(d, b)))
<1> DEFINE W == Wire(V)  w == Escape(d)  n == Len(w)
<1>1. /\ w \in Seq(W) /\ Escape(Append(d, b)) = w \o EscapeByte(b)
      /\ EscapeByte(b) \in Seq(W)
  BY EscapeAppend
<1> HIDE DEF w
<1>2. /\ n \in Nat /\ DOMAIN w = 1 .. n /\ Len(Append(d, b)) = Len(d) + 1
      /\ Len(d) \in Nat
  BY <1>1, LenProperties, AppendProperties
<1>3. /\ Unescape(w) = d /\ IsEscaped(w) /\ ~EndsInEscape(w)
      /\ \A i \in 1 .. n : w[i] \notin {START_MARKER, END_MARKER}
      /\ n >= Len(d)
  BY <1>2 DEF EscapesTo, w
<1>4. CASE b \notin Markers
  <2> DEFINE u == Append(w, b)
  <2>1. /\ u = w \o EscapeByte(b) /\ u \in Seq(W) /\ Len(u) = n + 1
        /\ DOMAIN u = 1 .. n + 1 /\ u[n + 1] = b
        /\ \A i \in 1 .. n : u[i] = w[i]
    <3>1. b \in W /\ EscapeByte(b) = <<b>>
      BY <1>4, EscapedAsValues DEF Wire, EscapeByte
    <3> HIDE DEF W
    <3> QED BY <1>1, <3>1, AppendProperties, AppendIsConcat, LenProperties
  <2>2. Unescape(u) = Append(d, b)
    <3>1. b \in W
      BY DEF Wire
    <3>2. b # ESCAPE_MARKER
      BY <1>4 DEF Markers
    <3>3. UnescapeByte(b, EndsInEscape(w)) = <<b>>
      BY <1>3, <3>2 DEF UnescapeByte
    <3>4. Unescape(u) = Unescape(w) \o UnescapeByte(b, EndsInEscape(w))
      <4> HIDE DEF W
      <4> QED BY <1>1, <3>1, UnescapeAppend
    <3> QED BY <1>3, <3>3, <3>4, AppendIsConcat
  <2> HIDE DEF u
  <2>3. b \notin {START_MARKER, END_MARKER, ESCAPE_MARKER}
    BY <1>4 DEF Markers
  <2>4. ~EndsInEscape(u)
    BY <1>2, <2>1, <2>3 DEF EndsInEscape
  <2>5. IsEscaped(u)
    <3> SUFFICES ASSUME NEW i \in 1 .. n + 1, u[i] = ESCAPE_MARKER
                 PROVE  i < n + 1 /\ u[i + 1] \in Range(EscapedAs)
      BY <2>1 DEF IsEscaped
    <3>1. i \in 1 .. n /\ w[i] = ESCAPE_MARKER
      BY <1>2, <2>1, <2>3
    <3>2. i < n /\ w[i + 1] \in Range(EscapedAs)
      BY <1>2, <1>3, <3>1 DEF IsEscaped
    <3> QED BY <1>2, <2>1, <3>1, <3>2
  <2>6. \A i \in 1 .. n + 1 : u[i] \notin {START_MARKER, END_MARKER}
    BY <1>2, <1>3, <2>1, <2>3
  <2> QED BY <1>1, <1>2, <1>3, <2>1, <2>2, <2>4, <2>5, <2>6 DEF EscapesTo
<1>5. CASE b \in Markers
  <2> DEFINE m == ESCAPE_MARKER  e == EscapedAs[b]
             v == Append(w, m)  u == Append(v, e)
  <2>1. /\ EscapeByte(b) = <<m, e>> /\ e \in Range(EscapedAs)
        /\ Original(e) = b /\ e \in {44, 45, 46} /\ m \in W /\ e \in W
    BY <1>5, EscapedAsValues, EscapedIsMarked DEF EscapeByte, Wire
  <2>2. e \notin {START_MARKER, END_MARKER, ESCAPE_MARKER}
    BY <2>1 DEF START_MARKER, END_MARKER, ESCAPE_MARKER
  <2>3. m \notin {START_MARKER, END_MARKER}
    BY DEF START_MARKER, END_MARKER, ESCAPE_MARKER
  <2> HIDE DEF W, m, e
  <2>4. /\ u = w \o EscapeByte(b) /\ u \in Seq(W) /\ v \in Seq(W)
        /\ Len(v) = n + 1 /\ v[n + 1] = m
        /\ Len(u) = n + 2 /\ DOMAIN u = 1 .. n + 2
    BY <1>1, <1>2, <2>1, PairAppended, AppendProperties, LenProperties
  <2>5. /\ u[n + 1] = m /\ u[n + 2] = e
        /\ \A i \in 1 .. n : u[i] = w[i]
    BY <1>1, <1>2, <2>1, <2>4, AppendProperties
  <2>6. Unescape(u) = Append(d, b)
    <3>1. Unescape(v) = d
      <4>1. Unescape(v) = Unescape(w) \o UnescapeByte(m, EndsInEscape(w))
        BY <1>1, <2>1, UnescapeAppend
      <4>2. UnescapeByte(m, EndsInEscape(w)) = <<>>
        BY <1>3 DEF UnescapeByte, m
      <4> QED BY <1>3, <4>1, <4>2, ConcatEmptySeq
    <3>2. Unescape(u) = Unescape(v) \o UnescapeByte(e, EndsInEscape(v))
      BY <2>1, <2>4, UnescapeAppend, ZenonT(60)
    <3>3. EndsInEscape(v)
      BY <1>2, <2>4 DEF EndsInEscape, m
    <3>4. UnescapeByte(e, EndsInEscape(v)) = <<b>>
      BY <2>1, <2>2, <3>3 DEF UnescapeByte
    <3> QED BY <3>1, <3>2, <3>4, AppendIsConcat
  <2> HIDE DEF u
  <2>7. ~EndsInEscape(u)
    BY <1>2, <2>2, <2>4, <2>5 DEF EndsInEscape
  <2>8. IsEscaped(u)
    <3> SUFFICES ASSUME NEW i \in 1 .. n + 2, u[i] = ESCAPE_MARKER
                 PROVE  i < n + 2 /\ u[i + 1] \in Range(EscapedAs)
      BY <2>4 DEF IsEscaped
    <3>1. CASE i = n + 1
      BY <1>2, <2>1, <2>5, <3>1
    <3>2. CASE i # n + 1
      <4>1. i \in 1 .. n /\ w[i] = ESCAPE_MARKER
        BY <1>2, <2>2, <2>5, <3>2
      <4>2. i < n /\ w[i + 1] \in Range(EscapedAs)
        BY <1>2, <1>3, <4>1 DEF IsEscaped
      <4> QED BY <1>2, <2>5, <4>1, <4>2
    <3> QED BY <3>1, <3>2
  <2>9. \A i \in 1 .. n + 2 : u[i] \notin {START_MARKER, END_MARKER}
    BY <1>2, <1>3, <2>2, <2>3, <2>5
  <2> QED BY <1>1, <1>2, <1>3, <2>4, <2>6, <2>7, <2>8, <2>9 DEF EscapesTo
<1> QED BY <1>4, <1>5

\* Whatever is escaped is unescaped to what it was, and has no marker in it.
LEMMA EscapeRoundTrip ==
    ASSUME NEW V, NEW d \in Seq(V)
    PROVE  Escape(d) \in Seq(Wire(V)) /\ EscapesTo(d, Escape(d))
<1> DEFINE A == {n \in Nat : \A s \in Seq(V) : Len(s) = n =>
                    Escape(s) \in Seq(Wire(V)) /\ EscapesTo(s, Escape(s))}
<1>1. 0 \in A
  <2> SUFFICES ASSUME NEW s \in Seq(V), Len(s) = 0
               PROVE  Escape(s) \in Seq(Wire(V)) /\ EscapesTo(s, Escape(s))
    OBVIOUS
  <2>1. s = <<>> /\ DOMAIN <<>> = {}
    BY EmptySeq
  <2>2. Escape(<<>>) = <<>>
    BY <2>1, FlattenEmpty DEF Escape
  <2>3. Unescape(<<>>) = <<>>
    BY <2>1, FlattenEmpty DEF Unescape
  <2>4. IsEscaped(<<>>) /\ ~EndsInEscape(<<>>)
    BY <2>1 DEF IsEscaped, EndsInEscape
  <2>5. EscapesTo(<<>>, <<>>)
    BY <2>1, <2>3, <2>4 DEF EscapesTo
  <2>6. <<>> \in Seq(Wire(V))
    BY EmptySeq
  <2> QED BY <2>1, <2>2, <2>5, <2>6
<1>2. ASSUME NEW n \in Nat, n \in A PROVE n + 1 \in A
  <2> SUFFICES ASSUME NEW s \in Seq(V), Len(s) = n + 1
               PROVE  Escape(s) \in Seq(Wire(V)) /\ EscapesTo(s, Escape(s))
    OBVIOUS
  <2>1. s # <<>>
    BY EmptySeq
  <2>2. PICK r \in Seq(V), b \in V : s = Append(r, b)
    BY <2>1, SequenceEmptyOrAppend
  <2>3. Len(r) = n
    BY <2>2, AppendProperties, LenProperties
  <2>4. EscapesTo(r, Escape(r))
    BY <1>2, <2>3
  <2>5. EscapesTo(s, Escape(s))
    BY <2>2, <2>4, EscapeStep
  <2>6. Escape(s) \in Seq(Wire(V))
    <3>1. Escape(s) = Escape(r) \o EscapeByte(b)
      BY <2>2, EscapeAppend
    <3>2. Escape(r) \in Seq(Wire(V)) /\ EscapeByte(b) \in Seq(Wire(V))
      BY EscapeAppend
    <3> QED BY <3>1, <3>2, ConcatProperties
  <2> QED BY <2>5, <2>6
<1>3. \A n \in Nat : n \in A
  <2> HIDE DEF A
  <2> QED BY <1>1, <1>2, SetInduction
<1>4. Len(d) \in Nat
  BY LenProperties
<1> QED BY <1>3, <1>4

-----------------------------------------------------------------------------
(* Frames.                                                                 *)

Frame == [type: Byte, sequence: Byte, payload: Seq(Byte)]

\* The bytes on the wire: the checksum is one, but nothing need be known of it.
Symbols(frame) == Byte \cup {Checksum(Contents(frame))}

\* Four bytes hold the length.
LEMMA LengthFits ==
    ASSUME NEW n \in Nat
    PROVE  /\ Length(n) \in Seq(Byte) /\ Len(Length(n)) = 4
           /\ n < 2^32 =>
                Length(n)[1] * 2^24 + Length(n)[2] * 2^16 + Length(n)[3] * 2^8
                + Length(n)[4] = n
<1>1. /\ 2^32 = 4294967296 /\ 2^24 = 16777216 /\ 2^16 = 65536 /\ 2^8 = 256
  OBVIOUS
<1> DEFINE a == (n \div 16777216) % 256  b == (n \div 65536) % 256
           c == (n \div 256) % 256  d == n % 256
<1>2. Length(n) = <<a, b, c, d>>
  BY <1>1 DEF Length
<1>3. /\ a \in Byte /\ b \in Byte /\ c \in Byte /\ d \in Byte
  BY DEF Byte
<1>4. n < 4294967296 => a * 16777216 + b * 65536 + c * 256 + d = n
  BY <1>1
<1> HIDE DEF a, b, c, d
<1> QED BY <1>1, <1>2, <1>3, <1>4

\* What is where in two sequences joined.
LEMMA ConcatParts ==
    ASSUME NEW S, NEW s \in Seq(S), NEW t \in Seq(S)
    PROVE  /\ s \o t \in Seq(S) /\ Len(s \o t) = Len(s) + Len(t)
           /\ Len(s) \in Nat /\ Len(t) \in Nat
           /\ \A i \in 1 .. Len(s) : (s \o t)[i] = s[i]
           /\ \A i \in 1 .. Len(t) : (s \o t)[Len(s) + i] = t[i]
BY ConcatProperties, LenProperties

\* What is within a frame before it is escaped.
LEMMA ContentsParts ==
    ASSUME NEW frame \in Frame
    PROVE  LET c == Contents(frame)  L == Len(frame.payload) IN
           /\ c \in Seq(Byte) /\ Len(c) = 6 + L /\ L \in Nat
           /\ c[1] = frame.type /\ c[2] = frame.sequence
           /\ c[3] = Length(L)[1] /\ c[4] = Length(L)[2]
           /\ c[5] = Length(L)[3] /\ c[6] = Length(L)[4]
           /\ \A i \in 1 .. L : c[6 + i] = frame.payload[i]
<1> DEFINE L == Len(frame.payload)  h == <<frame.type, frame.sequence>>
           n == Length(L)  p == frame.payload
<1>1. /\ p \in Seq(Byte) /\ L \in Nat
      /\ frame.type \in Byte /\ frame.sequence \in Byte
  BY LenProperties DEF Frame
<1>2. n \in Seq(Byte) /\ Len(n) = 4
  <2> HIDE DEF L
  <2> QED BY <1>1, LengthFits
<1>3. /\ h \in Seq(Byte) /\ Len(h) = 2 /\ h[1] = frame.type
      /\ h[2] = frame.sequence
  BY <1>1
<1>a. h \in Seq(Byte) /\ n \in Seq(Byte)
  BY <1>2, <1>3
<1>b. Len(h) = 2 /\ Len(n) = 4
  BY <1>2, <1>3
<1>4. Contents(frame) = h \o n \o p
  BY DEF Contents
<1> HIDE DEF h, n, p
<1>5. /\ h \o n \in Seq(Byte) /\ Len(h \o n) = 6
      /\ (h \o n)[1] = h[1] /\ (h \o n)[2] = h[2] /\ (h \o n)[3] = n[1]
      /\ (h \o n)[4] = n[2] /\ (h \o n)[5] = n[3] /\ (h \o n)[6] = n[4]
  <2> DEFINE q == h \o n
  <2> SUFFICES /\ q \in Seq(Byte) /\ Len(q) = 6
               /\ q[1] = h[1] /\ q[2] = h[2] /\ q[3] = n[1]
               /\ q[4] = n[2] /\ q[5] = n[3] /\ q[6] = n[4]
    OBVIOUS
  <2>1. /\ q \in Seq(Byte) /\ Len(q) = 2 + 4
        /\ \A i \in 1 .. 2 : q[i] = h[i]
        /\ \A i \in 1 .. 4 : q[2 + i] = n[i]
    <3>1. /\ q \in Seq(Byte) /\ Len(q) = Len(h) + Len(n)
          /\ \A i \in 1 .. Len(h) : q[i] = h[i]
          /\ \A i \in 1 .. Len(n) : q[Len(h) + i] = n[i]
      BY <1>a, ConcatParts
    <3> HIDE DEF q
    <3> QED BY <1>b, <3>1
  <2> HIDE DEF q
  <2>2. q[2 + 1] = n[1] /\ q[2 + 2] = n[2] /\ q[2 + 3] = n[3] /\ q[2 + 4] = n[4]
    BY <2>1
  <2> QED BY <2>1, <2>2
<1> DEFINE c == h \o n \o p
<1>6. /\ c \in Seq(Byte) /\ Len(c) = 6 + L
      /\ \A i \in 1 .. 6 : c[i] = (h \o n)[i]
      /\ \A i \in 1 .. L : c[6 + i] = p[i]
  <2> DEFINE q == h \o n
  <2>1. q \in Seq(Byte) /\ p \in Seq(Byte)
    BY <1>1, <1>5 DEF p
  <2>4. Len(q) = 6 /\ c = q \o p
    BY <1>5
  <2> HIDE DEF q, c, p
  <2>2. /\ c \in Seq(Byte) /\ Len(c) = 6 + Len(p)
        /\ \A i \in 1 .. 6 : c[i] = q[i]
        /\ \A i \in 1 .. Len(p) : c[6 + i] = p[i]
    <3>1. /\ q \o p \in Seq(Byte) /\ Len(q \o p) = Len(q) + Len(p)
          /\ \A i \in 1 .. Len(q) : (q \o p)[i] = q[i]
          /\ \A i \in 1 .. Len(p) : (q \o p)[Len(q) + i] = p[i]
      BY <2>1, ConcatParts
    <3> QED BY <2>4, <3>1
  <2>3. Len(p) = L
    BY DEF p
  <2> QED BY <2>2, <2>3 DEF q
<1>7. /\ c[1] = frame.type /\ c[2] = frame.sequence /\ c[3] = n[1]
      /\ c[4] = n[2] /\ c[5] = n[3] /\ c[6] = n[4]
  <2> DEFINE q == h \o n
  <2>1. \A i \in 1 .. 6 : c[i] = q[i]
    BY <1>6
  <2>2. /\ q[1] = h[1] /\ q[2] = h[2] /\ q[3] = n[1]
        /\ q[4] = n[2] /\ q[5] = n[3] /\ q[6] = n[4]
    BY <1>5
  <2> HIDE DEF c, q
  <2> QED BY <1>3, <2>1, <2>2
<1> HIDE DEF c, L
<1> QED BY <1>1, <1>4, <1>6, <1>7 DEF c, p, L, n

\* A frame on the wire: bytes without a marker, between two markers.
LEMMA FrameShape ==
    ASSUME NEW frame \in Frame
    PROVE  LET x == Encode(frame)  n == Len(x)
               d == Append(Contents(frame), Checksum(Contents(frame)))
           IN  /\ x \in Seq(Wire(Symbols(frame)) \cup Markers) /\ n \in Nat
               /\ n >= Len(frame.payload) + 9
               /\ x[1] = START_MARKER /\ x[n] = END_MARKER
               /\ \A i \in 2 .. n - 1 : x[i] \notin {START_MARKER, END_MARKER}
               /\ IsEscaped(Between(x)) /\ Unescape(Between(x)) = d
<1> DEFINE c == Contents(frame)  e == Checksum(c)  d == Append(c, e)
           w == Escape(d)  x == Encode(frame)  n == Len(x)  m == Len(w)
           W == Wire(Symbols(frame)) \cup Markers
           s == <<START_MARKER>>  t == <<END_MARKER>>
<1>1. d \in Seq(Symbols(frame)) /\ Len(d) = Len(frame.payload) + 7
  <2>1. c \in Seq(Byte) /\ Len(c) = 6 + Len(frame.payload)
        /\ Len(frame.payload) \in Nat
    BY ContentsParts
  <2>2. c \in Seq(Symbols(frame)) /\ e \in Symbols(frame)
    BY <2>1, SeqMonotonic DEF Symbols
  <2> HIDE DEF c, e
  <2> QED BY <2>1, <2>2, AppendProperties
<1> HIDE DEF d
<1>2. w \in Seq(Wire(Symbols(frame))) /\ EscapesTo(d, w)
  BY <1>1, EscapeRoundTrip
<1> HIDE DEF w
<1>3. /\ m \in Nat /\ DOMAIN w = 1 .. m /\ m >= Len(frame.payload) + 7
      /\ \A i \in 1 .. m : w[i] \notin {START_MARKER, END_MARKER}
      /\ Unescape(w) = d /\ IsEscaped(w) /\ Len(frame.payload) \in Nat
  BY <1>1, <1>2, LenProperties DEF EscapesTo, Frame
<1>4. w \in Seq(W) /\ s \in Seq(W) /\ t \in Seq(W) /\ Len(s) = 1 /\ Len(t) = 1
      /\ s[1] = START_MARKER /\ t[1] = END_MARKER
  <2>1. w \in Seq(W)
    BY <1>2, SeqMonotonic
  <2>2. START_MARKER \in W /\ END_MARKER \in W
    BY DEF Markers
  <2> HIDE DEF W
  <2> QED BY <2>1, <2>2
<1>5. x = s \o w \o t
  BY Zenon DEF Encode, d, w
<1> HIDE DEF s, t, W
<1>6. /\ s \o w \in Seq(W) /\ Len(s \o w) = m + 1 /\ (s \o w)[1] = START_MARKER
      /\ \A i \in 2 .. m + 1 : (s \o w)[i] = w[i - 1]
  <2> DEFINE q == s \o w
  <2> SUFFICES /\ q \in Seq(W) /\ Len(q) = m + 1 /\ q[1] = START_MARKER
               /\ \A i \in 2 .. m + 1 : q[i] = w[i - 1]
    OBVIOUS
  <2>1. /\ q \in Seq(W) /\ Len(q) = 1 + m
        /\ \A i \in 1 .. 1 : q[i] = s[i]
        /\ \A i \in 1 .. m : q[1 + i] = w[i]
    BY <1>4, ConcatParts, SMTT(60)
  <2> HIDE DEF q, m
  <2>2. ASSUME NEW i \in 2 .. m + 1 PROVE q[i] = w[i - 1]
    <3>1. i - 1 \in 1 .. m /\ 1 + (i - 1) = i
      BY <1>3
    <3>2. q[1 + (i - 1)] = w[i - 1]
      BY <2>1, <3>1, Zenon
    <3> QED BY <3>1, <3>2
  <2> QED BY <1>3, <1>4, <2>1, <2>2
<1>7. /\ x \in Seq(W) /\ n = m + 2 /\ x[1] = START_MARKER /\ x[n] = END_MARKER
      /\ \A i \in 2 .. m + 1 : x[i] = w[i - 1]
  <2> DEFINE q == s \o w
  <2> HIDE DEF q
  <2>1. /\ q \o t \in Seq(W) /\ Len(q \o t) = Len(q) + Len(t)
        /\ \A i \in 1 .. Len(q) + Len(t) :
              (q \o t)[i] = IF i <= Len(q) THEN q[i] ELSE t[i - Len(q)]
    BY <1>4, <1>6, ConcatProperties DEF q
  <2>2. x = q \o t
    BY <1>5 DEF q
  <2>3. /\ Len(q) = m + 1 /\ q[1] = START_MARKER
        /\ \A i \in 2 .. m + 1 : q[i] = w[i - 1]
    BY <1>6 DEF q
  <2> HIDE DEF x
  <2> QED BY <1>3, <1>4, <2>1, <2>2, <2>3
<1> HIDE DEF x
<1>8. Between(x) = w
  <2>1. n - 1 = m + 1 /\ \A i \in 2 .. n - 1 : x[i] \in W
    BY <1>3, <1>7, ElementOfSeq
  <2>2. /\ Between(x) \in Seq(W) /\ Len(Between(x)) = m
        /\ \A i \in 1 .. m : Between(x)[i] = x[i + 1]
    <3>1. Between(x) = SubSeq(x, 2, m + 1)
      BY <2>1 DEF Between
    <3>2. 2 \in Int /\ m + 1 \in Int /\ \A i \in 2 .. m + 1 : x[i] \in W
      BY <1>3, <2>1
    <3> HIDE DEF m
    <3> QED BY <1>3, <3>1, <3>2, SubSeqProperties
  <2>3. \A i \in 1 .. m : Between(x)[i] = w[i]
    BY <1>3, <1>7, <2>2
  <2> QED BY <1>4, <2>2, <2>3, SeqEqual
<1>9. \A i \in 2 .. n - 1 : x[i] \notin {START_MARKER, END_MARKER}
  <2> SUFFICES ASSUME NEW i \in 2 .. n - 1
               PROVE  x[i] \notin {START_MARKER, END_MARKER}
    OBVIOUS
  <2>1. i \in 2 .. m + 1 /\ i - 1 \in 1 .. m
    BY <1>3, <1>7
  <2> QED BY <1>3, <1>7, <2>1
<1>10. n \in Nat /\ n >= Len(frame.payload) + 9
  BY <1>3, <1>7
<1> QED BY <1>3, <1>7, <1>8, <1>9, <1>10 DEF d, x, W

\* What is encoded is decoded to what it was.
THEOREM FrameRoundTrip ==
    ASSUME NEW frame \in Frame, Len(frame.payload) < 2^32
    PROVE  Decodable(Encode(frame)) /\ Decode(Encode(frame)) = frame
<1> DEFINE c == Contents(frame)  e == Checksum(c)  d == Append(c, e)
           L == Len(frame.payload)  x == Encode(frame)  V == Symbols(frame)
<1>1. /\ c \in Seq(Byte) /\ Len(c) = 6 + L /\ L \in Nat
      /\ c[1] = frame.type /\ c[2] = frame.sequence
      /\ c[3] = Length(L)[1] /\ c[4] = Length(L)[2]
      /\ c[5] = Length(L)[3] /\ c[6] = Length(L)[4]
      /\ \A i \in 1 .. L : c[6 + i] = frame.payload[i]
  BY ContentsParts
<1>2. /\ x \in Seq(Wire(V) \cup Markers) /\ Len(x) \in Nat /\ Len(x) >= L + 9
      /\ x[1] = START_MARKER /\ x[Len(x)] = END_MARKER
      /\ IsEscaped(Between(x)) /\ Unescape(Between(x)) = d
  BY FrameShape
<1> HIDE DEF x, c
<1>3. /\ d \in Seq(V) /\ Len(d) = 7 + L /\ d[7 + L] = e
      /\ \A i \in 1 .. 6 + L : d[i] = c[i] /\ c[i] \in Byte
  <2>1. c \in Seq(V) /\ e \in V
    BY <1>1, SeqMonotonic DEF Symbols, c
  <2>2. \A i \in 1 .. 6 + L : c[i] \in Byte
    BY <1>1, ElementOfSeq
  <2> HIDE DEF e
  <2>3. Len(d) = Len(c) + 1 /\ 6 + L + 1 = 7 + L
    BY <1>1, <2>1, AppendProperties, SMTT(60)
  <2> QED BY <1>1, <2>1, <2>2, <2>3, AppendProperties, SMTT(60)
<1> HIDE DEF d, e, V
<1>4. LengthIn(d) = L
  <2>1. d[3] = c[3] /\ d[4] = c[4] /\ d[5] = c[5] /\ d[6] = c[6]
    <3>1. \A i \in 3 .. 6 : i \in 1 .. 6 + L
      BY <1>1
    <3> QED BY <1>3, <3>1
  <2>2. Length(L)[1] * 2^24 + Length(L)[2] * 2^16 + Length(L)[3] * 2^8
        + Length(L)[4] = L
    BY <1>1, LengthFits
  <2> QED BY <1>1, <2>1, <2>2 DEF LengthIn
<1>5. SubSeq(d, 1, 6 + L) = c
  <2>1. \A i \in 1 .. 6 + L : d[i] \in Byte
    BY <1>3
  <2>2. /\ SubSeq(d, 1, 6 + L) \in Seq(Byte) /\ Len(SubSeq(d, 1, 6 + L)) = 6 + L
        /\ \A i \in 1 .. 6 + L : SubSeq(d, 1, 6 + L)[i] = d[i]
    <3> DEFINE k == 6 + L
    <3>1. k \in Nat /\ \A i \in 1 .. k : d[i] \in Byte
      BY <1>1, <2>1
    <3> HIDE DEF k
    <3>2. /\ SubSeq(d, 1, k) \in Seq(Byte) /\ Len(SubSeq(d, 1, k)) = k
          /\ \A i \in 1 .. k : SubSeq(d, 1, k)[i] = d[i]
      BY <3>1, SubSeqProperties
    <3> QED BY <3>2 DEF k
  <2> QED BY <1>1, <1>3, <2>2, SeqEqual
<1>6. IsBody(d)
  <2>1. Len(d) >= MIN_BODY_SIZE /\ Len(d) >= 6 + L + 1
    BY <1>1, <1>3 DEF MIN_BODY_SIZE
  <2>2. d[7 + L] = Checksum(SubSeq(d, 1, 6 + L))
    BY <1>3, <1>5, Zenon DEF e
  <2> HIDE DEF L
  <2> QED BY <1>4, <2>1, <2>2, Zenon DEF IsBody
<1>7. SubSeq(d, 7, 6 + L) = frame.payload
  <2> DEFINE k == 6 + L
  <2>1. k \in Int /\ \A i \in 7 .. k : d[i] \in Byte
    <3>1. L \in Nat
      BY <1>1
    <3> QED BY <1>3, <3>1
  <2>2. /\ SubSeq(d, 7, k) \in Seq(Byte)
        /\ Len(SubSeq(d, 7, k)) = IF 7 <= k THEN k - 7 + 1 ELSE 0
        /\ \A i \in 1 .. k - 7 + 1 : SubSeq(d, 7, k)[i] = d[7 + i - 1]
    <3> HIDE DEF k
    <3> QED BY <2>1, SubSeqProperties
  <2> DEFINE p == SubSeq(d, 7, k)
  <2>3. Len(p) = L
    <3> HIDE DEF p
    <3> QED BY <1>1, <2>2 DEF p
  <2>4. ASSUME NEW i \in 1 .. L PROVE p[i] = frame.payload[i]
    <3>1. i \in 1 .. k - 7 + 1 /\ 7 + i - 1 = 6 + i /\ 6 + i \in 1 .. 6 + L
      BY <1>1
    <3>2. p[i] = d[7 + i - 1]
      BY <2>2, <3>1, Zenon
    <3>3. p[i] = d[6 + i]
      <4> HIDE DEF p
      <4> QED BY <3>1, <3>2
    <3> HIDE DEF p
    <3> QED BY <1>1, <1>3, <3>1, <3>3
  <2>5. frame.payload \in Seq(Byte)
    BY DEF Frame
  <2> HIDE DEF p, k
  <2>6. p = frame.payload
    BY <2>2, <2>3, <2>4, <2>5, SeqEqual DEF p
  <2> QED BY <2>6 DEF p, k
<1>8. Decodable(x)
  <2>1. Len(x) >= 2 /\ Head(x) = START_MARKER /\ Last(x) = END_MARKER
    <3>1. x # <<>>
      BY <1>1, <1>2, EmptySeq
    <3> QED BY <1>1, <1>2, <3>1 DEF Last
  <2> QED BY <1>2, <1>6, <2>1 DEF Decodable
<1>9. Decode(x) = frame
  <2>1. Decode(x) = [type |-> d[1], sequence |-> d[2],
                     payload |-> SubSeq(d, 7, 6 + LengthIn(d))]
    BY <1>2 DEF Decode
  <2>2. d[1] = frame.type /\ d[2] = frame.sequence
    <3>1. L \in Nat /\ c[1] = frame.type /\ c[2] = frame.sequence
      BY <1>1
    <3>2. d[1] = c[1] /\ d[2] = c[2]
      <4>1. 1 \in 1 .. 6 + L /\ 2 \in 1 .. 6 + L
        BY <3>1
      <4> QED BY <1>3, <4>1
    <3> QED BY <3>1, <3>2
  <2>3. frame = [type |-> frame.type, sequence |-> frame.sequence,
                 payload |-> frame.payload]
    BY DEF Frame
  <2> QED BY <1>4, <1>7, <2>1, <2>2, <2>3
<1> QED BY <1>8, <1>9 DEF x

Size == Len(streamBuffer)

\* What the sizes are.
LEMMA Sizes == MAX_FRAME_SIZE \in Nat /\ MaxChunk \in Nat \ {0}
BY CodecAssumption, StreamAssumption DEF CodecAssumption, StreamAssumption

-----------------------------------------------------------------------------
(* What is on the wire.                                                    *)

\* What may be in the stream.
Alphabet ==
    Wire(Byte \cup {Checksum(Contents(frame)) : frame \in Frames}) \cup Markers

\* What is sent are frames.
LEMMA FramesType == Frames \subseteq Frame
BY StreamAssumption DEF StreamAssumption, Frame

\* Any byte may be in the stream.
LEMMA BytesInAlphabet == Byte \subseteq Alphabet
BY DEF Alphabet, Wire

\* An encoded frame is in the stream's alphabet.
LEMMA EncodeType ==
    ASSUME NEW frame \in Frames
    PROVE  /\ Encode(frame) \in Seq(Alphabet) /\ Len(Encode(frame)) \in Nat
           /\ DOMAIN Encode(frame) = 1 .. Len(Encode(frame))
<1> DEFINE x == Encode(frame)  V == Wire(Symbols(frame)) \cup Markers
<1>1. x \in Seq(V)
  BY FramesType, FrameShape
<1>2. V \subseteq Alphabet
  BY DEF Alphabet, Wire, Symbols
<1> HIDE DEF x, V
<1>3. x \in Seq(Alphabet)
  BY <1>1, <1>2, SeqMonotonic
<1> QED BY <1>3, LenProperties DEF x

\* What the parser may rely on in a frame that was sent whole.
LEMMA EncodableShape ==
    ASSUME NEW frame \in Frames, Encodable(frame)
    PROVE  LET x == Encode(frame)  n == Len(x)
           IN  /\ x \in Seq(Alphabet) /\ n \in Nat /\ 9 <= n /\ n <= MAX_FRAME_SIZE
               /\ x[1] = START_MARKER /\ x[n] = END_MARKER
               /\ \A k \in 2 .. n - 1 : x[k] \notin {START_MARKER, END_MARKER}
               /\ Decodable(x) /\ Decode(x) = frame
<1> DEFINE x == Encode(frame)  n == Len(x)  L == Len(frame.payload)
<1>1. /\ n \in Nat /\ n >= L + 9
      /\ x[1] = START_MARKER /\ x[n] = END_MARKER
      /\ \A k \in 2 .. n - 1 : x[k] \notin {START_MARKER, END_MARKER}
  BY FramesType, FrameShape
<1>2. n <= MAX_FRAME_SIZE
  BY DEF Encodable
<1>3. x \in Seq(Alphabet)
  BY EncodeType
<1>4. frame \in Frame /\ L \in Nat
  BY FramesType, LenProperties DEF Frame
<1> HIDE DEF x, n, L
<1>5. L < 2^32
  <2>1. 2^24 = 16777216 /\ 2^32 = 4294967296
    OBVIOUS
  <2> QED BY <1>1, <1>2, <1>4, <2>1, CodecAssumption DEF CodecAssumption
<1>6. Decodable(x) /\ Decode(x) = frame
  BY <1>4, <1>5, FrameRoundTrip DEF L, x
<1> QED BY <1>1, <1>2, <1>3, <1>4, <1>6 DEF x, n

\* Whatever else is sent is bytes too.
LEMMA DamagedType ==
    ASSUME NEW bytes \in Garbage \cup
                         UNION {Damaged(Encode(frame)) : frame \in Frames}
    PROVE  bytes \in Seq(Alphabet)
<1>1. CASE bytes \in Garbage
  <2>1. bytes \in Seq(Byte)
    BY <1>1, StreamAssumption DEF StreamAssumption
  <2> QED BY <2>1, BytesInAlphabet, SeqMonotonic
<1>2. ASSUME NEW frame \in Frames, bytes \in Damaged(Encode(frame))
      PROVE  bytes \in Seq(Alphabet)
  <2> DEFINE x == Encode(frame)  n == Len(x)
  <2>1. /\ x \in Seq(Alphabet) /\ n \in Nat /\ DOMAIN x = 1 .. n
        /\ \A k \in 1 .. n : x[k] \in Alphabet
    BY EncodeType, ElementOfSeq
  <2> HIDE DEF x
  <2>2. \A a, b \in Int : 1 <= a /\ b <= n => SubSeq(x, a, b) \in Seq(Alphabet)
    <3> SUFFICES ASSUME NEW a \in Int, NEW b \in Int, 1 <= a, b <= n
                 PROVE  SubSeq(x, a, b) \in Seq(Alphabet)
      OBVIOUS
    <3>1. \A k \in a .. b : x[k] \in Alphabet
      BY <2>1
    <3> QED BY <3>1, SubSeqProperties
  <2>3. CASE \E m \in 1 .. n - 1 : bytes = SubSeq(x, 1, m)
    <3>1. PICK m \in 1 .. n - 1 : bytes = SubSeq(x, 1, m)
      BY <2>3
    <3> QED BY <2>1, <2>2, <3>1
  <2>4. CASE \E i \in DOMAIN x : bytes = RemoveAt(x, i)
    <3>1. PICK i \in 1 .. n : bytes = RemoveAt(x, i)
      BY <2>1, <2>4
    <3>2. bytes = SubSeq(x, 1, i - 1) \o SubSeq(x, i + 1, n)
      BY <3>1 DEF RemoveAt
    <3>3. /\ SubSeq(x, 1, i - 1) \in Seq(Alphabet)
          /\ SubSeq(x, i + 1, n) \in Seq(Alphabet)
      BY <2>1, <2>2
    <3> QED BY <3>2, <3>3, ConcatProperties
  <2>5. CASE \E i \in DOMAIN x, b \in Changed : bytes = [x EXCEPT ![i] = b]
    <3>1. PICK i \in 1 .. n, b \in Changed : bytes = [x EXCEPT ![i] = b]
      BY <2>1, <2>5
    <3>2. b \in Alphabet
      BY StreamAssumption, BytesInAlphabet DEF StreamAssumption
    <3> QED BY <2>1, <3>1, <3>2, ExceptSeq
  <2> QED BY <1>2, <2>3, <2>4, <2>5 DEF Damaged, x
<1> QED BY <1>1, <1>2

-----------------------------------------------------------------------------
(* Where the frames are in the stream.                                     *)

\* The bytes that are yet to be parsed: what is in the buffer, and then what
\* is on the wire; and how many bytes came before those.
Ahead == Size + Len(wire)
Base  == written - Ahead
Stream == [k \in 1 .. Ahead |->
              IF k <= Size THEN streamBuffer[k] ELSE wire[k - Size]]

\* The i-th frame that was sent whole, and how many bytes came before it.
Code(i)  == Encode(sent[i].frame)
First(i) == sent[i].end - Len(Code(i))

\* It has been parsed, or not one byte of it has.
Past(i) == sent[i].end <= Base
Pending(i) ==
    /\ Base <= First(i)
    /\ \A k \in 1 .. Len(Code(i)) : Stream[First(i) - Base + k] = Code(i)[k]

StreamType ==
    /\ streamBuffer \in Seq(Alphabet) /\ wire \in Seq(Alphabet)
    /\ written \in Nat /\ Ahead <= written
    /\ sent \in Seq([frame: {frame \in Frames : Encodable(frame)}, end: Nat])

InOrder ==
    \A i \in DOMAIN sent :
        /\ 0 <= First(i) /\ sent[i].end <= written
        /\ \A j \in DOMAIN sent : i < j => sent[i].end <= First(j)

\* No frame has been parsed in part.
NoneTorn == \A i \in DOMAIN sent : Past(i) \/ Pending(i)

Gone == {i \in DOMAIN sent : Past(i)}

\* Those that have been parsed have been delivered.
GoneDelivered ==
    \E place \in [Gone -> DOMAIN delivered] :
        /\ \A i \in Gone : delivered[place[i]] = sent[i].frame
        /\ \A i, j \in Gone : i < j => place[i] < place[j]

\* Between two pieces no frame is left whole in the buffer.
NoneLeft == ~parsing => \A i \in Arrived : Past(i)

StreamInv ==
    /\ StreamType /\ parsing \in BOOLEAN /\ \E S : delivered \in Seq(S)
    /\ InOrder /\ NoneTorn /\ GoneDelivered /\ NoneLeft

\* Sizes and places are numbers.
LEMMA StreamSizes ==
    ASSUME StreamType
    PROVE  /\ Size \in Nat /\ Len(wire) \in Nat /\ Ahead \in Nat /\ Base \in Nat
           /\ DOMAIN streamBuffer = 1 .. Size /\ DOMAIN sent = 1 .. Len(sent)
           /\ Len(sent) \in Nat
BY LenProperties DEF StreamType, Size, Ahead, Base

\* What is known of a frame that was sent whole.
LEMMA SentShape ==
    ASSUME StreamType, NEW i \in DOMAIN sent
    PROVE  LET x == Code(i)  n == Len(x)
           IN  /\ sent[i].frame \in Frames /\ sent[i].end \in Nat /\ First(i) \in Int
               /\ sent[i].end = First(i) + n
               /\ n \in Nat /\ 9 <= n /\ n <= MAX_FRAME_SIZE
               /\ x[1] = START_MARKER /\ x[n] = END_MARKER
               /\ \A k \in 2 .. n - 1 : x[k] \notin {START_MARKER, END_MARKER}
               /\ Decodable(x) /\ Decode(x) = sent[i].frame
<1>1. sent[i] \in [frame: {frame \in Frames : Encodable(frame)}, end: Nat]
  BY StreamSizes, ElementOfSeq DEF StreamType
<1> DEFINE f == sent[i].frame
<1>2. f \in Frames /\ Encodable(f) /\ sent[i].end \in Nat
  BY <1>1
<1> HIDE DEF f
<1>3. LET x == Encode(f)  n == Len(x)
      IN  /\ n \in Nat /\ 9 <= n /\ n <= MAX_FRAME_SIZE
          /\ x[1] = START_MARKER /\ x[n] = END_MARKER
          /\ \A k \in 2 .. n - 1 : x[k] \notin {START_MARKER, END_MARKER}
          /\ Decodable(x) /\ Decode(x) = f
  BY <1>2, EncodableShape
<1>4. Code(i) = Encode(f) /\ f = sent[i].frame
  BY DEF Code, f
<1>5. First(i) \in Int /\ sent[i].end = First(i) + Len(Code(i))
  BY <1>2, <1>3, <1>4 DEF First
<1> QED BY <1>2, <1>3, <1>4, <1>5

\* The bytes of the stream, before and after a step.
LEMMA InBuffer ==
    ASSUME NEW j \in 1 .. Ahead, j <= Size
    PROVE  Stream[j] = streamBuffer[j]
BY DEF Stream

LEMMA OnWire ==
    ASSUME NEW j \in 1 .. Ahead, ~(j <= Size)
    PROVE  Stream[j] = wire[j - Size]
BY DEF Stream

LEMMA InBufferThen ==
    ASSUME NEW j \in 1 .. Ahead', j <= Size'
    PROVE  Stream'[j] = streamBuffer'[j]
BY DEF Stream

LEMMA OnWireThen ==
    ASSUME NEW j \in 1 .. Ahead', ~(j <= Size')
    PROVE  Stream'[j] = wire'[j - Size']
BY DEF Stream

\* A frame stays what and where it is when bytes before it are dropped.
LEMMA FrameStays ==
    ASSUME StreamType, NEW i \in DOMAIN sent, sent[i].end <= written,
           sent'[i] = sent[i], NEW k \in Nat, Base' = Base + k,
           \A j \in 1 .. Ahead - k : Stream'[j] = Stream[j + k]
    PROVE  /\ Code(i)' = Code(i) /\ First(i)' = First(i)
           /\ Past(i) => Past(i)'
           /\ Pending(i) /\ Base + k <= First(i) => Pending(i)'
<1>1. Code(i)' = Code(i) /\ sent'[i].end = sent[i].end
  BY DEF Code
<1>2. First(i)' = First(i)
  BY <1>1 DEF First
<1>3. /\ Base \in Nat /\ First(i) \in Int /\ sent[i].end \in Nat
      /\ Len(Code(i)) \in Nat /\ sent[i].end = First(i) + Len(Code(i))
      /\ Ahead \in Nat /\ Base = written - Ahead /\ written \in Nat
  BY StreamSizes, SentShape DEF Base, StreamType
<1>4. Past(i) => Past(i)'
  BY <1>1, <1>3 DEF Past
<1>5. ASSUME Pending(i), Base + k <= First(i) PROVE Pending(i)'
  <2>1. Base' <= First(i)'
    BY <1>2, <1>5
  <2>2. ASSUME NEW m \in 1 .. Len(Code(i))
        PROVE  Stream'[First(i)' - Base' + m] = Code(i)[m]
    <3> DEFINE j == First(i)' - Base' + m
    <3>1. j \in 1 .. Ahead - k /\ j + k = First(i) - Base + m
      BY <1>2, <1>3, <1>5, SMTT(60)
    <3>2. Stream[First(i) - Base + m] = Code(i)[m]
      BY <1>5 DEF Pending
    <3> HIDE DEF j
    <3>3. Stream'[j] = Stream[j + k]
      BY <3>1
    <3>4. Stream'[j] = Code(i)[m]
      BY <3>1, <3>2, <3>3
    <3> QED BY <3>4 DEF j
  <2> QED BY <1>1, <1>2, <2>1, <2>2 DEF Pending
<1> QED BY <1>1, <1>2, <1>4, <1>5

\* What a round of the loop drops are bytes at the front.
LEMMA DropBytes ==
    ASSUME StreamType, NEW k \in 0 .. Size, streamBuffer' = From(k + 1),
           UNCHANGED <<wire, sent, written>>
    PROVE  /\ StreamType' /\ Base' = Base + k
           /\ \A j \in 1 .. Ahead - k : Stream'[j] = Stream[j + k]
           /\ written' - Len(wire)' = written - Len(wire)
<1>1. /\ Size \in Nat /\ Len(wire) \in Nat /\ Ahead = Size + Len(wire)
      /\ written \in Nat /\ Ahead <= written
      /\ \A j \in 1 .. Size : streamBuffer[j] \in Alphabet
  BY StreamSizes, ElementOfSeq DEF StreamType, Ahead, Size
<1>2. /\ streamBuffer' \in Seq(Alphabet) /\ Size' = Size - k
      /\ \A j \in 1 .. Size - k : streamBuffer'[j] = streamBuffer[j + k]
  <2>1. streamBuffer' = SubSeq(streamBuffer, k + 1, Size)
    BY DEF From, Size
  <2>2. k + 1 \in Int /\ Size \in Int
        /\ \A j \in k + 1 .. Size : streamBuffer[j] \in Alphabet
    BY <1>1
  <2> DEFINE s == SubSeq(streamBuffer, k + 1, Size)
  <2>3. /\ s \in Seq(Alphabet)
        /\ Len(s) = IF k + 1 <= Size THEN Size - (k + 1) + 1 ELSE 0
        /\ \A j \in 1 .. Size - (k + 1) + 1 : s[j] = streamBuffer[k + 1 + j - 1]
    BY <2>2, SubSeqProperties
  <2>4. s = streamBuffer' /\ Len(s) = Size'
    BY <2>1 DEF Size
  <2> HIDE DEF s
  <2>5. Size - (k + 1) + 1 = Size - k
    BY <1>1
  <2>6. Len(s) = Size - k
    BY <1>1, <2>3
  <2>7. ASSUME NEW j \in 1 .. Size - k PROVE s[j] = streamBuffer[j + k]
    <3>1. j \in 1 .. Size - (k + 1) + 1 /\ k + 1 + j - 1 = j + k
      BY <1>1
    <3>2. s[j] = streamBuffer[k + 1 + j - 1]
      BY <2>3, <3>1, Zenon
    <3> QED BY <3>1, <3>2
  <2> QED BY <2>3, <2>4, <2>6, <2>7
<1>3. Ahead' = Ahead - k
  BY <1>1, <1>2 DEF Ahead
<1>4. StreamType'
  BY <1>1, <1>2, <1>3 DEF StreamType
<1>5. Base' = Base + k
  BY <1>1, <1>3 DEF Base
<1>6. ASSUME NEW j \in 1 .. Ahead - k PROVE Stream'[j] = Stream[j + k]
  <2>0. j \in 1 .. Ahead' /\ j + k \in 1 .. Ahead
    BY <1>1, <1>3
  <2>1. CASE j <= Size - k
    <3>0. j <= Size' /\ j + k <= Size
      BY <1>1, <1>2, <2>1
    <3>1. Stream'[j] = streamBuffer'[j]
      BY <2>0, <3>0, InBufferThen
    <3>2. Stream[j + k] = streamBuffer[j + k]
      BY <2>0, <3>0, InBuffer, Zenon
    <3> QED BY <1>1, <1>2, <2>1, <3>1, <3>2
  <2>2. CASE ~(j <= Size - k)
    <3>1. Stream'[j] = wire[j - (Size - k)]
      <4>1. ~(j <= Size') /\ wire' = wire /\ Size' = Size - k
        BY <1>2, <2>2
      <4>2. Stream'[j] = wire'[j - Size']
        BY <2>0, <4>1, OnWireThen
      <4> QED BY <4>1, <4>2
    <3>2. Stream[j + k] = wire[(j + k) - Size]
      <4> DEFINE l == j + k
      <4>1. l \in 1 .. Ahead /\ ~(l <= Size)
        BY <1>1, <2>0, <2>2
      <4> HIDE DEF l
      <4>2. Stream[l] = wire[l - Size]
        BY <4>1, OnWire
      <4> QED BY <4>2, ZenonT(60) DEF l
    <3>3. j - (Size - k) = (j + k) - Size
      BY <1>1
    <3> QED BY <3>1, <3>2, <3>3
  <2> QED BY <2>1, <2>2
<1>7. written' - Len(wire)' = written - Len(wire)
  OBVIOUS
<1> QED BY <1>4, <1>5, <1>6, <1>7

\* Nothing comes to be in the stream, or goes, when bytes are received.
LEMMA ReceiveBytes ==
    ASSUME StreamType, NEW n \in 1 .. MaxChunk, Receive(n)
    PROVE  /\ StreamType' /\ Base' = Base /\ Ahead' = Ahead
           /\ \A j \in 1 .. Ahead : Stream'[j] = Stream[j]
<1> DEFINE M == Len(wire)  c == SubSeq(wire, 1, n)  r == SubSeq(wire, n + 1, M)
<1>1. /\ Size \in Nat /\ M \in Nat /\ Ahead = Size + M /\ n \in Nat
      /\ written \in Nat /\ Ahead <= written /\ n <= M
      /\ \A j \in 1 .. M : wire[j] \in Alphabet
  BY StreamSizes, ElementOfSeq DEF StreamType, Ahead, Receive
<1>2. /\ streamBuffer' = streamBuffer \o c /\ wire' = r
      /\ written' = written /\ sent' = sent
  BY DEF Receive
<1>3. /\ c \in Seq(Alphabet) /\ Len(c) = n /\ \A j \in 1 .. n : c[j] = wire[j]
  <2>1. /\ c \in Seq(Alphabet) /\ Len(c) = IF 1 <= n THEN n - 1 + 1 ELSE 0
        /\ \A j \in 1 .. n - 1 + 1 : c[j] = wire[1 + j - 1]
    <3>1. 1 \in Int /\ n \in Int /\ \A j \in 1 .. n : wire[j] \in Alphabet
      BY <1>1
    <3> QED BY <3>1, SubSeqProperties
  <2> HIDE DEF c
  <2>2. \A j \in 1 .. n : 1 + j - 1 = j /\ j \in 1 .. n - 1 + 1
    BY <1>1
  <2>3. \A j \in 1 .. n : c[j] = wire[j]
    BY <2>1, <2>2
  <2> QED BY <1>1, <2>1, <2>3
<1>4. /\ r \in Seq(Alphabet) /\ Len(r) = M - n
      /\ \A j \in 1 .. M - n : r[j] = wire[n + j]
  <2>1. /\ r \in Seq(Alphabet)
        /\ Len(r) = IF n + 1 <= M THEN M - (n + 1) + 1 ELSE 0
        /\ \A j \in 1 .. M - (n + 1) + 1 : r[j] = wire[n + 1 + j - 1]
    <3>1. n + 1 \in Int /\ M \in Int /\ \A j \in n + 1 .. M : wire[j] \in Alphabet
      BY <1>1
    <3> QED BY <3>1, SubSeqProperties
  <2> HIDE DEF r, M
  <2>2. \A j \in 1 .. M - n : n + 1 + j - 1 = n + j /\ j \in 1 .. M - (n + 1) + 1
    BY <1>1
  <2>3. \A j \in 1 .. M - n : r[j] = wire[n + j]
    BY <2>1, <2>2
  <2> QED BY <1>1, <2>1, <2>3
<1> HIDE DEF c, r, M
<1>5. /\ streamBuffer' \in Seq(Alphabet) /\ Size' = Size + n
      /\ \A j \in 1 .. Size : streamBuffer'[j] = streamBuffer[j]
      /\ \A j \in 1 .. n : streamBuffer'[Size + j] = c[j]
  <2>1. streamBuffer \in Seq(Alphabet) /\ c \in Seq(Alphabet)
    BY <1>3 DEF StreamType
  <2> DEFINE s == streamBuffer \o c
  <2>2. /\ s \in Seq(Alphabet) /\ Len(s) = Len(streamBuffer) + Len(c)
        /\ \A j \in 1 .. Len(streamBuffer) : s[j] = streamBuffer[j]
        /\ \A j \in 1 .. Len(c) : s[Len(streamBuffer) + j] = c[j]
    BY <2>1, ConcatParts
  <2>3. s = streamBuffer'
    BY <1>2
  <2> HIDE DEF s
  <2> QED BY <1>3, <2>2, <2>3 DEF Size
<1>6. Ahead' = Ahead /\ Len(wire') = M - n
  <2>1. Len(wire') = M - n /\ Size' = Size + n
    BY <1>2, <1>4, <1>5
  <2>2. Ahead' = Size' + Len(wire')
    BY DEF Ahead
  <2> QED BY <1>1, <2>1, <2>2
<1>7. StreamType'
  BY <1>1, <1>2, <1>4, <1>5, <1>6 DEF StreamType
<1>8. Base' = Base
  BY <1>2, <1>6 DEF Base
<1>9. ASSUME NEW j \in 1 .. Ahead PROVE Stream'[j] = Stream[j]
  <2>0. j \in 1 .. Ahead' /\ Size' = Size + n
    BY <1>5, <1>6
  <2>1. CASE j <= Size
    <3>0. j <= Size'
      BY <1>1, <2>0, <2>1
    <3>1. Stream'[j] = streamBuffer'[j]
      BY <2>0, <3>0, InBufferThen
    <3>2. Stream[j] = streamBuffer[j]
      BY <2>1, InBuffer
    <3> QED BY <1>5, <2>1, <3>1, <3>2
  <2>2. CASE ~(j <= Size) /\ j <= Size + n
    <3> DEFINE m == j - Size
    <3>1. m \in 1 .. n /\ j = Size + m
      BY <1>1, <2>2
    <3>2. Stream'[j] = streamBuffer'[j]
      BY <2>0, <2>2, InBufferThen
    <3>3. Stream[j] = wire[m]
      BY <2>2, OnWire
    <3> HIDE DEF m
    <3> QED BY <1>3, <1>5, <3>1, <3>2, <3>3
  <2>3. CASE ~(j <= Size + n)
    <3> DEFINE m == j - (Size + n)
    <3>1. m \in 1 .. M - n /\ j - Size = n + m
      BY <1>1, <2>3
    <3>2. ~(j <= Size') /\ ~(j <= Size)
      BY <1>1, <2>0, <2>3
    <3>3. Stream'[j] = wire'[j - Size']
      BY <2>0, <3>2, OnWireThen
    <3>4. Stream[j] = wire[n + m]
      BY <3>1, <3>2, OnWire
    <3>5. j - Size' = m
      BY <2>0
    <3> HIDE DEF m
    <3> QED BY <1>2, <1>4, <3>1, <3>3, <3>4, <3>5
  <2> QED BY <2>1, <2>2, <2>3
<1> QED BY <1>6, <1>7, <1>8, <1>9

\* Bytes that are written come behind all others.
LEMMA WriteBytes ==
    ASSUME StreamType, NEW bytes \in Seq(Alphabet), Write(bytes)
    PROVE  /\ streamBuffer' \in Seq(Alphabet) /\ wire' \in Seq(Alphabet)
           /\ written' = written + Len(bytes) /\ written' \in Nat
           /\ Ahead' = Ahead + Len(bytes) /\ Ahead' <= written' /\ Base' = Base
           /\ \A j \in 1 .. Ahead : Stream'[j] = Stream[j]
           /\ \A j \in 1 .. Len(bytes) : Stream'[Ahead + j] = bytes[j]
           /\ written' - Len(wire') = written - Len(wire)
<1> DEFINE M == Len(wire)  m == Len(bytes)
<1>1. /\ Size \in Nat /\ M \in Nat /\ Ahead = Size + M /\ m \in Nat
      /\ written \in Nat /\ Ahead <= written
  BY StreamSizes, LenProperties DEF StreamType, Ahead
<1>2. /\ streamBuffer' = streamBuffer /\ wire' = wire \o bytes
      /\ written' = written + m
  BY DEF Write
<1>3. /\ wire' \in Seq(Alphabet) /\ Len(wire') = M + m
      /\ \A j \in 1 .. M : wire'[j] = wire[j]
      /\ \A j \in 1 .. m : wire'[M + j] = bytes[j]
  <2>1. wire \in Seq(Alphabet)
    BY DEF StreamType
  <2> DEFINE s == wire \o bytes
  <2>2. /\ s \in Seq(Alphabet) /\ Len(s) = M + m
        /\ \A j \in 1 .. M : s[j] = wire[j]
        /\ \A j \in 1 .. m : s[M + j] = bytes[j]
    BY <2>1, ConcatParts
  <2>3. s = wire'
    BY <1>2
  <2> HIDE DEF s
  <2> QED BY <2>2, <2>3
<1>4. Size' = Size
  BY <1>2 DEF Size
<1> HIDE DEF M, m
<1>5. Ahead' = Ahead + m
  BY <1>1, <1>3, <1>4, SMTT(60) DEF Ahead
<1>6. Base' = Base /\ written' \in Nat /\ Ahead' <= written'
  BY <1>1, <1>2, <1>5 DEF Base
<1>7. ASSUME NEW j \in 1 .. Ahead PROVE Stream'[j] = Stream[j]
  <2>0. j \in 1 .. Ahead'
    BY <1>1, <1>5
  <2>1. CASE j <= Size
    <3>1. Stream[j] = streamBuffer[j]
      BY <2>1, InBuffer
    <3>2. Stream'[j] = streamBuffer'[j]
      BY <1>4, <2>0, <2>1, InBufferThen
    <3> QED BY <1>2, <3>1, <3>2
  <2>2. CASE ~(j <= Size)
    <3>1. j - Size \in 1 .. M
      BY <1>1, <2>2
    <3>2. Stream'[j] = wire'[j - Size]
      BY <1>4, <2>0, <2>2, OnWireThen
    <3>3. Stream[j] = wire[j - Size]
      BY <2>2, OnWire
    <3> QED BY <1>3, <3>1, <3>2, <3>3
  <2> QED BY <2>1, <2>2
<1>8. ASSUME NEW j \in 1 .. m PROVE Stream'[Ahead + j] = bytes[j]
  <2> DEFINE k == Ahead + j
  <2>1. ~(k <= Size) /\ k - Size = M + j
    BY <1>1
  <2> HIDE DEF k
  <2>2. Stream'[k] = wire'[M + j]
    <3>1. k \in 1 .. Ahead'
      BY <1>1, <1>5 DEF k
    <3> QED BY <1>4, <2>1, <3>1, OnWireThen
  <2> QED BY <1>3, <2>2 DEF k
<1>9. streamBuffer' \in Seq(Alphabet)
  BY <1>2 DEF StreamType
<1>10. written' - Len(wire') = written - M
  BY <1>1, <1>2, <1>3
<1> QED BY <1>1, <1>2, <1>3, <1>5, <1>6, <1>7, <1>8, <1>9, <1>10 DEF m, M

-----------------------------------------------------------------------------
(* What a round of the loop does to the frames that were sent whole.       *)

\* Nothing of a frame that is yet to be parsed is among the next k bytes.
Spares(k) == \A i \in DOMAIN sent : Pending(i) => Base + k <= First(i)

\* What is in the buffer of a frame that is yet to be parsed.
LEMMA PendingBytes ==
    ASSUME StreamType, InOrder, NEW i \in DOMAIN sent, Pending(i)
    PROVE  LET q == First(i) - Base  n == Len(Code(i))
           IN  /\ q \in Nat /\ n \in Nat /\ 9 <= n /\ n <= MAX_FRAME_SIZE
               /\ First(i) = Base + q /\ sent[i].end = Base + q + n
               /\ Base \in Nat /\ q + n <= Ahead
               /\ q + 1 <= Size => streamBuffer[q + 1] = START_MARKER
               /\ q + n <= Size => streamBuffer[q + n] = END_MARKER
               /\ \A k \in 2 .. n - 1 : q + k <= Size =>
                     streamBuffer[q + k] \notin {START_MARKER, END_MARKER}
               /\ \A k \in 1 .. n : q + k <= Size =>
                     streamBuffer[q + k] = Code(i)[k]
<1> DEFINE q == First(i) - Base  n == Len(Code(i))
<1>1. /\ First(i) \in Int /\ sent[i].end = First(i) + n
      /\ n \in Nat /\ 9 <= n /\ n <= MAX_FRAME_SIZE
      /\ Code(i)[1] = START_MARKER /\ Code(i)[n] = END_MARKER
      /\ \A k \in 2 .. n - 1 : Code(i)[k] \notin {START_MARKER, END_MARKER}
  BY SentShape
<1>2. /\ Base \in Nat /\ Ahead \in Nat /\ Size \in Nat /\ Base = written - Ahead
      /\ written \in Nat
  BY StreamSizes DEF Base, StreamType
<1>3. /\ Base <= First(i) /\ sent[i].end <= written
      /\ \A k \in 1 .. n : Stream[q + k] = Code(i)[k]
  BY DEF Pending, InOrder
<1>4. /\ q \in Nat /\ First(i) = Base + q /\ sent[i].end = Base + q + n
      /\ q + n <= Ahead
  <2>1. /\ First(i) \in Int /\ n \in Nat /\ sent[i].end = First(i) + n
        /\ Base <= First(i) /\ sent[i].end <= written
    BY <1>1, <1>3
  <2> HIDE DEF n
  <2> QED BY <1>2, <2>1
<1> HIDE DEF q, n
<1>5. ASSUME NEW k \in 1 .. n, q + k <= Size
      PROVE  streamBuffer[q + k] = Code(i)[k]
  <2>1. q + k \in 1 .. Ahead
    BY <1>1, <1>2, <1>4
  <2>2. Stream[q + k] = streamBuffer[q + k]
    BY <1>5, <2>1, InBuffer
  <2> QED BY <1>3, <2>2
<1>6. q + 1 <= Size => streamBuffer[q + 1] = START_MARKER
  <2>1. 1 \in 1 .. n
    BY <1>1
  <2> QED BY <1>1, <1>5, <2>1
<1>7. q + n <= Size => streamBuffer[q + n] = END_MARKER
  <2>1. n \in 1 .. n
    BY <1>1
  <2> QED BY <1>1, <1>5, <2>1
<1>8. ASSUME NEW k \in 2 .. n - 1, q + k <= Size
      PROVE  streamBuffer[q + k] \notin {START_MARKER, END_MARKER}
  <2>1. k \in 1 .. n
    BY <1>1
  <2> QED BY <1>1, <1>5, <1>8, <2>1
<1> QED BY <1>1, <1>2, <1>4, <1>5, <1>6, <1>7, <1>8 DEF q, n

\* Its first byte is a START_MARKER, and its last an END_MARKER.
LEMMA PendingMarkers ==
    ASSUME StreamType, InOrder, NEW i \in DOMAIN sent, Pending(i)
    PROVE  LET q == First(i) - Base  n == Len(Code(i))
           IN  /\ q + 1 <= Size => q + 1 \in Starts
               /\ q + 1 <= Size /\ q # 0 => q + 1 \in Delimiters
               /\ q + n <= Size => q + n \in Delimiters \ Starts
               /\ \A k \in Delimiters : k > q => k > q + n - 1 \/ k = q + 1
<1> DEFINE q == First(i) - Base  n == Len(Code(i))
<1>1. /\ q \in Nat /\ n \in Nat /\ 9 <= n
      /\ q + 1 <= Size => streamBuffer[q + 1] = START_MARKER
      /\ q + n <= Size => streamBuffer[q + n] = END_MARKER
      /\ \A k \in 2 .. n - 1 : q + k <= Size =>
            streamBuffer[q + k] \notin {START_MARKER, END_MARKER}
  BY PendingBytes
<1>2. Size \in Nat /\ DOMAIN streamBuffer = 1 .. Size
  BY StreamSizes
<1>3. START_MARKER # END_MARKER
  BY DEF START_MARKER, END_MARKER
<1> HIDE DEF q, n
<1>4. q + 1 <= Size => q + 1 \in Starts
  BY <1>1, <1>2 DEF Starts, Places
<1>5. q + 1 <= Size /\ q # 0 => q + 1 \in Delimiters
  BY <1>1, <1>2 DEF Delimiters, Places
<1>6. q + n <= Size => q + n \in Delimiters \ Starts
  BY <1>1, <1>2, <1>3 DEF Delimiters, Starts, Places
<1>7. ASSUME NEW k \in Delimiters, k > q PROVE k > q + n - 1 \/ k = q + 1
  <2>1. k \in 1 .. Size /\ streamBuffer[k] \in {START_MARKER, END_MARKER}
    BY <1>2 DEF Delimiters, Places
  <2>2. SUFFICES ASSUME k <= q + n - 1, k # q + 1 PROVE FALSE
    BY <1>1, <2>1
  <2> DEFINE m == k - q
  <2>3. m \in 2 .. n - 1 /\ q + m = k
    BY <1>1, <1>7, <2>1, <2>2
  <2> HIDE DEF m
  <2>4. streamBuffer[q + m] \notin {START_MARKER, END_MARKER}
    BY <1>1, <2>1, <2>3
  <2> QED BY <2>1, <2>3, <2>4
<1> QED BY <1>4, <1>5, <1>6, <1>7 DEF q, n

\* The buffer is dropped when there is no START_MARKER in it.
LEMMA DiscardDrops ==
    ASSUME StreamType, InOrder, Discard
    PROVE  Spares(Size) /\ streamBuffer' = From(Size + 1)
<1>1. Size \in Nat /\ streamBuffer' = <<>> /\ Starts = {}
  BY StreamSizes DEF Discard
<1>2. Spares(Size)
  <2> SUFFICES ASSUME NEW i \in DOMAIN sent, Pending(i)
               PROVE  Base + Size <= First(i)
    BY DEF Spares
  <2> DEFINE q == First(i) - Base
  <2>1. q \in Nat /\ First(i) = Base + q /\ Base \in Nat
    BY PendingBytes
  <2>2. q + 1 <= Size => q + 1 \in Starts
    BY PendingMarkers
  <2> HIDE DEF q
  <2> QED BY <1>1, <2>1, <2>2
<1>3. From(Size + 1) = <<>>
  BY <1>1, SubSeqEmpty DEF From, Size
<1> QED BY <1>1, <1>2, <1>3

\* What is before the first START_MARKER is dropped.
LEMMA AlignDrops ==
    ASSUME StreamType, InOrder, Align
    PROVE  \E k \in 0 .. Size : Spares(k) /\ streamBuffer' = From(k + 1)
<1>1. PICK i \in Starts : IsFirst(i, Starts) /\ streamBuffer' = From(i)
  BY DEF Align
<1>2. Size \in Nat /\ i \in 1 .. Size
  BY StreamSizes DEF Starts, Places
<1>3. Spares(i - 1)
  <2> SUFFICES ASSUME NEW j \in DOMAIN sent, Pending(j)
               PROVE  Base + (i - 1) <= First(j)
    BY DEF Spares
  <2> DEFINE q == First(j) - Base
  <2>1. q \in Nat /\ First(j) = Base + q /\ Base \in Nat
    BY PendingBytes
  <2>2. q + 1 <= Size => q + 1 \in Starts
    BY PendingMarkers
  <2> HIDE DEF q
  <2>3. q + 1 \in Starts => i <= q + 1
    BY <1>1 DEF IsFirst
  <2> QED BY <1>2, <2>1, <2>2, <2>3
<1>4. i - 1 \in 0 .. Size /\ i - 1 + 1 = i
  BY <1>2
<1> QED BY <1>1, <1>3, <1>4

\* A frame that is cut short by a START_MARKER was not sent whole.
LEMMA RestartDrops ==
    ASSUME StreamType, InOrder, Restart
    PROVE  \E k \in 0 .. Size : Spares(k) /\ streamBuffer' = From(k + 1)
<1>1. PICK i \in Starts : IsFirst(i, Delimiters) /\ streamBuffer' = From(i)
  BY DEF Restart
<1>2. Size \in Nat /\ i \in 1 .. Size /\ i \in Delimiters /\ i # 1
  BY <1>1, StreamSizes DEF Starts, Places, IsFirst, Delimiters
<1>3. Spares(i - 1)
  <2> SUFFICES ASSUME NEW j \in DOMAIN sent, Pending(j)
               PROVE  Base + (i - 1) <= First(j)
    BY DEF Spares
  <2> DEFINE q == First(j) - Base  n == Len(Code(j))
  <2>1. q \in Nat /\ First(j) = Base + q /\ Base \in Nat /\ n \in Nat /\ 9 <= n
    BY PendingBytes
  <2>2. /\ q + 1 <= Size /\ q # 0 => q + 1 \in Delimiters
        /\ q + n <= Size => q + n \in Delimiters \ Starts
        /\ \A k \in Delimiters : k > q => k > q + n - 1 \/ k = q + 1
    BY PendingMarkers
  <2> HIDE DEF q, n
  <2>3. \A k \in Delimiters : i <= k
    BY <1>1 DEF IsFirst
  <2>4. q # 0
    <3> SUFFICES ASSUME q = 0 PROVE FALSE
      OBVIOUS
    <3>1. i > n - 1
      BY <1>2, <2>1, <2>2
    <3>2. n <= Size
      BY <1>2, <2>1, <3>1
    <3>3. n \in Delimiters \ Starts
      BY <2>1, <2>2, <3>2
    <3>4. i = n
      BY <1>2, <2>1, <2>3, <3>1, <3>3
    <3> QED BY <3>3, <3>4
  <2> QED BY <1>2, <2>1, <2>2, <2>3, <2>4
<1>4. i - 1 \in 0 .. Size /\ i - 1 + 1 = i
  BY <1>2
<1> QED BY <1>1, <1>3, <1>4

\* A buffer that is too long holds no whole frame, and none starts it.
LEMMA AwaitDrops ==
    ASSUME StreamType, InOrder, Await
    PROVE  /\ \E k \in 0 .. Size : Spares(k) /\ streamBuffer' = From(k + 1)
           /\ \A i \in DOMAIN sent : Pending(i) => Base + Size < sent[i].end
<1>1. Size \in Nat /\ Delimiters = {} /\ streamBuffer' = Trimmed(streamBuffer)
  BY StreamSizes DEF Await
<1>2. ASSUME NEW i \in DOMAIN sent, Pending(i)
      PROVE  /\ Base + Size < sent[i].end
             /\ Size > 2 * MAX_FRAME_SIZE => Base + 1 <= First(i)
  <2> DEFINE q == First(i) - Base  n == Len(Code(i))
  <2>1. /\ q \in Nat /\ First(i) = Base + q /\ Base \in Nat /\ n \in Nat
        /\ n <= MAX_FRAME_SIZE /\ sent[i].end = Base + q + n
    BY <1>2, PendingBytes
  <2>2. q + n <= Size => q + n \in Delimiters \ Starts
    BY <1>2, PendingMarkers
  <2> HIDE DEF q, n
  <2>3. Delimiters \ Starts = {}
    BY <1>1
  <2>4. ~(q + n <= Size)
    BY <2>2, <2>3
  <2>5. Base + Size < sent[i].end
    BY <1>1, <2>1, <2>4
  <2>6. q + 1 <= Size /\ q # 0 => q + 1 \in Delimiters
    BY <1>2, PendingMarkers DEF q
  <2>7. q # 0 => ~(q + 1 <= Size)
    BY <1>1, <2>6
  <2>8. Size > 2 * MAX_FRAME_SIZE => Base + 1 <= First(i)
    BY <1>1, <2>1, <2>4, <2>7, CodecAssumption DEF CodecAssumption
  <2> QED BY <2>5, <2>8
<1>3. CASE Size > 2 * MAX_FRAME_SIZE
  <2>1. streamBuffer \in Seq(Alphabet) /\ streamBuffer # <<>>
    <3>1. Size \in Nat /\ MAX_FRAME_SIZE \in Nat
      BY Sizes, StreamSizes
    <3>2. Size # 0
      BY <1>3, <3>1
    <3>3. streamBuffer \in Seq(Alphabet) /\ Len(streamBuffer) # 0
      BY <3>2 DEF StreamType, Size
    <3> QED BY <3>3, EmptySeq
  <2>2. streamBuffer' = Tail(streamBuffer)
    BY <1>1, <1>3, Zenon DEF Trimmed, Size
  <2>3. streamBuffer' = From(1 + 1)
    <3>1. 1 + 1 = 2
      OBVIOUS
    <3>2. Tail(streamBuffer) = SubSeq(streamBuffer, 2, Len(streamBuffer))
      BY <2>1, TailIsSubSeq
    <3> QED BY <2>2, <3>1, <3>2, Zenon DEF From
  <2>4. Spares(1)
    BY <1>2, <1>3 DEF Spares
  <2>5. 1 \in 0 .. Size
    BY <1>3, Sizes, StreamSizes
  <2> QED BY <1>2, <2>3, <2>4, <2>5
<1>4. CASE ~(Size > 2 * MAX_FRAME_SIZE)
  <2>1. streamBuffer' = streamBuffer
    BY <1>1, <1>4, Zenon DEF Trimmed, Size
  <2>2. streamBuffer' = From(0 + 1)
    <3>1. 0 + 1 = 1
      OBVIOUS
    <3>2. SubSeq(streamBuffer, 1, Len(streamBuffer)) = streamBuffer
      BY SubSeqFull DEF StreamType
    <3> QED BY <2>1, <3>1, <3>2, Zenon DEF From
  <2>3. Spares(0) /\ 0 \in 0 .. Size
    BY <1>1, StreamSizes DEF Spares, Pending
  <2> QED BY <1>2, <2>2, <2>3
<1> QED BY <1>3, <1>4

\* The first i bytes are cut out: they are a frame that was sent whole, or
\* nothing of such a frame is among them.
Cuts(i) == \E j \in DOMAIN sent :
              /\ Pending(j) /\ First(j) = Base /\ i = Len(Code(j))
              /\ delivered' = Append(delivered, sent[j].frame)

\* A slice that is cut out is a frame that was sent whole, and that frame is
\* delivered, or nothing of such a frame is in it.
LEMMA ExtractDrops ==
    ASSUME StreamType, InOrder, Extract
    PROVE  \E k \in 1 .. Size :
              /\ streamBuffer' = From(k + 1)
              /\ \/ Cuts(k)
                 \/ /\ Spares(k)
                    /\ \/ delivered' = delivered
                       \/ \E x : delivered' = Append(delivered, x)
<1> DEFINE slice(i) == SubSeq(streamBuffer, 1, i)
<1>1. PICK i \in Delimiters \ Starts :
         /\ IsFirst(i, Delimiters) /\ streamBuffer' = From(i + 1)
         /\ delivered' = IF Decodable(slice(i))
                         THEN Append(delivered, Decode(slice(i))) ELSE delivered
  BY DEF Extract
<1>2. Size \in Nat /\ i \in 1 .. Size /\ i # 1
  BY <1>1, StreamSizes DEF Delimiters, Places
<1>3. \A k \in Delimiters : i <= k
  BY <1>1 DEF IsFirst
<1>4. CASE \E j \in DOMAIN sent : Pending(j) /\ First(j) = Base
  <2>1. PICK j \in DOMAIN sent : Pending(j) /\ First(j) = Base
    BY <1>4
  <2> DEFINE q == First(j) - Base  n == Len(Code(j))
  <2>2. /\ q \in Nat /\ n \in Nat /\ 9 <= n /\ First(j) = Base + q
        /\ Base \in Nat
        /\ \A k \in 1 .. n : q + k <= Size => streamBuffer[q + k] = Code(j)[k]
    BY <2>1, PendingBytes
  <2>3. /\ q + n <= Size => q + n \in Delimiters \ Starts
        /\ \A k \in Delimiters : k > q => k > q + n - 1 \/ k = q + 1
    BY <2>1, PendingMarkers
  <2> HIDE DEF q, n
  <2>4. q = 0
    BY <2>1, <2>2
  <2>5. i > n - 1
    BY <1>2, <2>2, <2>3, <2>4
  <2>6. n <= Size /\ n \in Delimiters
    BY <1>2, <2>2, <2>3, <2>4, <2>5
  <2>7. i = n
    BY <1>2, <1>3, <2>2, <2>5, <2>6
  <2>8. slice(i) = Code(j)
    <3>1. Code(j) \in Seq(Alphabet) /\ Len(Code(j)) = i
      <4>1. sent[j].frame \in Frames
        BY SentShape
      <4> QED BY <2>7, <4>1, EncodeType DEF Code, n
    <3>2. \A k \in 1 .. i : streamBuffer[k] = Code(j)[k]
      <4> SUFFICES ASSUME NEW k \in 1 .. i PROVE streamBuffer[k] = Code(j)[k]
        OBVIOUS
      <4>1. q + k = k /\ k <= Size /\ k \in 1 .. n
        BY <1>2, <2>4, <2>6, <2>7
      <4>2. q + k <= Size
        BY <4>1
      <4>3. streamBuffer[q + k] = Code(j)[k]
        BY <2>2, <4>1, <4>2
      <4> QED BY <4>1, <4>3
    <3>3. /\ slice(i) \in Seq(Alphabet) /\ Len(slice(i)) = i
          /\ \A k \in 1 .. i : slice(i)[k] = streamBuffer[k]
      <4>1. 1 \in Int /\ i \in Int /\ \A k \in 1 .. i : streamBuffer[k] \in Alphabet
        BY <1>2, ElementOfSeq DEF StreamType, Size
      <4> DEFINE s == SubSeq(streamBuffer, 1, i)
      <4>2. /\ s \in Seq(Alphabet) /\ Len(s) = IF 1 <= i THEN i - 1 + 1 ELSE 0
            /\ \A k \in 1 .. i - 1 + 1 : s[k] = streamBuffer[1 + k - 1]
        BY <4>1, SubSeqProperties
      <4> HIDE DEF s
      <4>3. \A k \in 1 .. i : 1 + k - 1 = k /\ k \in 1 .. i - 1 + 1
        BY <1>2
      <4>4. \A k \in 1 .. i : s[k] = streamBuffer[k]
        BY <4>2, <4>3
      <4>5. Len(s) = i
        BY <1>2, <4>2
      <4> QED BY <4>2, <4>4, <4>5 DEF s
    <3> HIDE DEF slice
    <3> QED BY <3>1, <3>2, <3>3, SeqEqual
  <2>9. Decodable(Code(j)) /\ Decode(Code(j)) = sent[j].frame
    BY SentShape
  <2>10. delivered' = Append(delivered, sent[j].frame)
    BY <1>1, <2>8, <2>9
  <2>11. Cuts(i)
    BY <2>1, <2>7, <2>10 DEF Cuts, n
  <2> QED BY <1>1, <1>2, <2>11
<1>5. CASE ~ \E j \in DOMAIN sent : Pending(j) /\ First(j) = Base
  <2>1. Spares(i)
    <3> SUFFICES ASSUME NEW j \in DOMAIN sent, Pending(j)
                 PROVE  Base + i <= First(j)
      BY DEF Spares
    <3> DEFINE q == First(j) - Base
    <3>1. q \in Nat /\ First(j) = Base + q /\ Base \in Nat
      BY PendingBytes
    <3>2. /\ q + 1 <= Size => q + 1 \in Starts
          /\ q + 1 <= Size /\ q # 0 => q + 1 \in Delimiters
      BY PendingMarkers
    <3> HIDE DEF q
    <3>3. q # 0
      BY <1>5, <3>1
    <3>4. CASE q + 1 <= Size
      <4>1. i <= q + 1 /\ i # q + 1
        BY <1>1, <1>3, <3>2, <3>3, <3>4
      <4> QED BY <1>2, <3>1, <4>1
    <3>5. CASE ~(q + 1 <= Size)
      BY <1>2, <3>1, <3>5
    <3> QED BY <3>4, <3>5
  <2>2. delivered' = delivered \/ \E x : delivered' = Append(delivered, x)
    BY <1>1
  <2> QED BY <1>1, <1>2, <2>1, <2>2
<1> QED BY <1>4, <1>5

-----------------------------------------------------------------------------
(* What a step does to the invariant.                                      *)

\* What was delivered stays where it is.
Grows == /\ \E S : delivered' \in Seq(S)
         /\ DOMAIN delivered \subseteq DOMAIN delivered'
         /\ \A n \in DOMAIN delivered : delivered'[n] = delivered[n]

\* A frame that is delivered comes behind the others.
LEMMA DeliveredGrows ==
    ASSUME \E S : delivered \in Seq(S),
           delivered' = delivered \/ \E x : delivered' = Append(delivered, x)
    PROVE  Grows
<1>1. CASE delivered' = delivered
  BY <1>1 DEF Grows
<1>2. CASE \E x : delivered' = Append(delivered, x)
  <2>1. PICK x : delivered' = Append(delivered, x)
    BY <1>2
  <2>2. PICK S : delivered \in Seq(S)
    OBVIOUS
  <2>3. delivered \in Seq(S \cup {x}) /\ x \in S \cup {x}
    BY <2>2, SeqMonotonic
  <2> DEFINE T == S \cup {x}  d == Append(delivered, x)
  <2>4. /\ d \in Seq(T) /\ Len(d) = Len(delivered) + 1
        /\ \A n \in 1 .. Len(delivered) : d[n] = delivered[n]
    <3> HIDE DEF T
    <3>1. delivered \in Seq(T) /\ x \in T
      BY <2>3 DEF T
    <3> QED BY <3>1, AppendProperties
  <2>5. d = delivered'
    BY <2>1
  <2> HIDE DEF T, d
  <2>6. /\ DOMAIN delivered = 1 .. Len(delivered) /\ Len(delivered) \in Nat
        /\ DOMAIN d = 1 .. Len(d)
    BY <2>2, <2>4, LenProperties
  <2>7. DOMAIN delivered \subseteq DOMAIN d
    BY <2>4, <2>6
  <2> QED BY <2>4, <2>5, <2>6, <2>7 DEF Grows
<1> QED BY <1>1, <1>2

\* No frame that was sent whole is touched when nothing of those that are
\* pending is among the k bytes that go.
LEMMA FramesStay ==
    ASSUME StreamType, InOrder, NoneTorn, NEW k \in Nat, Base' = Base + k,
           Spares(k), \A j \in 1 .. Ahead - k : Stream'[j] = Stream[j + k],
           \A i \in DOMAIN sent : sent'[i] = sent[i]
    PROVE  \A i \in DOMAIN sent :
              /\ Code(i)' = Code(i) /\ First(i)' = First(i)
              /\ sent'[i].end = sent[i].end
              /\ Past(i)' <=> Past(i)
              /\ Pending(i) => Pending(i)'
<1> SUFFICES ASSUME NEW i \in DOMAIN sent
             PROVE  /\ Code(i)' = Code(i) /\ First(i)' = First(i)
                    /\ sent'[i].end = sent[i].end
                    /\ Past(i)' <=> Past(i)
                    /\ Pending(i) => Pending(i)'
  OBVIOUS
<1>1. sent[i].end <= written /\ sent'[i] = sent[i]
  BY DEF InOrder
<1>2. /\ Code(i)' = Code(i) /\ First(i)' = First(i)
      /\ Past(i) => Past(i)'
      /\ Pending(i) /\ Base + k <= First(i) => Pending(i)'
  BY <1>1, FrameStays
<1>3. Pending(i) => Base + k <= First(i)
  BY DEF Spares
<1>4. Pending(i) => ~Past(i)'
  <2> DEFINE n == Len(Code(i))
  <2>1. sent[i].end = First(i) + n /\ First(i) \in Int /\ n \in Nat /\ 9 <= n
    BY SentShape
  <2>2. Base \in Nat
    BY StreamSizes
  <2> HIDE DEF n
  <2>3. Pending(i) => ~(sent[i].end <= Base')
    BY <1>3, <2>1, <2>2
  <2> QED BY <1>1, <2>3 DEF Past
<1>5. Past(i) \/ Pending(i)
  BY DEF NoneTorn
<1>6. sent'[i].end = sent[i].end
  BY <1>1
<1> QED BY <1>2, <1>3, <1>4, <1>5, <1>6, Zenon

\* Frames that were delivered stay so.
LEMMA GoneStays ==
    ASSUME GoneDelivered, Gone' = Gone, Grows,
           \A i \in Gone : sent'[i] = sent[i]
    PROVE  GoneDelivered'
<1>1. PICK place \in [Gone -> DOMAIN delivered] :
         /\ \A i \in Gone : delivered[place[i]] = sent[i].frame
         /\ \A i, j \in Gone : i < j => place[i] < place[j]
  BY DEF GoneDelivered
<1>2. place \in [Gone' -> DOMAIN delivered']
  BY <1>1 DEF Grows
<1>3. \A i \in Gone' : delivered'[place[i]] = sent'[i].frame
  <2> SUFFICES ASSUME NEW i \in Gone
               PROVE  delivered'[place[i]] = sent'[i].frame
    OBVIOUS
  <2>1. place[i] \in DOMAIN delivered /\ delivered[place[i]] = sent[i].frame
    BY <1>1
  <2> QED BY <2>1 DEF Grows
<1> QED BY <1>1, <1>2, <1>3 DEF GoneDelivered

\* The part of the invariant that does not depend on when a round ends.
Kept == StreamType /\ InOrder /\ NoneTorn /\ GoneDelivered
        /\ \E S : delivered \in Seq(S)

\* A round that drops the next k bytes.
LEMMA DropKeeps ==
    ASSUME Kept, NEW k \in 0 .. Size, streamBuffer' = From(k + 1), Spares(k),
           UNCHANGED <<wire, sent, written>>,
           delivered' = delivered \/ \E x : delivered' = Append(delivered, x)
    PROVE  /\ Kept' /\ Arrived' = Arrived
           /\ \A i \in DOMAIN sent : Past(i)' <=> Past(i)
<1>0. /\ StreamType /\ InOrder /\ NoneTorn /\ GoneDelivered
      /\ \E S : delivered \in Seq(S)
  BY DEF Kept
<1>1. /\ StreamType' /\ Base' = Base + k
      /\ \A j \in 1 .. Ahead - k : Stream'[j] = Stream[j + k]
      /\ written' - Len(wire)' = written - Len(wire)
  BY <1>0, DropBytes
<1>2. k \in Nat /\ sent' = sent /\ written' = written
  BY <1>0, StreamSizes
<1>3. \A i \in DOMAIN sent :
         /\ Code(i)' = Code(i) /\ First(i)' = First(i)
         /\ sent'[i].end = sent[i].end
         /\ Past(i)' <=> Past(i)
         /\ Pending(i) => Pending(i)'
  BY <1>0, <1>1, <1>2, FramesStay
<1>4. InOrder'
  BY <1>0, <1>2, <1>3 DEF InOrder
<1>5. NoneTorn'
  BY <1>0, <1>2, <1>3 DEF NoneTorn
<1>6. Grows
  BY <1>0, DeliveredGrows
<1>7. Gone' = Gone
  BY <1>2, <1>3 DEF Gone
<1>8. GoneDelivered'
  BY <1>0, <1>2, <1>6, <1>7, GoneStays
<1>9. Arrived' = Arrived
  BY <1>1, <1>2 DEF Arrived
<1>10. \E S : delivered' \in Seq(S)
  BY <1>6 DEF Grows
<1>11. Kept'
  BY <1>1, <1>4, <1>5, <1>8, <1>10 DEF Kept
<1> QED BY <1>3, <1>9, <1>11

\* A round that cuts out a frame that was sent whole.
LEMMA CutFrames ==
    ASSUME Kept, NEW k \in 0 .. Size, streamBuffer' = From(k + 1), Cuts(k),
           UNCHANGED <<wire, sent, written>>
    PROVE  /\ StreamType' /\ InOrder' /\ NoneTorn'
           /\ \A i \in DOMAIN sent : First(i)' = First(i)
           /\ \E j \in DOMAIN sent :
                 /\ Base' = sent[j].end
                 /\ delivered' = Append(delivered, sent[j].frame)
                 /\ Gone = 1 .. j - 1 /\ Gone' = 1 .. j
<1>0. /\ StreamType /\ InOrder /\ NoneTorn /\ GoneDelivered
      /\ \E S : delivered \in Seq(S)
  BY DEF Kept
<1>1. /\ StreamType' /\ Base' = Base + k
      /\ \A j \in 1 .. Ahead - k : Stream'[j] = Stream[j + k]
  BY <1>0, DropBytes
<1>2. k \in Nat /\ sent' = sent /\ written' = written /\ Base \in Nat
      /\ DOMAIN sent = 1 .. Len(sent) /\ Len(sent) \in Nat
  BY <1>0, StreamSizes
<1>3. PICK j \in DOMAIN sent :
         /\ Pending(j) /\ First(j) = Base /\ k = Len(Code(j))
         /\ delivered' = Append(delivered, sent[j].frame)
  BY DEF Cuts
<1>4. sent[j].end = Base + k /\ 9 <= k
  BY <1>0, <1>3, SentShape
<1>5. \A i \in DOMAIN sent :
         /\ Code(i)' = Code(i) /\ First(i)' = First(i)
         /\ Past(i) => Past(i)'
         /\ Pending(i) /\ Base + k <= First(i) => Pending(i)'
  <2> SUFFICES ASSUME NEW i \in DOMAIN sent
               PROVE  /\ Code(i)' = Code(i) /\ First(i)' = First(i)
                      /\ Past(i) => Past(i)'
                      /\ Pending(i) /\ Base + k <= First(i) => Pending(i)'
    OBVIOUS
  <2>1. sent[i].end <= written /\ sent'[i] = sent[i]
    BY <1>0, <1>2 DEF InOrder
  <2> QED BY <1>0, <1>1, <1>2, <2>1, FrameStays
<1>6. ASSUME NEW i \in DOMAIN sent, i < j PROVE Past(i)
  BY <1>0, <1>3, <1>6 DEF InOrder, Past
<1>7. ASSUME NEW i \in DOMAIN sent, j < i
      PROVE  ~Past(i) /\ Pending(i) /\ Base + k <= First(i)
  <2> DEFINE n == Len(Code(i))
  <2>1. sent[i].end = First(i) + n /\ First(i) \in Int /\ n \in Nat /\ 9 <= n
    BY <1>0, SentShape
  <2>2. sent[j].end <= First(i)
    BY <1>0, <1>7 DEF InOrder
  <2> HIDE DEF n
  <2>3. ~(sent[i].end <= Base) /\ Base + k <= First(i)
    BY <1>2, <1>4, <2>1, <2>2
  <2>4. ~Past(i)
    BY <2>3 DEF Past
  <2> QED BY <1>0, <2>3, <2>4 DEF NoneTorn
<1>8. ~Past(j) /\ Past(j)'
  <2>1. ~(sent[j].end <= Base) /\ sent'[j].end <= Base'
    BY <1>1, <1>2, <1>4
  <2> QED BY <2>1 DEF Past
<1>9. ASSUME NEW i \in DOMAIN sent, j < i PROVE ~Past(i)' /\ Pending(i)'
  <2> DEFINE n == Len(Code(i))
  <2>1. sent[i].end = First(i) + n /\ First(i) \in Int /\ n \in Nat /\ 9 <= n
    BY <1>0, SentShape
  <2>2. Pending(i) /\ Base + k <= First(i)
    BY <1>7, <1>9
  <2> HIDE DEF n
  <2>3. ~(sent'[i].end <= Base')
    BY <1>1, <1>2, <2>1, <2>2
  <2>4. ~Past(i)'
    BY <2>3 DEF Past
  <2> QED BY <1>5, <2>2, <2>4
<1>10. \A i \in DOMAIN sent : i < j \/ i = j \/ j < i
  BY <1>2
<1>11. NoneTorn'
  <2> SUFFICES ASSUME NEW i \in DOMAIN sent PROVE Past(i)' \/ Pending(i)'
    BY <1>2 DEF NoneTorn
  <2> QED BY <1>5, <1>6, <1>8, <1>9, <1>10
<1>12. InOrder'
  BY <1>0, <1>2, <1>5 DEF InOrder
<1>13. Gone = 1 .. j - 1
  <2>1. \A i \in DOMAIN sent : Past(i) <=> i < j
    BY <1>6, <1>7, <1>8, <1>10
  <2> QED BY <1>2, <2>1 DEF Gone
<1>14. Gone' = 1 .. j
  <2>1. \A i \in DOMAIN sent : Past(i)' <=> i < j \/ i = j
    BY <1>5, <1>6, <1>8, <1>9, <1>10
  <2> QED BY <1>2, <2>1 DEF Gone
<1>15. Base' = sent[j].end
  BY <1>1, <1>4
<1> QED BY <1>1, <1>3, <1>5, <1>11, <1>12, <1>13, <1>14, <1>15

\* The frame that was cut out is delivered behind those before it.
LEMMA CutKeeps ==
    ASSUME Kept, NEW k \in 0 .. Size, streamBuffer' = From(k + 1), Cuts(k),
           UNCHANGED <<wire, sent, written>>
    PROVE  Kept'
<1>0. GoneDelivered /\ \E S : delivered \in Seq(S)
  BY DEF Kept
<1>1. /\ StreamType' /\ InOrder' /\ NoneTorn'
      /\ \E j \in DOMAIN sent :
            /\ Base' = sent[j].end
            /\ delivered' = Append(delivered, sent[j].frame)
            /\ Gone = 1 .. j - 1 /\ Gone' = 1 .. j
  BY CutFrames
<1>2. PICK j \in DOMAIN sent :
         /\ delivered' = Append(delivered, sent[j].frame)
         /\ Gone = 1 .. j - 1 /\ Gone' = 1 .. j
  BY <1>1
<1>3. DOMAIN sent = 1 .. Len(sent) /\ Len(sent) \in Nat /\ j \in Nat /\ 1 <= j
  BY StreamSizes DEF Kept
<1>4. Gone' = Gone \cup {j} /\ \A i \in Gone : i \in DOMAIN sent /\ i < j
  BY <1>2, <1>3
<1>5. Grows
  BY <1>0, <1>2, DeliveredGrows
<1>6. /\ Len(delivered) + 1 \in DOMAIN delivered'
      /\ DOMAIN delivered = 1 .. Len(delivered)
      /\ Len(delivered) \in Nat
      /\ delivered'[Len(delivered) + 1] = sent[j].frame
  <2>1. PICK S : delivered \in Seq(S)
    BY <1>0
  <2> DEFINE x == sent[j].frame  T == S \cup {x}  d == Append(delivered, x)
  <2>2. delivered \in Seq(T) /\ x \in T
    BY <2>1, SeqMonotonic
  <2> HIDE DEF T
  <2>3. /\ d \in Seq(T) /\ Len(d) = Len(delivered) + 1
        /\ d[Len(delivered) + 1] = x
    BY <2>2, AppendProperties
  <2>4. d = delivered'
    BY <1>2
  <2> HIDE DEF d
  <2>5. Len(delivered) \in Nat /\ DOMAIN delivered = 1 .. Len(delivered)
        /\ DOMAIN d = 1 .. Len(d)
    BY <2>2, <2>3, LenProperties
  <2>6. Len(delivered) + 1 \in DOMAIN d
    BY <2>3, <2>5
  <2> QED BY <2>3, <2>4, <2>5, <2>6
<1>7. GoneDelivered'
  <2>1. PICK place \in [Gone -> DOMAIN delivered] :
           /\ \A i \in Gone : delivered[place[i]] = sent[i].frame
           /\ \A i, l \in Gone : i < l => place[i] < place[l]
    BY <1>0 DEF GoneDelivered
  <2> DEFINE p == [i \in Gone \cup {j} |->
                      IF i = j THEN Len(delivered) + 1 ELSE place[i]]
  <2>2. j \notin Gone
    BY <1>2, <1>3
  <2>3. /\ p[j] = Len(delivered) + 1 /\ DOMAIN p = Gone \cup {j}
        /\ \A i \in Gone : p[i] = place[i]
    BY <2>2
  <2>4. p \in [Gone' -> DOMAIN delivered']
    <3>1. \A i \in Gone : place[i] \in DOMAIN delivered'
      BY <1>5, <2>1 DEF Grows
    <3> QED BY <1>4, <1>6, <3>1
  <2> HIDE DEF p
  <2>5. \A i \in Gone' : delivered'[p[i]] = sent'[i].frame
    <3> SUFFICES ASSUME NEW i \in Gone \cup {j}
                 PROVE  delivered'[p[i]] = sent[i].frame
      BY <1>4
    <3>1. CASE i = j
      BY <1>6, <2>3, <3>1
    <3>2. CASE i \in Gone
      <4>1. place[i] \in DOMAIN delivered /\ delivered[place[i]] = sent[i].frame
        BY <2>1, <3>2
      <4> QED BY <1>5, <2>3, <3>2, <4>1 DEF Grows
    <3> QED BY <3>1, <3>2
  <2>6. \A i, l \in Gone' : i < l => p[i] < p[l]
    <3> SUFFICES ASSUME NEW i \in Gone \cup {j}, NEW l \in Gone \cup {j}, i < l
                 PROVE  p[i] < p[l]
      BY <1>4
    <3>1. i # j
      <4> SUFFICES ASSUME i = j PROVE FALSE
        OBVIOUS
      <4>1. l \in DOMAIN sent /\ (l < j \/ l = j)
        BY <1>2, <1>4
      <4> QED BY <1>3, <4>1
    <3>2. i \in Gone /\ place[i] \in 1 .. Len(delivered)
      BY <1>6, <2>1, <3>1
    <3>3. CASE l = j
      BY <1>6, <2>3, <3>2, <3>3
    <3>4. CASE l \in Gone
      BY <2>1, <2>3, <3>2, <3>4
    <3> QED BY <3>3, <3>4
  <2> QED BY <2>4, <2>5, <2>6 DEF GoneDelivered
<1>8. \E S : delivered' \in Seq(S)
  BY <1>5 DEF Grows
<1> QED BY <1>1, <1>7, <1>8 DEF Kept

\* A pending frame that has come is not all in the buffer when a round ends.
LEMMA NoneIsLeft ==
    ASSUME StreamType, NoneTorn,
           \A i \in DOMAIN sent : Pending(i) => Base + Size < sent[i].end
    PROVE  \A i \in Arrived : i \in DOMAIN sent /\ Past(i)
<1> SUFFICES ASSUME NEW i \in Arrived PROVE i \in DOMAIN sent /\ Past(i)
  OBVIOUS
<1>1. i \in DOMAIN sent /\ sent[i].end <= written - Len(wire)
  BY DEF Arrived
<1>2. /\ Size \in Nat /\ Len(wire) \in Nat /\ written \in Nat
      /\ Base = written - Ahead /\ Ahead = Size + Len(wire)
  BY StreamSizes DEF StreamType, Base, Ahead
<1>3. sent[i].end \in Nat
  BY <1>1, SentShape
<1>4. ~(Base + Size < sent[i].end)
  BY <1>1, <1>2, <1>3
<1> QED BY <1>1, <1>4 DEF NoneTorn

\* Nothing but stray bytes is discarded.
LEMMA DiscardKeeps ==
    ASSUME StreamInv, Discard
    PROVE  StreamInv'
<1>1. Kept /\ StreamType /\ NoneTorn /\ InOrder
  BY DEF StreamInv, Kept
<1>2. Spares(Size) /\ streamBuffer' = From(Size + 1)
  BY <1>1, DiscardDrops
<1>3. Size \in 0 .. Size
  BY <1>1, StreamSizes
<1>4. UNCHANGED <<wire, sent, written, delivered>> /\ parsing' = FALSE
  BY DEF Discard
<1>5. /\ Kept' /\ Arrived' = Arrived
      /\ \A i \in DOMAIN sent : Past(i)' <=> Past(i)
  BY <1>1, <1>2, <1>3, <1>4, DropKeeps
<1>6. \A i \in Arrived : i \in DOMAIN sent /\ Past(i)
  <2>1. ASSUME NEW i \in DOMAIN sent, Pending(i)
        PROVE  Base + Size < sent[i].end
    <3> DEFINE n == Len(Code(i))
    <3>1. Base + Size <= First(i)
      BY <1>2, <2>1 DEF Spares
    <3>2. sent[i].end = First(i) + n /\ First(i) \in Int /\ n \in Nat /\ 9 <= n
      BY <1>1, SentShape
    <3> HIDE DEF n
    <3> QED BY <1>1, <3>1, <3>2, StreamSizes
  <2> QED BY <1>1, <2>1, NoneIsLeft
<1>7. NoneLeft'
  BY <1>5, <1>6 DEF NoneLeft
<1> QED BY <1>4, <1>5, <1>7 DEF StreamInv, Kept

\* The round that ends the loop leaves no whole frame in the buffer.
LEMMA AwaitKeeps ==
    ASSUME StreamInv, Await
    PROVE  StreamInv'
<1>1. Kept /\ StreamType /\ NoneTorn /\ InOrder
  BY DEF StreamInv, Kept
<1>2. /\ \E k \in 0 .. Size : Spares(k) /\ streamBuffer' = From(k + 1)
      /\ \A i \in DOMAIN sent : Pending(i) => Base + Size < sent[i].end
  BY <1>1, AwaitDrops
<1>3. UNCHANGED <<wire, sent, written, delivered>> /\ parsing' = FALSE
  BY DEF Await
<1>4. /\ Kept' /\ Arrived' = Arrived
      /\ \A i \in DOMAIN sent : Past(i)' <=> Past(i)
  BY <1>1, <1>2, <1>3, DropKeeps
<1>5. \A i \in Arrived : i \in DOMAIN sent /\ Past(i)
  BY <1>1, <1>2, NoneIsLeft
<1>6. NoneLeft'
  BY <1>4, <1>5 DEF NoneLeft
<1> QED BY <1>3, <1>4, <1>6 DEF StreamInv, Kept

\* The other rounds are not the last one.
LEMMA RoundKeeps ==
    ASSUME StreamInv, Align \/ Restart \/ Extract
    PROVE  StreamInv'
<1>1. Kept /\ StreamType /\ InOrder
  BY DEF StreamInv, Kept
<1>2. UNCHANGED <<wire, sent, written>> /\ parsing' = TRUE
  BY DEF StreamInv, Align, Restart, Extract
<1>3. CASE Align \/ Restart
  <2>1. delivered' = delivered
    BY <1>3 DEF Align, Restart
  <2>2. \E k \in 0 .. Size : Spares(k) /\ streamBuffer' = From(k + 1)
    BY <1>1, <1>3, AlignDrops, RestartDrops
  <2>3. Kept'
    BY <1>1, <1>2, <2>1, <2>2, DropKeeps
  <2> QED BY <1>2, <2>3 DEF StreamInv, Kept, NoneLeft
<1>4. CASE Extract
  <2>1. PICK k \in 1 .. Size :
           /\ streamBuffer' = From(k + 1)
           /\ \/ Cuts(k)
              \/ /\ Spares(k)
                 /\ \/ delivered' = delivered
                    \/ \E x : delivered' = Append(delivered, x)
    BY <1>1, <1>4, ExtractDrops
  <2>2. k \in 0 .. Size
    BY <1>1, StreamSizes
  <2>3. Kept'
    <3>1. CASE Cuts(k)
      BY <1>1, <1>2, <2>1, <2>2, <3>1, CutKeeps
    <3>2. CASE ~Cuts(k)
      BY <1>1, <1>2, <2>1, <2>2, <3>2, DropKeeps
    <3> QED BY <3>1, <3>2
  <2> QED BY <1>2, <2>3 DEF StreamInv, Kept, NoneLeft
<1> QED BY <1>3, <1>4

\* A piece that is received changes nothing in the stream.
LEMMA ReceiveKeeps ==
    ASSUME StreamInv, NEW n \in 1 .. MaxChunk, Receive(n)
    PROVE  StreamInv'
<1>1. StreamType /\ NoneTorn /\ InOrder /\ GoneDelivered
  BY DEF StreamInv
<1>2. /\ StreamType' /\ Base' = Base
      /\ \A j \in 1 .. Ahead : Stream'[j] = Stream[j]
  BY <1>1, ReceiveBytes
<1>3. UNCHANGED <<delivered, sent, written>> /\ parsing' = TRUE
  BY DEF Receive
<1>4. \A i \in DOMAIN sent :
         /\ Code(i)' = Code(i) /\ First(i)' = First(i)
         /\ sent'[i].end = sent[i].end
         /\ Past(i)' <=> Past(i)
         /\ Pending(i) => Pending(i)'
  <2>1. Base \in Nat /\ Ahead \in Nat
    BY <1>1, StreamSizes
  <2>2. Spares(0) /\ Base' = Base + 0
    BY <1>2, <2>1 DEF Spares, Pending
  <2>3. \A j \in 1 .. Ahead - 0 : Stream'[j] = Stream[j + 0]
    BY <1>2, <2>1
  <2>4. \A i \in DOMAIN sent : sent'[i] = sent[i]
    BY <1>3
  <2> QED BY <1>1, <2>2, <2>3, <2>4, FramesStay
<1>5. InOrder' /\ NoneTorn'
  BY <1>1, <1>3, <1>4 DEF InOrder, NoneTorn
<1>6. Gone' = Gone
  BY <1>3, <1>4 DEF Gone
<1>7. GoneDelivered'
  BY <1>1, <1>3, <1>6 DEF GoneDelivered
<1> QED BY <1>2, <1>3, <1>5, <1>7 DEF StreamInv, NoneLeft

\* What is written comes behind all frames that were sent before.
LEMMA WriteStays ==
    ASSUME StreamInv, NEW bytes \in Seq(Alphabet), Write(bytes),
           \A i \in DOMAIN sent : sent'[i] = sent[i]
    PROVE  \A i \in DOMAIN sent :
              /\ Code(i)' = Code(i) /\ First(i)' = First(i)
              /\ sent'[i].end = sent[i].end
              /\ Past(i)' <=> Past(i)
              /\ Pending(i) => Pending(i)'
<1>1. StreamType /\ NoneTorn /\ InOrder
  BY DEF StreamInv
<1>2. Base' = Base /\ \A j \in 1 .. Ahead : Stream'[j] = Stream[j]
  BY <1>1, WriteBytes
<1>3. Base \in Nat /\ Ahead \in Nat
  BY <1>1, StreamSizes
<1>4. Spares(0) /\ Base' = Base + 0
  BY <1>2, <1>3 DEF Spares, Pending
<1>5. \A j \in 1 .. Ahead - 0 : Stream'[j] = Stream[j + 0]
  BY <1>2, <1>3
<1> QED BY <1>1, <1>4, <1>5, FramesStay

\* Damaged frames and garbage come behind the frames sent before.
LEMMA SendDamagedKeeps ==
    ASSUME StreamInv, SendDamaged
    PROVE  StreamInv'
<1>1. /\ StreamType /\ NoneTorn /\ InOrder /\ GoneDelivered
      /\ NoneLeft
  BY DEF StreamInv
<1>2. PICK bytes \in Garbage \cup
                      UNION {Damaged(Encode(frame)) : frame \in Frames} :
         Write(bytes)
  BY DEF SendDamaged
<1>3. bytes \in Seq(Alphabet)
  BY DamagedType
<1>4. UNCHANGED <<sent, parsing, delivered>>
  BY <1>2 DEF SendDamaged, Write
<1>5. \A i \in DOMAIN sent :
         /\ Code(i)' = Code(i) /\ First(i)' = First(i)
         /\ sent'[i].end = sent[i].end
         /\ Past(i)' <=> Past(i)
         /\ Pending(i) => Pending(i)'
  BY <1>2, <1>3, <1>4, WriteStays
<1>6. /\ streamBuffer' \in Seq(Alphabet) /\ wire' \in Seq(Alphabet)
      /\ written' = written + Len(bytes) /\ written' \in Nat
      /\ Ahead' <= written' /\ written' - Len(wire') = written - Len(wire)
  BY <1>1, <1>2, <1>3, WriteBytes
<1>7. StreamType'
  BY <1>1, <1>4, <1>6 DEF StreamType
<1>8. InOrder'
  <2>1. \A i \in DOMAIN sent : sent[i].end <= written'
    <3> SUFFICES ASSUME NEW i \in DOMAIN sent PROVE sent[i].end <= written'
      OBVIOUS
    <3>1. sent[i].end \in Nat /\ sent[i].end <= written /\ written \in Nat
      BY <1>1, SentShape DEF InOrder, StreamType
    <3>2. Len(bytes) \in Nat
      BY <1>3, LenProperties
    <3> QED BY <1>6, <3>1, <3>2
  <2> QED BY <1>1, <1>4, <1>5, <2>1 DEF InOrder
<1>9. NoneTorn'
  BY <1>1, <1>4, <1>5 DEF NoneTorn
<1>10. GoneDelivered'
  <2>1. Gone' = Gone
    BY <1>4, <1>5 DEF Gone
  <2> QED BY <1>1, <1>4, <2>1 DEF GoneDelivered
<1>11. NoneLeft'
  <2>1. Arrived' = Arrived /\ \A i \in Arrived : i \in DOMAIN sent
    BY <1>4, <1>6 DEF Arrived
  <2> QED BY <1>1, <1>4, <1>5, <2>1 DEF NoneLeft
<1> QED BY <1>4, <1>7, <1>8, <1>9, <1>10, <1>11 DEF StreamInv

\* A frame comes behind all others, and is pending.
LEMMA SendFrames ==
    ASSUME StreamInv, NEW frame \in Frames, Send(frame)
    PROVE  /\ StreamType' /\ Base' = Base
           /\ written' - Len(wire') = written - Len(wire)
           /\ written \in Nat /\ written' \in Nat /\ written <= written'
           /\ \A i \in DOMAIN sent :
                 /\ sent'[i] = sent[i] /\ First(i)' = First(i)
                 /\ Past(i)' <=> Past(i)
                 /\ Pending(i) => Pending(i)'
           /\ \E new \in Nat :
                 /\ new = Len(sent) + 1 /\ new = Len(sent')
                 /\ new \notin DOMAIN sent
                 /\ DOMAIN sent' = DOMAIN sent \cup {new}
                 /\ sent'[new].end = written' /\ First(new)' = written
                 /\ ~Past(new)' /\ Pending(new)' /\ new \notin Arrived'
<1> DEFINE x == Encode(frame)  n == Len(x)
<1>1. StreamType /\ NoneTorn /\ InOrder
  BY DEF StreamInv
<1>2. /\ Encodable(frame) /\ Write(x)
      /\ sent' = Append(sent, [frame |-> frame, end |-> written'])
  BY DEF Send
<1>3. x \in Seq(Alphabet) /\ n \in Nat /\ 9 <= n
  BY <1>2, EncodableShape
<1>4. /\ streamBuffer' \in Seq(Alphabet) /\ wire' \in Seq(Alphabet)
      /\ written' = written + n /\ written' \in Nat
      /\ Ahead' = Ahead + n /\ Ahead' <= written' /\ Base' = Base
      /\ \A j \in 1 .. n : Stream'[Ahead + j] = x[j]
      /\ written' - Len(wire') = written - Len(wire)
  BY <1>1, <1>2, <1>3, WriteBytes
<1>5. /\ Base \in Nat /\ Ahead \in Nat /\ Base = written - Ahead /\ written \in Nat
      /\ DOMAIN sent = 1 .. Len(sent) /\ Len(sent) \in Nat /\ Len(wire) \in Nat
  BY <1>1, StreamSizes DEF Base, StreamType
<1> PICK new \in Nat : new = Len(sent) + 1
  BY <1>5
<1>6. /\ sent' \in Seq([frame: {f \in Frames : Encodable(f)}, end: Nat])
      /\ Len(sent') = new /\ new \notin DOMAIN sent
      /\ DOMAIN sent' = DOMAIN sent \cup {new}
      /\ \A i \in DOMAIN sent : sent'[i] = sent[i]
      /\ sent'[new] = [frame |-> frame, end |-> written']
  <2> DEFINE T == [frame: {f \in Frames : Encodable(f)}, end: Nat]
             r == [frame |-> frame, end |-> written']  d == Append(sent, r)
  <2>1. sent \in Seq(T) /\ r \in T
    BY <1>1, <1>2, <1>4 DEF StreamType
  <2> HIDE DEF T, r
  <2>2. /\ d \in Seq(T) /\ Len(d) = Len(sent) + 1 /\ d[Len(sent) + 1] = r
        /\ \A i \in 1 .. Len(sent) : d[i] = sent[i]
    BY <2>1, AppendProperties
  <2>3. d = sent'
    BY <1>2 DEF r
  <2> HIDE DEF d
  <2>4. DOMAIN d = 1 .. Len(d)
    BY <2>2, LenProperties
  <2>5. DOMAIN sent' = 1 .. new
    BY <2>2, <2>3, <2>4
  <2>6. 1 .. new = (1 .. Len(sent)) \cup {new}
    BY <1>5
  <2>7. Len(sent') = new /\ new \notin DOMAIN sent
    BY <1>5, <2>2, <2>3
  <2> QED BY <1>5, <2>2, <2>3, <2>5, <2>6, <2>7 DEF T, r
<1> HIDE DEF x, n
<1>7. \A i \in DOMAIN sent :
         /\ Code(i)' = Code(i) /\ First(i)' = First(i)
         /\ sent'[i].end = sent[i].end
         /\ Past(i)' <=> Past(i)
         /\ Pending(i) => Pending(i)'
  BY <1>2, <1>3, <1>6, WriteStays
<1>8. /\ Code(new)' = x /\ sent'[new].end = written' /\ First(new)' = written
      /\ ~Past(new)' /\ new \notin Arrived'
  <2>1. sent'[new].frame = frame /\ sent'[new].end = written'
    BY <1>6
  <2>2. Code(new)' = x
    BY <2>1 DEF Code, x
  <2>3. First(new)' = written
    BY <1>3, <1>4, <1>5, <2>1, <2>2 DEF First, n
  <2>4. ~(written' <= Base') /\ ~(written' <= written' - Len(wire'))
    BY <1>3, <1>4, <1>5
  <2> QED BY <2>1, <2>2, <2>3, <2>4 DEF Past, Arrived
<1>9. Pending(new)'
  <2>1. Base' <= First(new)'
    BY <1>4, <1>5, <1>8
  <2>2. ASSUME NEW k \in 1 .. n
        PROVE  Stream'[First(new)' - Base' + k] = x[k]
    <3>1. First(new)' - Base' + k = Ahead + k
      BY <1>3, <1>4, <1>5, <1>8
    <3>2. Stream'[Ahead + k] = x[k]
      BY <1>4
    <3> QED BY <3>1, <3>2
  <2> QED BY <1>8, <2>1, <2>2 DEF Pending, n
<1>10. StreamType'
  BY <1>4, <1>6 DEF StreamType
<1>11. written <= written'
  BY <1>3, <1>4, <1>5
<1> QED BY <1>4, <1>5, <1>6, <1>7, <1>8, <1>9, <1>10, <1>11

\* A frame that is sent is one more that is pending.
LEMMA SendKeeps ==
    ASSUME StreamInv, NEW frame \in Frames, Send(frame)
    PROVE  StreamInv'
<1>1. /\ StreamType /\ NoneTorn /\ InOrder /\ GoneDelivered
      /\ NoneLeft
  BY DEF StreamInv
<1>2. UNCHANGED <<parsing, delivered>>
  BY DEF Send, Write
<1>3. /\ StreamType' /\ written' - Len(wire') = written - Len(wire)
      /\ written \in Nat /\ written' \in Nat /\ written <= written'
  BY SendFrames
<1>4. \A i \in DOMAIN sent :
         /\ sent'[i] = sent[i] /\ First(i)' = First(i)
         /\ Past(i)' <=> Past(i)
         /\ Pending(i) => Pending(i)'
  BY SendFrames
<1>5. PICK new \in Nat :
         /\ new = Len(sent) + 1 /\ new \notin DOMAIN sent
         /\ DOMAIN sent' = DOMAIN sent \cup {new}
         /\ sent'[new].end = written' /\ First(new)' = written
         /\ ~Past(new)' /\ Pending(new)' /\ new \notin Arrived'
  BY SendFrames
<1>6. DOMAIN sent = 1 .. Len(sent) /\ Len(sent) \in Nat
  BY <1>1, StreamSizes
<1>7. InOrder'
  <2>1. \A i \in DOMAIN sent :
           /\ 0 <= First(i) /\ sent[i].end <= written
           /\ \A j \in DOMAIN sent : i < j => sent[i].end <= First(j)
    BY <1>1 DEF InOrder
  <2>2. \A i \in DOMAIN sent : sent[i].end \in Nat
    BY <1>1, SentShape
  <2>3. \A i \in DOMAIN sent' : 0 <= First(i)' /\ sent'[i].end <= written'
    <3> SUFFICES ASSUME NEW i \in DOMAIN sent \cup {new}
                 PROVE  0 <= First(i)' /\ sent'[i].end <= written'
      BY <1>5
    <3>1. CASE i \in DOMAIN sent
      <4>1. /\ sent[i].end \in Nat /\ sent[i].end <= written /\ 0 <= First(i)
            /\ First(i)' = First(i) /\ sent'[i] = sent[i]
        BY <1>4, <2>1, <2>2, <3>1
      <4> QED BY <1>3, <4>1
    <3>2. CASE i = new
      BY <1>3, <1>5, <3>2
    <3> QED BY <3>1, <3>2
  <2>4. ASSUME NEW i \in DOMAIN sent', NEW j \in DOMAIN sent', i < j
        PROVE  sent'[i].end <= First(j)'
    <3>0. i \in DOMAIN sent \cup {new} /\ j \in DOMAIN sent \cup {new}
      BY <1>5
    <3>1. i \in DOMAIN sent
      <4> SUFFICES ASSUME i = new PROVE FALSE
        BY <3>0
      <4>1. j \in 1 .. Len(sent) + 1
        BY <1>5, <1>6, <3>0
      <4> QED BY <1>5, <1>6, <2>4, <4>1
    <3>2. CASE j \in DOMAIN sent
      BY <1>4, <2>1, <2>4, <3>1, <3>2
    <3>3. CASE j = new
      BY <1>4, <1>5, <2>1, <3>1, <3>3
    <3> QED BY <3>0, <3>2, <3>3
  <2> QED BY <2>3, <2>4 DEF InOrder
<1>8. NoneTorn'
  <2> SUFFICES ASSUME NEW i \in DOMAIN sent \cup {new}
               PROVE  Past(i)' \/ Pending(i)'
    BY <1>5 DEF NoneTorn
  <2>1. CASE i \in DOMAIN sent
    BY <1>1, <1>4, <2>1 DEF NoneTorn
  <2>2. CASE i = new
    BY <1>5, <2>2
  <2> QED BY <2>1, <2>2
<1>9. Gone' = Gone
  BY <1>4, <1>5 DEF Gone
<1>10. GoneDelivered'
  <2>1. Grows
    BY <1>2 DEF Grows, StreamInv
  <2>2. \A i \in Gone : sent'[i] = sent[i]
    BY <1>4 DEF Gone
  <2> QED BY <1>1, <1>9, <2>1, <2>2, GoneStays
<1>11. NoneLeft'
  <2>1. \A i \in Arrived' : i \in DOMAIN sent /\ i \in Arrived
    <3> SUFFICES ASSUME NEW i \in Arrived'
                 PROVE  i \in DOMAIN sent /\ i \in Arrived
      OBVIOUS
    <3>1. i \in DOMAIN sent' /\ sent'[i].end <= written' - Len(wire')
      BY DEF Arrived
    <3>2. i \in DOMAIN sent
      <4>1. i # new
        BY <1>5
      <4>2. i \in DOMAIN sent \cup {new}
        BY <1>5, <3>1
      <4> QED BY <4>1, <4>2
    <3>3. written' - Len(wire') = written - Len(wire)
      BY <1>3
    <3>4. sent'[i].end = sent[i].end
      BY <1>4, <3>2
    <3>5. sent[i].end <= written - Len(wire)
      BY <3>1, <3>3, <3>4, Zenon
    <3> QED BY <3>2, <3>5 DEF Arrived
  <2> QED BY <1>1, <1>2, <1>4, <2>1 DEF NoneLeft
<1>12. parsing' \in BOOLEAN /\ \E S : delivered' \in Seq(S)
  BY <1>2 DEF StreamInv
<1> QED BY <1>3, <1>7, <1>8, <1>10, <1>11, <1>12 DEF StreamInv

\* At the start the stream is empty.
LEMMA StreamInit == Init => StreamInv
<1> SUFFICES ASSUME Init PROVE StreamInv
  OBVIOUS
<1>1. /\ wire = <<>> /\ streamBuffer = <<>> /\ parsing = FALSE
      /\ delivered = <<>> /\ sent = <<>> /\ written = 0
  BY DEF Init
<1>2. Len(wire) = 0 /\ Size = 0 /\ DOMAIN sent = {}
  BY <1>1, EmptySeq DEF Size
<1>3. StreamType
  <2>1. Ahead = 0
    BY <1>2 DEF Ahead
  <2> QED BY <1>1, <2>1 DEF StreamType
<1>4. InOrder /\ NoneTorn
  BY <1>2 DEF InOrder, NoneTorn
<1>5. GoneDelivered
  <2>1. Gone = {}
    BY <1>2 DEF Gone
  <2> DEFINE p == [i \in {} |-> 0]
  <2>2. p \in [Gone -> DOMAIN delivered]
    BY <2>1
  <2> QED BY <2>1, <2>2 DEF GoneDelivered
<1>6. NoneLeft
  <2>1. Arrived = {}
    BY <1>2 DEF Arrived
  <2> QED BY <2>1 DEF NoneLeft
<1>7. delivered \in Seq({})
  BY <1>1
<1> QED BY <1>1, <1>3, <1>4, <1>5, <1>6, <1>7 DEF StreamInv

\* Nothing changes when nothing happens.
LEMMA StutterKeeps ==
    ASSUME StreamInv, UNCHANGED vars
    PROVE  StreamInv'
<1>1. Kept /\ StreamType
  BY DEF StreamInv, Kept
<1>2. UNCHANGED <<wire, streamBuffer, parsing, delivered, sent, written>>
  BY DEF vars
<1>3. 0 \in 0 .. Size /\ streamBuffer' = From(0 + 1) /\ Spares(0)
  <2>1. 0 \in 0 .. Size /\ Base + 0 = Base
    BY <1>1, StreamSizes
  <2>2. Spares(0)
    BY <2>1 DEF Spares, Pending
  <2>3. 0 + 1 = 1
    OBVIOUS
  <2>4. SubSeq(streamBuffer, 1, Len(streamBuffer)) = streamBuffer
    BY <1>1, SubSeqFull DEF StreamType
  <2>5. streamBuffer' = From(0 + 1)
    BY <1>2, <2>3, <2>4, Zenon DEF From
  <2> QED BY <2>1, <2>2, <2>5
<1>4. /\ Kept' /\ Arrived' = Arrived
      /\ \A i \in DOMAIN sent : Past(i)' <=> Past(i)
  BY <1>1, <1>2, <1>3, DropKeeps
<1>5. NoneLeft'
  BY <1>2, <1>4 DEF StreamInv, NoneLeft, Arrived
<1> QED BY <1>2, <1>4, <1>5 DEF StreamInv, Kept

\* Every step keeps every frame whole until it is delivered.
LEMMA StreamStep == StreamInv /\ [Next]_vars => StreamInv'
<1> SUFFICES ASSUME StreamInv, [Next]_vars PROVE StreamInv'
  OBVIOUS
<1>1. ASSUME NEW frame \in Frames, Send(frame) PROVE StreamInv'
  BY <1>1, SendKeeps
<1>2. CASE SendDamaged
  BY <1>2, SendDamagedKeeps
<1>3. ASSUME NEW n \in 1 .. MaxChunk, Receive(n) PROVE StreamInv'
  BY <1>3, ReceiveKeeps
<1>4. CASE Discard
  BY <1>4, DiscardKeeps
<1>5. CASE Await
  BY <1>5, AwaitKeeps
<1>6. CASE Align \/ Restart \/ Extract
  BY <1>6, RoundKeeps
<1>7. CASE UNCHANGED vars
  BY <1>7, StutterKeeps
<1>8. CASE TimesOut
  BY <1>7, <1>8 DEF TimesOut
<1> QED BY <1>1, <1>2, <1>3, <1>4, <1>5, <1>6, <1>7, <1>8 DEF Next, Parse

\* Between two pieces the frames that have come are those that were parsed.
LEMMA ArrivedIsGone ==
    ASSUME StreamInv, parsing = FALSE
    PROVE  Arrived = Gone
<1>1. StreamType
  BY DEF StreamInv
<1>2. \A i \in Arrived : i \in DOMAIN sent /\ Past(i)
  BY DEF StreamInv, NoneLeft, Arrived
<1>3. ASSUME NEW i \in DOMAIN sent, Past(i) PROVE i \in Arrived
  <2>1. /\ Size \in Nat /\ Len(wire) \in Nat /\ written \in Nat
        /\ Base = written - Ahead /\ Ahead = Size + Len(wire)
    BY <1>1, StreamSizes DEF StreamType, Base, Ahead
  <2>2. sent[i].end \in Nat /\ sent[i].end <= Base
    BY <1>1, <1>3, SentShape DEF Past
  <2>3. sent[i].end <= written - Len(wire)
    BY <2>1, <2>2
  <2> QED BY <2>3 DEF Arrived
<1> QED BY <1>2, <1>3 DEF Gone, Arrived

\* Every frame sent whole is delivered, in order, as soon as its last byte has
\* come (NothingLost), however the stream is cut into pieces and whatever else
\* is on the wire.
THEOREM NothingIsLost == Spec => []NothingLost
<1>1. StreamInv => NothingLost
  <2> SUFFICES ASSUME StreamInv, parsing = FALSE PROVE NothingLost
    BY DEF NothingLost, StreamInv
  <2> QED BY ArrivedIsGone DEF StreamInv, GoneDelivered, NothingLost, Keeps
<1> QED BY <1>1, StreamInit, StreamStep, PTL DEF Spec

-----------------------------------------------------------------------------
(* A stream of whole frames and nothing else.                              *)

Tidy == /\ \A i \in DOMAIN sent :
              sent[i].end = IF i = Len(sent) THEN written ELSE First(i + 1)
        /\ Base = written \/ \E i \in DOMAIN sent : First(i) = Base
        /\ delivered = [i \in Gone |-> sent[i].frame]

Clean == damage \in Nat /\ (damage = 0 => Tidy)

\* Nothing can be dropped that is not of a frame.
LEMMA NothingToDrop ==
    ASSUME StreamType, NoneTorn, Tidy, NEW k \in 0 .. Size, Spares(k)
    PROVE  k = 0
<1>1. /\ Size \in Nat /\ Len(wire) \in Nat /\ Base \in Nat /\ written \in Nat
      /\ Base = written - Ahead /\ Ahead = Size + Len(wire)
  BY StreamSizes DEF StreamType, Base, Ahead
<1>2. CASE Base = written
  BY <1>1, <1>2
<1>3. CASE \E i \in DOMAIN sent : First(i) = Base
  <2>1. PICK i \in DOMAIN sent : First(i) = Base
    BY <1>3
  <2> DEFINE n == Len(Code(i))
  <2>2. sent[i].end = First(i) + n /\ n \in Nat /\ 9 <= n
    BY SentShape
  <2> HIDE DEF n
  <2>3. ~(sent[i].end <= Base)
    BY <1>1, <2>1, <2>2
  <2>4. Pending(i)
    BY <2>3 DEF NoneTorn, Past
  <2>5. Base + k <= Base
    BY <2>1, <2>4 DEF Spares
  <2> QED BY <1>1, <2>5
<1> QED BY <1>2, <1>3 DEF Tidy

\* Nothing changes as long as nothing is parsed or sent.
LEMMA StaysTidy ==
    ASSUME Tidy, Base' = Base, UNCHANGED <<written, sent, delivered>>
    PROVE  Tidy'
<1>1. \A i : First(i)' = First(i)
  BY DEF First, Code
<1>2. Gone' = Gone
  BY DEF Gone, Past
<1>3. \A i \in DOMAIN sent :
         sent'[i].end = IF i = Len(sent') THEN written' ELSE First(i + 1)'
  BY <1>1 DEF Tidy
<1>4. Base' = written' \/ \E i \in DOMAIN sent' : First(i)' = Base'
  BY <1>1 DEF Tidy
<1>5. delivered' = [i \in Gone' |-> sent'[i].frame]
  BY <1>2 DEF Tidy
<1> QED BY <1>3, <1>4, <1>5 DEF Tidy

\* On a clean line a round that delivers nothing drops nothing.
LEMMA DropTidy ==
    ASSUME Kept, Tidy, NEW k \in 0 .. Size, Spares(k), streamBuffer' = From(k + 1),
           UNCHANGED <<wire, sent, written, delivered>>
    PROVE  Tidy'
<1>1. k = 0
  BY NothingToDrop DEF Kept
<1>2. Base' = Base + k /\ Base \in Nat
  BY DropBytes, StreamSizes DEF Kept
<1>3. Base' = Base
  BY <1>1, <1>2
<1> QED BY <1>3, StaysTidy

\* On a clean line each frame that is cut out is the next one sent.
LEMMA CutTidy ==
    ASSUME Kept, Tidy, NEW k \in 0 .. Size, Cuts(k), streamBuffer' = From(k + 1),
           UNCHANGED <<wire, sent, written>>
    PROVE  Tidy'
<1>1. \A i \in DOMAIN sent : First(i)' = First(i)
  BY CutFrames
<1>2. PICK j \in DOMAIN sent :
         /\ Base' = sent[j].end
         /\ delivered' = Append(delivered, sent[j].frame)
         /\ Gone = 1 .. j - 1 /\ Gone' = 1 .. j
  BY CutFrames
<1>3. DOMAIN sent = 1 .. Len(sent) /\ Len(sent) \in Nat
  BY StreamSizes DEF Kept
<1>4. \A i \in DOMAIN sent : i = Len(sent) \/ i + 1 \in DOMAIN sent
  BY <1>3
<1>5. \A i \in DOMAIN sent' :
         sent'[i].end = IF i = Len(sent') THEN written' ELSE First(i + 1)'
  BY <1>1, <1>4 DEF Tidy
<1>6. Base' = written' \/ \E i \in DOMAIN sent' : First(i)' = Base'
  BY <1>1, <1>2, <1>4 DEF Tidy
<1>7. delivered' = [i \in Gone' |-> sent'[i].frame]
  <2> DEFINE S == {sent[i].frame : i \in DOMAIN sent}  x == sent[j].frame
             d == Append(delivered, x)  e == [i \in 1 .. j |-> sent[i].frame]
  <2>1. \A i \in 1 .. j : sent[i].frame \in S /\ x \in S
    BY <1>3
  <2>2. /\ delivered = [i \in 1 .. j - 1 |-> sent[i].frame]
        /\ j - 1 \in Nat /\ j \in Nat
    BY <1>2, <1>3 DEF Tidy
  <2> HIDE DEF S
  <2>3. delivered \in Seq(S) /\ Len(delivered) = j - 1
    <3>1. \A i \in 1 .. j - 1 : sent[i].frame \in S
      BY <1>3, <2>1
    <3>2. delivered \in [1 .. j - 1 -> S]
      BY <2>2, <3>1
    <3> QED BY <2>2, <3>2, SeqDef, LenProperties
  <2>4. e \in Seq(S) /\ Len(e) = j
    <3>1. e \in [1 .. j -> S]
      BY <2>1
    <3> QED BY <2>2, <3>1, SeqDef, LenProperties
  <2>5. x \in S
    BY <1>3, <2>1
  <2> HIDE DEF x
  <2>6. /\ d \in Seq(S) /\ Len(d) = Len(delivered) + 1
        /\ d[Len(delivered) + 1] = x
        /\ \A i \in 1 .. Len(delivered) : d[i] = delivered[i]
    BY <2>3, <2>5, AppendProperties
  <2> HIDE DEF d
  <2>7. \A i \in 1 .. j : d[i] = e[i]
    <3> SUFFICES ASSUME NEW i \in 1 .. j PROVE d[i] = sent[i].frame
      OBVIOUS
    <3>1. CASE i = j
      <4>1. d[j] = x
        BY <2>2, <2>3, <2>6
      <4> QED BY <3>1, <4>1 DEF x
    <3>2. CASE i # j
      <4>1. i \in 1 .. j - 1
        BY <2>2, <3>2
      <4>2. d[i] = delivered[i]
        BY <2>3, <2>6, <4>1
      <4> QED BY <2>2, <4>1, <4>2
    <3> QED BY <3>1, <3>2
  <2>8. Len(d) = Len(e)
    BY <2>2, <2>3, <2>4, <2>6
  <2> HIDE DEF e
  <2>9. d = e
    BY <2>4, <2>6, <2>7, <2>8, SeqEqual
  <2>10. delivered' = d
    BY <1>2 DEF d, x
  <2> QED BY <1>2, <2>9, <2>10 DEF e
<1> QED BY <1>5, <1>6, <1>7 DEF Tidy

\* A frame that is sent follows the one before without a gap.
LEMMA SendTidy ==
    ASSUME StreamInv, Tidy, NEW frame \in Frames, Send(frame)
    PROVE  Tidy'
<1>1. /\ Base' = Base
      /\ \A i \in DOMAIN sent :
            /\ sent'[i] = sent[i] /\ First(i)' = First(i)
            /\ Past(i)' <=> Past(i)
  BY SendFrames
<1>2. PICK new \in Nat :
         /\ new = Len(sent) + 1 /\ new = Len(sent') /\ new \notin DOMAIN sent
         /\ DOMAIN sent' = DOMAIN sent \cup {new}
         /\ sent'[new].end = written' /\ First(new)' = written
         /\ ~Past(new)'
  BY SendFrames
<1>3. DOMAIN sent = 1 .. Len(sent) /\ Len(sent) \in Nat
  BY StreamSizes DEF StreamInv
<1>4. \A i \in DOMAIN sent :
         i # new /\ (i = Len(sent) => i + 1 = new)
         /\ (i # Len(sent) => i + 1 \in DOMAIN sent)
  BY <1>2, <1>3
<1>5. \A i \in DOMAIN sent' :
         sent'[i].end = IF i = Len(sent') THEN written' ELSE First(i + 1)'
  <2> SUFFICES ASSUME NEW i \in DOMAIN sent \cup {new}
               PROVE  sent'[i].end = IF i = new THEN written' ELSE First(i + 1)'
    BY <1>2
  <2>1. CASE i = new
    BY <1>2, <2>1
  <2>2. CASE i \in DOMAIN sent /\ i = Len(sent)
    <3>1. sent'[i].end = written
      BY <1>1, <2>2 DEF Tidy
    <3>2. i + 1 = new /\ i # new
      BY <1>4, <2>2
    <3> QED BY <1>2, <3>1, <3>2
  <2>3. CASE i \in DOMAIN sent /\ i # Len(sent)
    <3>1. sent'[i].end = First(i + 1)
      BY <1>1, <2>3 DEF Tidy
    <3>2. i # new /\ First(i + 1)' = First(i + 1)
      BY <1>1, <1>4, <2>3
    <3> QED BY <3>1, <3>2
  <2> QED BY <2>1, <2>2, <2>3
<1>6. Base' = written' \/ \E i \in DOMAIN sent' : First(i)' = Base'
  BY <1>1, <1>2 DEF Tidy
<1>7. Gone' = Gone
  BY <1>1, <1>2 DEF Gone
<1>8. delivered' = delivered
  BY DEF Send, Write
<1>9. delivered' = [i \in Gone' |-> sent'[i].frame]
  BY <1>1, <1>7, <1>8 DEF Tidy, Gone
<1> QED BY <1>5, <1>6, <1>9 DEF Tidy

\* At the start the line is clean.
LEMMA CleanInit == Init => Clean
<1> SUFFICES ASSUME Init PROVE Clean
  OBVIOUS
<1>1. /\ wire = <<>> /\ streamBuffer = <<>> /\ damage = 0
      /\ delivered = <<>> /\ sent = <<>> /\ written = 0
  BY DEF Init
<1>2. Base = written /\ DOMAIN sent = {}
  <2>1. Len(wire) = 0 /\ Size = 0 /\ DOMAIN sent = {}
    BY <1>1, EmptySeq DEF Size
  <2>2. Ahead = 0
    BY <2>1 DEF Ahead
  <2> QED BY <1>1, <2>1, <2>2 DEF Base
<1>3. Gone = {}
  BY <1>2 DEF Gone
<1>4. delivered = [i \in Gone |-> sent[i].frame]
  BY <1>1, <1>3
<1> QED BY <1>1, <1>2, <1>4 DEF Clean, Tidy

\* Every step keeps the line clean, or damages it.
LEMMA CleanStep == StreamInv /\ Clean /\ [Next]_vars => Clean'
<1> SUFFICES ASSUME StreamInv, Clean, [Next]_vars PROVE Clean'
  OBVIOUS
<1>1. Kept /\ StreamType /\ InOrder /\ damage \in Nat
  BY DEF StreamInv, Kept, Clean
<1>2. CASE SendDamaged
  BY <1>1, <1>2 DEF SendDamaged, Clean
<1>3. CASE ~SendDamaged
  <2>1. damage' = damage
    BY <1>3 DEF Next, Send, Receive, TimesOut, Parse, Discard, Align, Restart,
       Await, Extract, vars
  <2> SUFFICES ASSUME Tidy PROVE Tidy'
    BY <1>1, <2>1 DEF Clean
  <2>2. ASSUME NEW frame \in Frames, Send(frame) PROVE Tidy'
    BY <2>2, SendTidy
  <2>3. ASSUME NEW n \in 1 .. MaxChunk, Receive(n) PROVE Tidy'
    <3>1. Base' = Base
      BY <1>1, <2>3, ReceiveBytes
    <3> QED BY <2>3, <3>1, StaysTidy DEF Receive
  <2>4. CASE Discard
    <3>1. Spares(Size) /\ streamBuffer' = From(Size + 1) /\ Size \in 0 .. Size
      BY <1>1, <2>4, DiscardDrops, StreamSizes
    <3>2. UNCHANGED <<wire, sent, written, delivered>>
      BY <2>4 DEF Discard
    <3> QED BY <1>1, <3>1, <3>2, DropTidy
  <2>5. CASE Align \/ Restart \/ Await
    <3>1. \E k \in 0 .. Size : Spares(k) /\ streamBuffer' = From(k + 1)
      BY <1>1, <2>5, AlignDrops, RestartDrops, AwaitDrops
    <3>2. UNCHANGED <<wire, sent, written, delivered>>
      BY <2>5 DEF Align, Restart, Await
    <3> QED BY <1>1, <3>1, <3>2, DropTidy
  <2>6. CASE Extract
    <3>1. PICK k \in 1 .. Size :
             streamBuffer' = From(k + 1) /\ (Cuts(k) \/ Spares(k))
      BY <1>1, <2>6, ExtractDrops
    <3>2. k \in 0 .. Size /\ k # 0
      BY <1>1, StreamSizes
    <3>3. Cuts(k)
      BY <1>1, <3>1, <3>2, NothingToDrop DEF Kept
    <3>4. UNCHANGED <<wire, sent, written>>
      BY <2>6 DEF Extract
    <3> QED BY <1>1, <3>1, <3>2, <3>3, <3>4, CutTidy
  <2>7. CASE UNCHANGED vars
    <3>1. Base' = Base
      BY <2>7 DEF vars, Base, Ahead, Size
    <3> QED BY <2>7, <3>1, StaysTidy DEF vars
  <2>8. CASE TimesOut
    BY <2>7, <2>8 DEF TimesOut
  <2> QED BY <1>3, <2>2, <2>3, <2>4, <2>5, <2>6, <2>7, <2>8 DEF Next, Parse
<1> QED BY <1>2, <1>3

\* On a line without damage what is delivered is what was sent, no more and no
\* less, so that ExactlyWhole holds of it.  With damage on it that depends on
\* the checksum, which damaged bytes may have by chance.
THEOREM CleanIsExact ==
    Spec => [](damage = 0 =>
                 /\ ~parsing => delivered = [i \in Arrived |-> sent[i].frame]
                 /\ ExactlyWhole)
<1>1. StreamInv /\ Clean => (damage = 0 =>
         /\ ~parsing => delivered = [i \in Arrived |-> sent[i].frame]
         /\ ExactlyWhole)
  <2> SUFFICES ASSUME StreamInv, Tidy, parsing = FALSE
               PROVE  /\ delivered = [i \in Arrived |-> sent[i].frame]
                      /\ ExactlyWhole
    BY DEF Clean, ExactlyWhole, StreamInv
  <2>1. Arrived = Gone
    BY ArrivedIsGone
  <2>2. delivered = [i \in Arrived |-> sent[i].frame]
    BY <2>1 DEF Tidy
  <2> DEFINE place == [i \in Arrived |-> i]
  <2>3. DOMAIN delivered = Arrived /\ place \in [Arrived -> DOMAIN delivered]
    BY <2>2
  <2>4. \A i \in Arrived : place[i] = i /\ delivered[i] = sent[i].frame
    BY <2>2
  <2> HIDE DEF place
  <2>5. /\ Keeps(place)
        /\ \A k \in DOMAIN delivered : \E i \in Arrived : place[i] = k
    BY <2>3, <2>4 DEF Keeps
  <2> QED BY <2>2, <2>3, <2>5 DEF ExactlyWhole
<1> QED BY <1>1, StreamInit, StreamStep, CleanInit, CleanStep, PTL DEF Spec

-----------------------------------------------------------------------------
(* The buffer is bounded.                                                  *)

\* The buffer is a sequence, of whatever comes on the wire.
BufferType == (\E S : streamBuffer \in Seq(S)) /\ parsing \in BOOLEAN

\* No START_MARKER is among the first n bytes of the buffer.
NoneBefore(n) == \A i \in 1 .. Size : i <= n => streamBuffer[i] # START_MARKER

\* Between two pieces the buffer is within the limit, or it has just lost its
\* START_MARKER; in the latter case the next piece brings the only one there
\* may be, and all before it is dropped.
LimitInv ==
    LET Limit == 2 * MAX_FRAME_SIZE
    IN  IF parsing
        THEN \/ Size <= Limit + MaxChunk
             \/ Size <= Limit + 2 * MaxChunk /\ NoneBefore(Size - MaxChunk)
        ELSE \/ Size <= Limit
             \/ Size <= Limit + MaxChunk /\ NoneBefore(Size)

BufferInv == BufferType /\ LimitInv

USE Sizes

\* The size of a buffer is a number.
LEMMA SizeType == BufferType => Size \in Nat /\ DOMAIN streamBuffer = 1 .. Size
BY LenProperties DEF BufferType, Size

\* At the start the buffer is empty.
LEMMA BufferInit == Init => BufferInv
<1> SUFFICES ASSUME Init PROVE BufferInv
  OBVIOUS
<1>1. BufferType /\ Size = 0 /\ ~parsing
  BY EmptySeq DEF Init, BufferType, Size
<1> QED BY <1>1 DEF BufferInv, LimitInv

\* A piece is added at the end.
LEMMA ReceiveBuffer ==
    ASSUME BufferInv, NEW n \in 1 .. MaxChunk, Receive(n)
    PROVE  BufferInv'
<1> DEFINE chunk == SubSeq(wire, 1, n)
<1>1. PICK S : streamBuffer \in Seq(S)
  BY DEF BufferInv, BufferType
<1> DEFINE T == S \cup {wire[i] : i \in 1 .. n}
<1>2. streamBuffer \in Seq(T)
  BY <1>1, SeqMonotonic
<1>3. chunk \in Seq(T) /\ Len(chunk) = n
  BY SubSeqProperties
<1>4. streamBuffer' = streamBuffer \o chunk /\ ~parsing /\ parsing' = TRUE
  BY DEF Receive
<1> HIDE DEF T, chunk
<1>5. /\ BufferType' /\ Size' = Size + n
      /\ \A i \in 1 .. Size : streamBuffer'[i] = streamBuffer[i]
  <2>1. /\ Size \in Nat /\ streamBuffer' \in Seq(T) /\ Size' = Size + n
        /\ \A i \in 1 .. Size + n : streamBuffer'[i] =
              IF i <= Size THEN streamBuffer[i] ELSE chunk[i - Size]
    BY <1>2, <1>3, <1>4, ConcatProperties, LenProperties, ZenonT(60) DEF Size
  <2>2. BufferType'
    BY <1>4, <2>1 DEF BufferType
  <2> QED BY <2>1, <2>2
<1>6. Size \in Nat
  BY SizeType DEF BufferInv
<1>7. CASE Size <= 2 * MAX_FRAME_SIZE
  BY <1>4, <1>5, <1>6, <1>7 DEF BufferInv, LimitInv
<1>8. CASE Size <= 2 * MAX_FRAME_SIZE + MaxChunk /\ NoneBefore(Size)
  <2>1. NoneBefore(Size - MaxChunk)'
    BY <1>5, <1>6, <1>8 DEF NoneBefore
  <2> QED BY <1>4, <1>5, <1>6, <1>8, <2>1 DEF BufferInv, LimitInv
<1> QED BY <1>4, <1>7, <1>8 DEF BufferInv, LimitInv

\* What is known of the size once a START_MARKER is the i-th byte: the bytes
\* from there on are within the limit and a piece.
LEMMA StartWithin ==
    ASSUME BufferInv, parsing, NEW i \in Starts
    PROVE  i \in 1 .. Size /\ Size - i + 1 <= 2 * MAX_FRAME_SIZE + MaxChunk
<1>1. Size \in Nat /\ i \in 1 .. Size /\ streamBuffer[i] = START_MARKER
  BY SizeType DEF BufferInv, Starts, Places
<1> QED BY <1>1 DEF BufferInv, LimitInv, NoneBefore

\* Any round of the loop but the last drops what is before a START_MARKER, or
\* more than the one that starts the buffer.
LEMMA ShortenBuffer ==
    ASSUME BufferInv, parsing, parsing' = parsing, NEW j \in Starts,
           NEW i \in j .. Size + 1, streamBuffer' = From(i)
    PROVE  BufferInv'
<1>1. /\ Size \in Nat /\ DOMAIN streamBuffer = 1 .. Size /\ j \in 1 .. Size
      /\ Size - j + 1 <= 2 * MAX_FRAME_SIZE + MaxChunk
  BY SizeType, StartWithin DEF BufferInv
<1>2. PICK S : streamBuffer \in Seq(S)
  BY DEF BufferInv, BufferType
<1>3. \A k \in i .. Size : streamBuffer[k] \in S
  BY <1>1, <1>2, ElementOfSeq DEF Size
<1>4. streamBuffer' = SubSeq(streamBuffer, i, Size)
  BY DEF From, Size
<1>5. streamBuffer' \in Seq(S) /\ Size' = Size - i + 1
  <2>1. i \in Int /\ Size \in Int /\ i <= Size + 1
    BY <1>1
  <2>2. /\ SubSeq(streamBuffer, i, Size) \in Seq(S)
        /\ Len(SubSeq(streamBuffer, i, Size)) =
              IF i <= Size THEN Size - i + 1 ELSE 0
    BY <1>3, <2>1, SubSeqProperties
  <2> QED BY <1>4, <2>1, <2>2 DEF Size
<1> QED BY <1>1, <1>5 DEF BufferInv, BufferType, LimitInv

\* A frame that does not end.
LEMMA AwaitBuffer == BufferInv /\ Await => BufferInv'
<1> SUFFICES ASSUME BufferInv, Await PROVE BufferInv'
  OBVIOUS
<1>1. /\ parsing /\ ~parsing' /\ parsing' \in BOOLEAN
      /\ 1 \in Starts /\ Delimiters = {}
      /\ streamBuffer' = Trimmed(streamBuffer)
  BY DEF Await
<1>2. /\ Size \in Nat /\ DOMAIN streamBuffer = 1 .. Size /\ 1 \in 1 .. Size
      /\ Size <= 2 * MAX_FRAME_SIZE + MaxChunk
  BY <1>1, SizeType, StartWithin DEF BufferInv
<1>3. CASE Size > 2 * MAX_FRAME_SIZE
  <2>1. PICK S : streamBuffer \in Seq(S)
    BY DEF BufferInv, BufferType
  <2>2. streamBuffer' = Tail(streamBuffer) /\ streamBuffer # <<>>
    BY <1>1, <1>2, <1>3, EmptySeq DEF Trimmed, Size
  <2>3. /\ streamBuffer' \in Seq(S) /\ Size' = Size - 1
        /\ \A i \in 1 .. Size' : streamBuffer'[i] = streamBuffer[i + 1]
    BY <2>1, <2>2, HeadTailProperties DEF Size
  <2>4. NoneBefore(Size)'
    BY <1>1, <1>2, <2>3 DEF NoneBefore, Delimiters, Places
  <2>5. BufferType'
    BY <1>1, <2>3 DEF BufferType
  <2> QED BY <1>1, <1>2, <2>3, <2>4, <2>5 DEF BufferInv, LimitInv
<1>4. CASE Size <= 2 * MAX_FRAME_SIZE
  <2>1. streamBuffer' = streamBuffer
    <3>1. ~(Size > 2 * MAX_FRAME_SIZE)
      BY <1>2, <1>4
    <3> QED BY <1>1, <3>1, Zenon DEF Trimmed, Size
  <2>2. BufferType' /\ Size' = Size
    BY <1>1, <2>1 DEF BufferInv, BufferType, Size
  <2> QED BY <1>1, <1>4, <2>2 DEF BufferInv, LimitInv
<1> QED BY <1>2, <1>3, <1>4

\* Every step keeps the buffer within the limit, or all of it to be dropped.
LEMMA BufferNext == BufferInv /\ [Next]_vars => BufferInv'
<1> SUFFICES ASSUME BufferInv, [Next]_vars PROVE BufferInv'
  OBVIOUS
<1>1. CASE (\E frame \in Frames : Send(frame)) \/ SendDamaged \/ TimesOut
           \/ UNCHANGED vars
  <2>1. streamBuffer' = streamBuffer /\ parsing' = parsing
    BY <1>1 DEF Send, SendDamaged, Write, TimesOut, vars
  <2> QED BY <2>1 DEF BufferInv, BufferType, LimitInv, NoneBefore, Size
<1>2. CASE \E n \in 1 .. MaxChunk : Receive(n)
  BY <1>2, ReceiveBuffer
<1>3. CASE Discard
  <2>1. BufferType' /\ Size' = 0 /\ ~parsing'
    BY <1>3, EmptySeq DEF Discard, BufferType, Size
  <2> QED BY <2>1 DEF BufferInv, LimitInv
<1>4. CASE Align \/ Restart
  <2>1. PICK i \in Starts : streamBuffer' = From(i)
    BY <1>4 DEF Align, Restart
  <2>2. parsing /\ parsing' = parsing
    BY <1>4 DEF Align, Restart
  <2>3. i \in i .. Size + 1
    BY <2>2, SizeType, StartWithin DEF BufferInv
  <2> QED BY <2>1, <2>2, <2>3, ShortenBuffer
<1>5. CASE Await
  BY <1>5, AwaitBuffer
<1>6. CASE Extract
  <2>1. PICK i \in Delimiters : streamBuffer' = From(i + 1)
    BY <1>6 DEF Extract
  <2>2. parsing /\ parsing' = parsing /\ 1 \in Starts
    BY <1>6 DEF Extract
  <2>3. i + 1 \in 1 .. Size + 1
    BY <2>1, SizeType DEF BufferInv, Delimiters, Places
  <2> QED BY <2>1, <2>2, <2>3, ShortenBuffer
<1> QED BY <1>1, <1>2, <1>3, <1>4, <1>5, <1>6 DEF Next, Parse

\* The session's _streamBuffer is bounded, whatever comes and in whatever
\* pieces: by two frames of the greatest size and two pieces.
THEOREM BufferStaysBounded == Spec => []BufferBounded
<1>1. BufferInv => BufferBounded
  BY SizeType DEF BufferInv, LimitInv, BufferBounded, Size
<1> QED BY <1>1, BufferInit, BufferNext, PTL DEF Spec
=============================================================================
